------------------------- MODULE OutboxWorkerProofs -------------------------
(* Theorems about OutboxWorker, for every value of its constants. *)
EXTENDS OutboxWorker, FiniteSetTheorems, TLAPS

-----------------------------------------------------------------------------
(* Rows of the outbox *)

\* Well-formed rows: a token and a lock exactly while a sender may hold it.
RowOK(x) ==
    /\ x \in NoticeRows
    /\ x.token > 0 <=> x.status = "processing"
    /\ x.lock = "none" <=> x.status # "processing"

RowsOK ==
    /\ DOMAIN outbox \subseteq Notices
    /\ outbox = [e \in DOMAIN outbox |-> outbox[e]]
    /\ \A e \in DOMAIN outbox : RowOK(outbox[e])

\* OutboxTypeOK, taken apart.
LEMMA OutboxTypeParts == OutboxTypeOK <=> StatusTypeOK /\ RowsOK
  BY DEF OutboxTypeOK, RowsOK, RowOK

\* Every notice the transactions post is a notice.
LEMMA NoticesAboutType ==
    ASSUME NEW r \in Requests, NEW n \in Nat, NEW kind \in Kinds
    PROVE  NoticesAbout(r, n, kind) \subseteq Notices
<1>1. Audience(kind) \subseteq Recipients
  BY DEF Audience, Recipients, Kinds
<1> QED
  BY <1>1 DEF NoticesAbout, Notices

\* A freshly inserted row is well formed.
LEMMA NewNoticeOK == RowOK(NewNotice)
  BY DEF NewNotice, RowOK, NoticeRows, NoticeStatuses

(***************************************************************************)
(* An insert that ignores conflicts keeps the rows that are there.         *)
(***************************************************************************)
LEMMA PostEffect ==
    ASSUME RowsOK, NEW new \in SUBSET Notices, Post(new)
    PROVE  /\ RowsOK'
           /\ DOMAIN outbox' = DOMAIN outbox \cup new
           /\ \A e \in DOMAIN outbox : outbox'[e] = outbox[e]
           /\ \A e \in new \ DOMAIN outbox : outbox'[e] = NewNotice
<1>1. /\ DOMAIN outbox' = DOMAIN outbox \cup new
      /\ \A e \in DOMAIN outbox : outbox'[e] = outbox[e]
      /\ \A e \in new \ DOMAIN outbox : outbox'[e] = NewNotice
      /\ outbox' = [e \in DOMAIN outbox' |-> outbox'[e]]
  BY DEF Post
<1>2. \A e \in DOMAIN outbox' : RowOK(outbox'[e])
  BY <1>1, NewNoticeOK DEF RowsOK
<1>3. DOMAIN outbox' \subseteq Notices
  BY <1>1 DEF RowsOK
<1> QED
  BY <1>1, <1>2, <1>3 DEF RowsOK

\* An update of one row leaves the others alone.
LEMMA SetRowEffect ==
    ASSUME RowsOK, NEW e \in DOMAIN outbox, NEW new, RowOK(new), SetRow(e, new)
    PROVE  /\ RowsOK'
           /\ DOMAIN outbox' = DOMAIN outbox
           /\ outbox'[e] = new
           /\ \A d \in DOMAIN outbox \ {e} : outbox'[d] = outbox[d]
<1>1. /\ DOMAIN outbox' = DOMAIN outbox
      /\ outbox'[e] = new
      /\ \A d \in DOMAIN outbox \ {e} : outbox'[d] = outbox[d]
      /\ outbox' = [d \in DOMAIN outbox' |-> outbox'[d]]
  BY DEF SetRow, RowsOK
<1>2. \A d \in DOMAIN outbox' : RowOK(outbox'[d])
  BY <1>1 DEF RowsOK
<1> QED
  BY <1>1, <1>2 DEF RowsOK

-----------------------------------------------------------------------------
(* What a step may do to the table *)

(***************************************************************************)
(* A sender that is past its claim has the notice and token of a claim,    *)
(* and tokens are the attempt numbers of claims, counted up.               *)
(***************************************************************************)
HasNotice ==
    \A s \in Senders : at[s] \in Working =>
        /\ held[s] \in Calls
        /\ held[s].event \in DOMAIN outbox
        /\ held[s].token > 0
        /\ held[s].token <= outbox[held[s].event].attempts

TokensAreAttempts ==
    \A e \in DOMAIN outbox : outbox[e].token \in {0, outbox[e].attempts}

\* A claim of e by sender s, as the row sees it.
IsClaim(e, s) ==
    /\ ClaimNextEvent(s, e)
    /\ outbox'[e].attempts = outbox[e].attempts + 1
    /\ outbox'[e].token = outbox[e].attempts + 1
    /\ outbox'[e].status = "processing"

(***************************************************************************)
(* The end of a claim by sender s who still holds the token: sent only     *)
(* after Telegram's answer, discarded only when found obsolete.            *)
(***************************************************************************)
IsEnd(e, s) ==
    /\ at[s] \in Working /\ held[s].event = e /\ HoldsToken(s)
    /\ outbox'[e].attempts = outbox[e].attempts
    /\ outbox'[e].token = 0
    /\ outbox'[e].status = "sent" => at[s] = "sent"
    /\ outbox'[e].status = "discarded" => at[s] = "obsolete"

\* Renewed, expired or due: neither status, token nor attempts change.
IsTick(e) ==
    /\ IsOpen(e)
    /\ outbox'[e].status = outbox[e].status
    /\ outbox'[e].token = outbox[e].token
    /\ outbox'[e].attempts = outbox[e].attempts

RowMoves(e) ==
    /\ e \in DOMAIN outbox'
    /\ \/ outbox'[e] = outbox[e]
       \/ IsTick(e)
       \/ \E s \in Senders : IsClaim(e, s) \/ IsEnd(e, s)

TableMoves ==
    /\ RowsOK'
    /\ \A e \in DOMAIN outbox : RowMoves(e)
    /\ \A e \in DOMAIN outbox' \ DOMAIN outbox :
         outbox'[e] = NewNotice /\ \E r \in Requests : RequestStep(r)

(***************************************************************************)
(* A sender drops its notice, claims one, or goes on with the one it has:  *)
(* to "sent" when Telegram took it, to "obsolete" when the request has     *)
(* moved on.                                                               *)
(***************************************************************************)
GoesOn(s) ==
    /\ at[s] \in Working /\ at'[s] \in Working /\ held'[s] = held[s]
    /\ at'[s] = "sent" => at[s] = "sent" \/ held[s] \in heard'
    /\ at'[s] = "obsolete" =>
          at[s] = "obsolete" \/ (~IsCurrent(held[s].event) /\ UNCHANGED <<upload, outbox>>)

SenderMoves(s) ==
    \/ at'[s] = "claim"
    \/ GoesOn(s)
    \/ \E e \in DOMAIN outbox :
          /\ IsClaim(e, s)
          /\ at'[s] = "render"
          /\ held'[s] = [event |-> e, token |-> outbox'[e].token]

StepOK ==
    /\ TypeOK'
    /\ TableMoves
    /\ \A s \in Senders : SenderMoves(s)
    /\ heard \subseteq heard'

TypeParts ==
    /\ StatusTypeOK /\ RowsOK
    /\ at \in [Senders -> Places] /\ held \in [Senders -> Calls \cup {None}]
    /\ wire \subseteq Calls /\ heard \subseteq Calls /\ faults \in Nat

\* TypeOK, taken apart.
LEMMA TypeAsParts == TypeOK <=> TypeParts
  BY OutboxTypeParts DEF TypeOK, TypeParts

\* When the table stays as it is, no row moves.
LEMMA SameTable ==
    ASSUME RowsOK, outbox' = outbox
    PROVE  TableMoves
  BY DEF RowsOK, TableMoves, RowMoves

\* A step that updates one row moves that row only.
LEMMA OneRowMoves ==
    ASSUME RowsOK, NEW e \in DOMAIN outbox, NEW new, RowOK(new), SetRow(e, new),
           IsTick(e) \/ (\E s \in Senders : IsClaim(e, s) \/ IsEnd(e, s))
    PROVE  TableMoves
  BY SetRowEffect DEF TableMoves, RowMoves

\* Senders that do nothing satisfy SenderMoves.
LEMMA IdleSender ==
    ASSUME TypeOK, NEW s \in Senders, at'[s] = at[s], held'[s] = held[s]
    PROVE  SenderMoves(s)
  BY DEF TypeOK, Places, SenderMoves, GoesOn

\* In the initial state nobody has a notice.
LEMMA TypeInit == Init => TypeOK /\ HasNotice /\ TokensAreAttempts
<1> SUFFICES ASSUME Init PROVE TypeOK /\ HasNotice /\ TokensAreAttempts
  OBVIOUS
<1> DEFINE cards == UNION {NoticesAbout(r, 0, "submitted") : r \in Requests}
<1>1. cards \subseteq Notices
  BY NoticesAboutType DEF Kinds
<1>2. RowsOK
  BY <1>1, NewNoticeOK DEF Init, OutboxInit, RowsOK
<1>3. StatusTypeOK
  BY DEF Init, OutboxInit, StatusInit, StatusTypeOK, UploadStatuses
<1>4. TypeParts
  BY <1>2, <1>3 DEF Init, TypeParts, Places
<1>5. HasNotice
  BY DEF Init, HasNotice, Working
<1>6. TokensAreAttempts
  BY DEF Init, OutboxInit, TokensAreAttempts, NewNotice
<1> QED
  BY <1>4, <1>5, <1>6, TypeAsParts

-----------------------------------------------------------------------------
(* The steps *)

\* Decisions, attempts, results and cleanup only add notices to the table.
LEMMA RequestStepOK ==
    ASSUME TypeOK, NEW r \in Requests, RequestStep(r), UNCHANGED senderVars
    PROVE  StepOK
<1>a. TypeParts
  BY TypeAsParts
<1>b. upload[r] \in [status : UploadStatuses, attempts : Nat]
  BY <1>a DEF TypeParts, StatusTypeOK
<1>1. ASSUME NEW n \in Nat, NEW kind \in Kinds, Post(NoticesAbout(r, n, kind))
      PROVE  RowsOK' /\ TableMoves
  BY <1>1, <1>a, PostEffect, NoticesAboutType DEF TypeParts, TableMoves, RowMoves
<1>2. ASSUME outbox' = outbox PROVE RowsOK' /\ TableMoves
  BY <1>2, <1>a, SameTable DEF TypeParts, TableMoves
<1>3. ASSUME NEW from, NEW to \in UploadStatuses, Move(r, from, to)
      PROVE  upload' \in [Requests -> [status : UploadStatuses, attempts : Nat]]
  BY <1>3, <1>a DEF Move, TypeParts, StatusTypeOK
<1>4. ASSUME NEW n \in Nat, NEW outcome \in {"uploaded", "failed", "rejected"},
             Announce(r, n, outcome)
      PROVE  announced' \subseteq [req : Requests, attempt : Nat,
                                   outcome : {"uploaded", "failed", "rejected"}]
  BY <1>4, <1>a DEF Announce, TypeParts, StatusTypeOK
<1>5. RowsOK' /\ TableMoves
  BY <1>1, <1>2, <1>b DEF RequestStep, RejectAndTell, ClaimAgain, RecoverOne, FinishAndTell,
                          CleanupRow, Kinds
<1>6. ASSUME Enqueue(r) \/ MarkDeleted(r) PROVE StatusTypeOK'
  BY <1>3, <1>6, <1>a DEF Enqueue, MarkDeleted, StatusTypeOK, TypeParts, UploadStatuses
<1>7. ASSUME Reject(r) PROVE StatusTypeOK'
  BY <1>3, <1>4, <1>7 DEF Reject, StatusTypeOK, UploadStatuses
<1>8. ASSUME NEW outcome \in {"uploaded", "failed"}, Finish(r, outcome) PROVE StatusTypeOK'
  BY <1>3, <1>4, <1>8, <1>b DEF Finish, StatusTypeOK, UploadStatuses
<1>9. ASSUME ClaimUpload(r) PROVE StatusTypeOK'
  BY <1>9, <1>a, <1>b DEF ClaimUpload, StatusTypeOK, TypeParts, UploadStatuses
<1>10. ASSUME Recover({r}) PROVE StatusTypeOK'
  <2>1. \A q \in Requests :
          upload'[q] = IF q = r THEN [upload[q] EXCEPT !.status = "approved"] ELSE upload[q]
    BY <1>10 DEF Recover
  <2> QED
    BY <1>10, <2>1, <1>a DEF Recover, StatusTypeOK, TypeParts, UploadStatuses
<1>11. StatusTypeOK'
  BY <1>6, <1>7, <1>8, <1>9, <1>10
     DEF RequestStep, RejectAndTell, ClaimAgain, RecoverOne, FinishAndTell, CleanupRow
<1>12. TypeParts'
  BY <1>5, <1>11, <1>a DEF TypeParts, senderVars
<1>13. TypeOK'
  BY <1>12 DEF TypeOK, TypeParts, OutboxTypeOK, RowsOK, RowOK
<1>14. ASSUME NEW s \in Senders PROVE SenderMoves(s)
  BY IdleSender DEF senderVars
<1> QED
  BY <1>5, <1>13, <1>14 DEF StepOK, senderVars

(***************************************************************************)
(* The rest of a step's types, once table and senders are accounted for.   *)
(***************************************************************************)
LEMMA TypeFromParts ==
    ASSUME TypeOK, UNCHANGED <<upload, announced>>, RowsOK',
           at' \in [Senders -> Places], held' \in [Senders -> Calls \cup {None}],
           wire' \subseteq Calls, heard' \subseteq Calls, faults' \in Nat
    PROVE  TypeOK'
  BY DEF TypeOK, OutboxTypeOK, StatusTypeOK, RowsOK, RowOK

\* One sender drops its notice, whatever that step does to the table.
LEMMA DropSender ==
    ASSUME TypeOK, NEW s \in Senders, BackToLoop(s)
    PROVE  /\ at' \in [Senders -> Places] /\ held' \in [Senders -> Calls \cup {None}]
           /\ \A t \in Senders : SenderMoves(t)
<1>1. /\ at' \in [Senders -> Places] /\ held' \in [Senders -> Calls \cup {None}]
      /\ at'[s] = "claim"
      /\ \A t \in Senders \ {s} : at'[t] = at[t] /\ held'[t] = held[t]
  BY DEF TypeOK, BackToLoop, Go, Places
<1>2. SenderMoves(s)
  BY <1>1 DEF SenderMoves
<1>3. \A t \in Senders \ {s} : SenderMoves(t)
  BY <1>1, IdleSender
<1> QED
  BY <1>1, <1>2, <1>3

\* One sender goes on.
LEMMA GoSender ==
    ASSUME TypeOK, NEW s \in Senders, NEW place \in Working, Go(s, place),
           at[s] \in Working, held' = held,
           place = "sent" => at[s] = "sent" \/ held[s] \in heard',
           place = "obsolete" =>
              at[s] = "obsolete" \/ (~IsCurrent(held[s].event) /\ UNCHANGED <<upload, outbox>>)
    PROVE  /\ at' \in [Senders -> Places]
           /\ \A t \in Senders : SenderMoves(t)
<1>1. /\ at' \in [Senders -> Places] /\ at'[s] = place
      /\ \A t \in Senders \ {s} : at'[t] = at[t] /\ held'[t] = held[t]
  BY DEF TypeOK, Go, Places
<1>2. SenderMoves(s)
  BY <1>1 DEF SenderMoves, GoesOn
<1>3. \A t \in Senders \ {s} : SenderMoves(t)
  BY <1>1, IdleSender
<1> QED
  BY <1>1, <1>2, <1>3

\* claim_next_event.
LEMMA ClaimOK ==
    ASSUME TypeOK, NEW s \in Senders, NEW e \in DOMAIN outbox, ClaimNextEvent(s, e)
    PROVE  StepOK
<1>a. TypeParts
  BY TypeAsParts
<1> DEFINE token == outbox[e].attempts + 1
           new == [outbox[e] EXCEPT !.status = "processing", !.attempts = token,
                                    !.token = token, !.lock = "live"]
<1>1. e \in Notices /\ outbox[e] \in NoticeRows
  BY <1>a DEF TypeParts, RowsOK, RowOK
<1>2. /\ RowOK(new) /\ token \in Nat
      /\ new.status = "processing" /\ new.attempts = token /\ new.token = token
  <2>1. token \in Nat /\ token > 0
    BY <1>1 DEF NoticeRows
  <2> HIDE DEF token
  <2>2. new \in NoticeRows /\ new.lock = "live"
    BY <1>1, <2>1 DEF NoticeRows, NoticeStatuses
  <2>3. new.status = "processing" /\ new.attempts = token /\ new.token = token
    BY <1>1 DEF NoticeRows
  <2> HIDE DEF new
  <2> QED
    BY <2>1, <2>2, <2>3 DEF RowOK
<1>3. SetRow(e, new) /\ outbox'[e] = new
  BY <1>a, <1>2, SetRowEffect DEF ClaimNextEvent, TypeParts
<1> HIDE DEF new
<1>4. IsClaim(e, s)
  BY <1>2, <1>3 DEF IsClaim
<1>5. TableMoves
  BY <1>a, <1>2, <1>3, <1>4, OneRowMoves DEF TypeParts
<1>6. /\ at' \in [Senders -> Places] /\ held' \in [Senders -> Calls \cup {None}]
      /\ at'[s] = "render" /\ held'[s] = [event |-> e, token |-> token]
      /\ \A t \in Senders \ {s} : at'[t] = at[t] /\ held'[t] = held[t]
  BY <1>a, <1>1, <1>2 DEF ClaimNextEvent, Go, TypeParts, Places, Working, Calls
<1>7. SenderMoves(s)
  BY <1>2, <1>3, <1>4, <1>6 DEF SenderMoves
<1>8. \A t \in Senders \ {s} : SenderMoves(t)
  BY <1>6, IdleSender
<1>9. TypeOK'
  BY <1>a, <1>5, <1>6, TypeFromParts DEF ClaimNextEvent, TypeParts, TableMoves
<1> QED
  BY <1>5, <1>7, <1>8, <1>9 DEF StepOK, ClaimNextEvent

\* dispatch_event up to the renewal, and the call of sendMessage.
LEMMA ProceedOK ==
    ASSUME TypeOK, HasNotice, NEW s \in Senders, Render(s) \/ Send(s)
    PROVE  StepOK
<1>a. TypeParts
  BY TypeAsParts
<1>1. at[s] \in Working /\ held[s] \in Calls
  BY DEF HasNotice, Render, Send, Proceed, Working
<1>2. UNCHANGED <<upload, announced, outbox, held, heard, faults>> /\ wire' \subseteq Calls
  BY <1>a, <1>1 DEF Render, Send, Proceed, TypeParts
<1>3. TableMoves
  BY <1>a, <1>2, SameTable DEF TypeParts
<1>4. at' \in [Senders -> Places] /\ \A t \in Senders : SenderMoves(t)
  BY <1>1, <1>2, GoSender DEF Render, Send, Proceed, Working
<1>5. TypeOK'
  BY <1>a, <1>2, <1>3, <1>4, TypeFromParts DEF TypeParts, TableMoves
<1> QED
  BY <1>2, <1>3, <1>4, <1>5 DEF StepOK

\* The heartbeat, and the renewal before the send.
LEMMA ExtendLeaseOK ==
    ASSUME TypeOK, HasNotice, NEW s \in Senders, RefreshLease(s) \/ Heartbeat(s)
    PROVE  StepOK
<1>a. TypeParts
  BY TypeAsParts
<1> DEFINE e == held[s].event
           new == [outbox[e] EXCEPT !.lock = "live"]
<1>1. at[s] \in Working /\ held[s] \in Calls /\ e \in DOMAIN outbox
  BY DEF HasNotice, RefreshLease, Heartbeat, Working
<1>2. RowOK(outbox[e]) /\ outbox[e].status = "processing"
  BY <1>a, <1>1 DEF TypeParts, RowsOK, RefreshLease, Heartbeat, Owns
<1>3. /\ RowOK(new) /\ new.status = outbox[e].status
      /\ new.token = outbox[e].token /\ new.attempts = outbox[e].attempts
  BY <1>2 DEF RowOK, NoticeRows, NoticeStatuses
<1>4. SetRow(e, new) /\ outbox'[e] = new
  BY <1>a, <1>1, <1>3, SetRowEffect DEF RefreshLease, Heartbeat, ExtendLease, TypeParts
<1> HIDE DEF new
<1>5. IsTick(e)
  BY <1>2, <1>3, <1>4 DEF IsTick, IsOpen, Deliverable
<1>6. TableMoves
  BY <1>a, <1>1, <1>3, <1>4, <1>5, OneRowMoves DEF TypeParts
<1>7. at' \in [Senders -> Places] /\ \A t \in Senders : SenderMoves(t)
  <2>1. CASE RefreshLease(s)
    BY <1>1, <2>1, GoSender DEF RefreshLease, Working
  <2>2. CASE Heartbeat(s)
    BY <1>a, <2>2, IdleSender DEF Heartbeat, TypeParts
  <2> QED
    BY <2>1, <2>2
<1>8. UNCHANGED <<upload, announced, held, wire, heard, faults>>
  BY DEF RefreshLease, Heartbeat
<1>9. TypeOK'
  BY <1>a, <1>6, <1>7, <1>8, TypeFromParts DEF TypeParts, TableMoves
<1> QED
  BY <1>6, <1>7, <1>8, <1>9 DEF StepOK

\* A lost lease, a failed heartbeat and a crash change no row.
LEMMA DropOK ==
    ASSUME TypeOK, NEW s \in Senders, LeaseLost(s) \/ HeartbeatFails(s) \/ Crash(s)
    PROVE  StepOK
<1>a. TypeParts
  BY TypeAsParts
<1>1. /\ BackToLoop(s) /\ UNCHANGED <<upload, announced, outbox, wire, heard>>
      /\ faults' \in Nat
  BY <1>a DEF LeaseLost, HeartbeatFails, Crash, Fault, TypeParts
<1>2. TableMoves
  BY <1>a, <1>1, SameTable DEF TypeParts
<1>3. TypeOK'
  BY <1>a, <1>1, <1>2, DropSender, TypeFromParts DEF TypeParts, TableMoves
<1> QED
  BY <1>1, <1>2, <1>3, DropSender DEF StepOK

\* Telegram delivers or refuses a call, and its sender learns of it.
LEMMA TelegramOK ==
    ASSUME TypeOK, NEW m \in wire, TelegramDelivers(m) \/ TelegramRefuses(m)
    PROVE  StepOK
<1>a. TypeParts
  BY TypeAsParts
<1>1. /\ UNCHANGED <<upload, announced, outbox, held, faults>>
      /\ wire' \subseteq Calls /\ heard' \subseteq Calls /\ heard \subseteq heard'
  BY <1>a DEF TelegramDelivers, TelegramRefuses, TypeParts
<1>2. PICK place \in {"sent", "failed", "refused"} :
        Answer(m, place) /\ (place = "sent" => m \in heard')
  BY DEF TelegramDelivers, TelegramRefuses
<1>3. at' \in [Senders -> Places]
  BY <1>a, <1>2 DEF Answer, TypeParts, Places, Working
<1>4. ASSUME NEW s \in Senders PROVE SenderMoves(s)
  <2>1. CASE at[s] = "sending" /\ held[s] = m
    BY <1>1, <1>2, <2>1 DEF Answer, SenderMoves, GoesOn, Working
  <2>2. CASE ~(at[s] = "sending" /\ held[s] = m)
    BY <1>1, <1>2, <2>2, IdleSender DEF Answer
  <2> QED
    BY <2>1, <2>2
<1>5. TableMoves
  BY <1>a, <1>1, SameTable DEF TypeParts
<1>6. TypeOK'
  BY <1>a, <1>1, <1>3, <1>5, TypeFromParts DEF TypeParts, TableMoves
<1> QED
  BY <1>1, <1>4, <1>5, <1>6 DEF StepOK

\* A send that times out leaves open what becomes of the message.
LEMMA TimeoutOK ==
    ASSUME TypeOK, NEW s \in Senders, SendTimesOut(s)
    PROVE  StepOK
<1>a. TypeParts
  BY TypeAsParts
<1>1. /\ UNCHANGED <<upload, announced, outbox, held>> /\ faults' \in Nat
      /\ wire' \subseteq Calls /\ heard' \subseteq Calls /\ heard \subseteq heard'
  BY <1>a DEF SendTimesOut, TypeParts
<1>2. at' \in [Senders -> Places] /\ \A t \in Senders : SenderMoves(t)
  BY <1>1, GoSender DEF SendTimesOut, Working
<1>3. TableMoves
  BY <1>a, <1>1, SameTable DEF TypeParts
<1>4. TypeOK'
  BY <1>a, <1>1, <1>2, <1>3, TypeFromParts DEF TypeParts, TableMoves
<1> QED
  BY <1>1, <1>2, <1>3, <1>4 DEF StepOK

(***************************************************************************)
(* A row written by an update that compares the token: the claim of this   *)
(* sender ends.                                                            *)
(***************************************************************************)
LEMMA EndOK ==
    ASSUME TypeOK, HasNotice, NEW s \in Senders, at[s] \in Working, HoldsToken(s),
           NEW new, SetRow(held[s].event, new), RowOK(new),
           new.token = 0, new.attempts = outbox[held[s].event].attempts,
           new.status = "sent" => at[s] = "sent",
           new.status = "discarded" => at[s] = "obsolete"
    PROVE  TableMoves
<1>1. PICK e \in DOMAIN outbox : e = held[s].event
  BY DEF HasNotice
<1>2. RowsOK
  BY TypeAsParts DEF TypeParts
<1>3. outbox'[e] = new
  BY <1>1, <1>2, SetRowEffect
<1>4. IsEnd(e, s)
  BY <1>1, <1>3 DEF IsEnd
<1> QED
  BY <1>1, <1>2, <1>4, OneRowMoves

\* The rows the mark_* updates write.
LEMMA UnlockedOK ==
    ASSUME TypeOK, HasNotice, NEW s \in Senders, at[s] \in Working,
           NEW status \in NoticeStatuses \ {"processing"}
    PROVE  /\ RowOK(Unlocked(s, status))
           /\ Unlocked(s, status).token = 0 /\ Unlocked(s, status).status = status
           /\ Unlocked(s, status).attempts = outbox[held[s].event].attempts
<1>1. held[s].event \in DOMAIN outbox
  BY DEF HasNotice
<1>2. outbox[held[s].event] \in NoticeRows
  BY <1>1, TypeAsParts DEF TypeParts, RowsOK, RowOK
<1> DEFINE new == Unlocked(s, status)
<1>3. /\ new \in NoticeRows /\ new.token = 0 /\ new.lock = "none" /\ new.status = status
      /\ new.attempts = outbox[held[s].event].attempts
  BY <1>2 DEF Unlocked, NoticeRows
<1> HIDE DEF new
<1>4. RowOK(new)
  BY <1>3 DEF RowOK
<1> QED
  BY <1>3, <1>4 DEF new

\* A row that waits for its next attempt.
LEMMA PostponedOK ==
    ASSUME NEW row, RowOK(row), row.token = 0
    PROVE  LET later == [row EXCEPT !.due = FALSE] IN
           /\ RowOK(later) /\ later.token = 0 /\ later.status = row.status
           /\ later.attempts = row.attempts
<1> DEFINE later == [row EXCEPT !.due = FALSE]
<1>1. /\ later \in NoticeRows /\ later.token = row.token /\ later.lock = row.lock
      /\ later.status = row.status /\ later.attempts = row.attempts
  BY DEF RowOK, NoticeRows
<1> HIDE DEF later
<1>2. RowOK(later)
  BY <1>1 DEF RowOK
<1> QED
  BY <1>1, <1>2 DEF later

\* mark_sent, mark_discarded and mark_failed.
LEMMA MarkOK ==
    ASSUME TypeOK, HasNotice, NEW s \in Senders,
           MarkSent(s) \/ MarkDiscarded(s) \/ MarkFailed(s)
    PROVE  StepOK
<1>a. TypeParts
  BY TypeAsParts
<1>1. at[s] \in Working
  BY DEF MarkSent, MarkDiscarded, MarkFailed, Working
<1>2. PICK new :
        /\ Mark(s, new)
        /\ RowOK(new) /\ new.token = 0 /\ new.attempts = outbox[held[s].event].attempts
        /\ new.status = "sent" => at[s] = "sent"
        /\ new.status = "discarded" => at[s] = "obsolete"
  <2>1. CASE MarkSent(s)
    BY <1>1, <2>1, UnlockedOK DEF MarkSent, NoticeStatuses
  <2>2. CASE MarkDiscarded(s)
    BY <1>1, <2>2, UnlockedOK DEF MarkDiscarded, NoticeStatuses
  <2>3. CASE MarkFailed(s)
    <3>1. CASE at[s] = "refused" \/ held[s].token >= MaxAttempts
      <4>1. Mark(s, Unlocked(s, "dead"))
        BY <2>3, <3>1 DEF MarkFailed
      <4> DEFINE new == Unlocked(s, "dead")
      <4>2. /\ RowOK(new) /\ new.token = 0 /\ new.status = "dead"
            /\ new.attempts = outbox[held[s].event].attempts
        BY <1>1, UnlockedOK DEF NoticeStatuses
      <4> HIDE DEF new
      <4>3. new.status # "sent" /\ new.status # "discarded"
        BY <4>2
      <4> QED
        BY <4>1, <4>2, <4>3 DEF new
    <3>2. CASE ~(at[s] = "refused" \/ held[s].token >= MaxAttempts)
      <4>1. Mark(s, [Unlocked(s, "pending") EXCEPT !.due = FALSE])
        BY <2>3, <3>2 DEF MarkFailed
      <4> DEFINE row == Unlocked(s, "pending")
                 new == [row EXCEPT !.due = FALSE]
      <4>a. /\ RowOK(row) /\ row.token = 0 /\ row.status = "pending"
            /\ row.attempts = outbox[held[s].event].attempts
        BY <1>1, UnlockedOK DEF NoticeStatuses
      <4> HIDE DEF row
      <4>2. /\ RowOK(new) /\ new.token = 0 /\ new.status = "pending"
            /\ new.attempts = outbox[held[s].event].attempts
        BY <4>a, PostponedOK
      <4> HIDE DEF new
      <4>3. new.status # "sent" /\ new.status # "discarded"
        BY <4>2
      <4> QED
        BY <4>1, <4>2, <4>3 DEF new, row
    <3> QED
      BY <3>1, <3>2
  <2> QED
    BY <2>1, <2>2, <2>3
<1>3. BackToLoop(s) /\ UNCHANGED <<upload, announced, wire, heard, faults>>
  BY <1>2 DEF Mark
<1>4. TableMoves
  <2>1. CASE HoldsToken(s)
    BY <1>1, <1>2, <2>1, EndOK DEF Mark
  <2>2. CASE ~HoldsToken(s)
    BY <1>a, <1>2, <2>2, SameTable DEF Mark, TypeParts
  <2> QED
    BY <2>1, <2>2
<1>5. TypeOK'
  BY <1>a, <1>3, <1>4, DropSender, TypeFromParts DEF TypeParts, TableMoves
<1> QED
  BY <1>3, <1>4, <1>5, DropSender DEF StepOK

\* A failed write that was committed all the same ends the claim too.
LEMMA DatabaseOK ==
    ASSUME TypeOK, HasNotice, NEW s \in Senders, DatabaseFails(s)
    PROVE  StepOK
<1>a. TypeParts
  BY TypeAsParts
<1>1. /\ at[s] \in Working /\ Go(s, "failed") /\ faults' \in Nat
      /\ UNCHANGED <<upload, announced, held, wire, heard>>
  BY <1>a DEF DatabaseFails, Fault, TypeParts, Working
<1>2. at' \in [Senders -> Places] /\ \A t \in Senders : SenderMoves(t)
  BY <1>1, GoSender DEF Working
<1>3. CASE outbox' = outbox
  <2>1. TableMoves
    BY <1>a, <1>3, SameTable DEF TypeParts
  <2>2. TypeOK'
    BY <1>a, <1>1, <1>2, <2>1, TypeFromParts DEF TypeParts, TableMoves
  <2> QED
    BY <1>1, <1>2, <2>1, <2>2 DEF StepOK
<1>4. CASE outbox' # outbox
  <2> DEFINE status == IF at[s] = "sent" THEN "sent" ELSE "discarded"
  <2>1. HoldsToken(s) /\ SetRow(held[s].event, Unlocked(s, status))
    BY <1>4 DEF DatabaseFails
  <2>2. at[s] = "sent" \/ at[s] = "obsolete"
    BY <1>4 DEF DatabaseFails
  <2>3. TableMoves
    BY <1>1, <2>1, <2>2, UnlockedOK, EndOK DEF NoticeStatuses
  <2>4. TypeOK'
    BY <1>a, <1>1, <1>2, <2>3, TypeFromParts DEF TypeParts, TableMoves
  <2> QED
    BY <1>1, <1>2, <2>3, <2>4 DEF StepOK
<1> QED
  BY <1>3, <1>4

\* next_attempt_at and locked_until pass.
LEMMA TimeOK ==
    ASSUME TypeOK, NEW e \in DOMAIN outbox,
           BecomesDue(e) \/ AbandonedLockExpires(e) \/ SenderStalls(e)
    PROVE  StepOK
<1>a. TypeParts
  BY TypeAsParts
<1>1. RowOK(outbox[e])
  BY <1>a DEF TypeParts, RowsOK
<1>2. PICK new :
        /\ SetRow(e, new) /\ RowOK(new) /\ new.status = outbox[e].status
        /\ new.token = outbox[e].token /\ new.attempts = outbox[e].attempts
  <2>1. CASE BecomesDue(e)
    <3> DEFINE new == [outbox[e] EXCEPT !.due = TRUE]
    <3>1. /\ RowOK(new) /\ new.status = outbox[e].status
          /\ new.token = outbox[e].token /\ new.attempts = outbox[e].attempts
      BY <1>1 DEF RowOK, NoticeRows
    <3>2. SetRow(e, new)
      BY <2>1 DEF BecomesDue
    <3> HIDE DEF new
    <3> QED
      BY <3>1, <3>2 DEF SetRow
  <2>2. CASE LockExpires(e)
    <3> DEFINE new == [outbox[e] EXCEPT !.lock = "expired"]
    <3>1. outbox[e].status = "processing"
      BY <2>2 DEF LockExpires
    <3>2. /\ RowOK(new) /\ new.status = outbox[e].status
          /\ new.token = outbox[e].token /\ new.attempts = outbox[e].attempts
      BY <1>1, <3>1 DEF RowOK, NoticeRows
    <3>3. SetRow(e, new)
      BY <2>2 DEF LockExpires
    <3> HIDE DEF new
    <3> QED
      BY <3>2, <3>3 DEF SetRow
  <2> QED
    BY <2>1, <2>2 DEF AbandonedLockExpires, SenderStalls
<1>3. outbox'[e] = new
  BY <1>a, <1>2, SetRowEffect DEF TypeParts
<1>4. IsTick(e)
  BY <1>2, <1>3 DEF BecomesDue, AbandonedLockExpires, SenderStalls, LockExpires, IsTick,
                    IsOpen, Deliverable
<1>5. TableMoves
  BY <1>a, <1>2, <1>4, OneRowMoves DEF TypeParts
<1>6. UNCHANGED <<upload, announced, at, held, wire, heard>> /\ faults' \in Nat
  BY <1>a DEF BecomesDue, AbandonedLockExpires, SenderStalls, LockExpires, Fault,
              senderVars, TypeParts
<1>7. TypeOK'
  BY <1>a, <1>5, <1>6, TypeFromParts DEF TypeParts, TableMoves
<1>8. \A s \in Senders : SenderMoves(s)
  BY <1>6, IdleSender
<1> QED
  BY <1>5, <1>6, <1>7, <1>8 DEF StepOK

\* Every step of the system is one of those.
LEMMA NextOK == TypeOK /\ HasNotice /\ [Next]_vars => StepOK
<1> SUFFICES ASSUME TypeOK, HasNotice, [Next]_vars PROVE StepOK
  OBVIOUS
<1>1. CASE UNCHANGED vars
  <2>1. UNCHANGED <<upload, announced, outbox, at, held, wire, heard, faults>>
    BY <1>1 DEF vars
  <2>2. TypeOK'
    BY <2>1 DEF TypeOK, OutboxTypeOK, StatusTypeOK
  <2>3. TableMoves
    BY <2>1, TypeAsParts, SameTable DEF TypeParts
  <2>4. \A s \in Senders : SenderMoves(s)
    BY <2>1, IdleSender
  <2> QED
    BY <2>1, <2>2, <2>3, <2>4 DEF StepOK
<1>2. ASSUME NEW r \in Requests, RequestStep(r), UNCHANGED senderVars PROVE StepOK
  BY <1>2, RequestStepOK
<1>3. ASSUME NEW s \in Senders, SenderStep(s) PROVE StepOK
  BY <1>3, ClaimOK, ProceedOK, ExtendLeaseOK, DropOK, TimeoutOK, MarkOK DEF SenderStep
<1>4. ASSUME NEW s \in Senders,
             Heartbeat(s) \/ HeartbeatFails(s) \/ DatabaseFails(s) \/ Crash(s)
      PROVE  StepOK
  BY <1>4, ExtendLeaseOK, DropOK, DatabaseOK
<1>5. ASSUME NEW m \in wire, TelegramDelivers(m) \/ TelegramRefuses(m) PROVE StepOK
  BY <1>5, TelegramOK
<1>6. ASSUME NEW e \in DOMAIN outbox,
             BecomesDue(e) \/ AbandonedLockExpires(e) \/ SenderStalls(e)
      PROVE  StepOK
  BY <1>6, TimeOK
<1> QED
  BY <1>1, <1>2, <1>3, <1>4, <1>5, <1>6 DEF Next

-----------------------------------------------------------------------------
(* The inductive invariant *)

\* No two senders have the same claim of one notice.
ClaimsDiffer ==
    \A s, t \in Senders :
        /\ at[s] \in Working /\ at[t] \in Working
        /\ held[s].event = held[t].event /\ held[s].token = held[t].token
        => s = t

\* A sender about to run mark_sent has been answered.
SentIsAnswered == \A s \in Senders : at[s] = "sent" => held[s] \in heard

(***************************************************************************)
(* An undelivered verdict is the present state of its request, and a       *)
(* sender that found one obsolete has lost its claim: the notice is closed.*)
(***************************************************************************)
OpenVerdictIsCurrent ==
    \A e \in DOMAIN outbox : IsVerdict(e) /\ IsOpen(e) => IsCurrent(e)

ObsoleteVerdictIsClosed ==
    \A s \in Senders :
        at[s] = "obsolete" /\ IsVerdict(held[s].event) => ~IsOpen(held[s].event)

IInv ==
    /\ TypeOK /\ HasNotice /\ TokensAreAttempts
    /\ ClaimsDiffer /\ SentIsAnswered /\ SentWasHeard
    /\ OpenVerdictIsCurrent /\ ObsoleteVerdictIsClosed /\ VerdictsAreNotDropped

\* Whoever holds the token of a row holds a notice that is being processed.
LEMMA HolderIsProcessing ==
    ASSUME TypeOK, HasNotice, NEW s \in Senders, at[s] \in Working, HoldsToken(s)
    PROVE  outbox[held[s].event].status = "processing"
<1>1. held[s].event \in DOMAIN outbox /\ held[s].token > 0
  BY DEF HasNotice
<1>2. RowOK(outbox[held[s].event])
  BY <1>1, TypeAsParts DEF TypeParts, RowsOK
<1> QED
  BY <1>1, <1>2 DEF RowOK, HoldsToken

\* Attempts are counted up, and the token is always that of the last claim.
LEMMA TokensStep ==
    IInv /\ [Next]_vars => HasNotice' /\ TokensAreAttempts' /\ ClaimsDiffer'
<1> SUFFICES ASSUME IInv, [Next]_vars
             PROVE  HasNotice' /\ TokensAreAttempts' /\ ClaimsDiffer'
  OBVIOUS
<1>1. StepOK /\ TypeOK /\ HasNotice
  BY NextOK DEF IInv
<1>2. \A e \in DOMAIN outbox : outbox[e].attempts \in Nat /\ outbox[e].token \in Nat
  BY <1>1, TypeAsParts DEF TypeParts, RowsOK, RowOK, NoticeRows
<1>3. \A e \in DOMAIN outbox' : outbox'[e].attempts \in Nat /\ outbox'[e].token \in Nat
  BY <1>1 DEF StepOK, TableMoves, RowsOK, RowOK, NoticeRows
<1>4. \A e \in DOMAIN outbox : e \in DOMAIN outbox' /\ outbox'[e].attempts >= outbox[e].attempts
  BY <1>1, <1>2 DEF StepOK, TableMoves, RowMoves, IsTick, IsClaim, IsEnd
<1>5. TokensAreAttempts'
  <2>1. \A e \in DOMAIN outbox : outbox'[e].token \in {0, outbox'[e].attempts}
    BY <1>1, <1>2 DEF StepOK, TableMoves, RowMoves, IsTick, IsClaim, IsEnd, IInv,
                      TokensAreAttempts
  <2>2. \A e \in DOMAIN outbox' \ DOMAIN outbox : outbox'[e].token \in {0, outbox'[e].attempts}
    BY <1>1 DEF StepOK, TableMoves, NewNotice
  <2> QED
    BY <2>1, <2>2 DEF TokensAreAttempts
<1>6. ASSUME NEW s \in Senders, at'[s] \in Working
      PROVE  \/ /\ at[s] \in Working /\ held'[s] = held[s]
             \/ \E e \in DOMAIN outbox :
                  /\ ClaimNextEvent(s, e)
                  /\ held'[s] = [event |-> e, token |-> outbox[e].attempts + 1]
                  /\ outbox'[e].attempts = outbox[e].attempts + 1
  BY <1>1, <1>6 DEF StepOK, SenderMoves, GoesOn, IsClaim, Working
<1>7. HasNotice'
  <2> SUFFICES ASSUME NEW s \in Senders, at'[s] \in Working
               PROVE  /\ held'[s] \in Calls /\ held'[s].event \in DOMAIN outbox'
                      /\ held'[s].token > 0
                      /\ held'[s].token <= outbox'[held'[s].event].attempts
    BY DEF HasNotice
  <2>1. CASE at[s] \in Working /\ held'[s] = held[s]
    <3>1. /\ held[s] \in Calls /\ held[s].event \in DOMAIN outbox /\ held[s].token > 0
          /\ held[s].token <= outbox[held[s].event].attempts
      BY <1>1, <2>1 DEF HasNotice
    <3>2. held[s].token \in Nat
      BY <3>1 DEF Calls
    <3> QED
      BY <1>2, <1>3, <1>4, <2>1, <3>1, <3>2
  <2>2. ASSUME NEW e \in DOMAIN outbox,
               held'[s] = [event |-> e, token |-> outbox[e].attempts + 1],
               outbox'[e].attempts = outbox[e].attempts + 1
        PROVE  /\ held'[s] \in Calls /\ held'[s].event \in DOMAIN outbox'
               /\ held'[s].token > 0
               /\ held'[s].token <= outbox'[held'[s].event].attempts
    <3>1. e \in Notices
      BY <1>1, TypeAsParts DEF TypeParts, RowsOK
    <3> QED
      BY <1>2, <1>4, <2>2, <3>1 DEF Calls
  <2> QED
    BY <1>6, <2>1, <2>2
<1>8. ClaimsDiffer'
  <2> SUFFICES ASSUME NEW s \in Senders, NEW t \in Senders, s # t,
                      at'[s] \in Working, at'[t] \in Working,
                      held'[s].event = held'[t].event, held'[s].token = held'[t].token
               PROVE  FALSE
    BY DEF ClaimsDiffer
  <2>1. ASSUME NEW u \in Senders, NEW v \in Senders, u # v, NEW e \in DOMAIN outbox,
               at'[v] \in Working,
               ClaimNextEvent(u, e),
               held'[u] = [event |-> e, token |-> outbox[e].attempts + 1],
               held'[v].event = held'[u].event, held'[v].token = held'[u].token
        PROVE  FALSE
    <3>1. at'[v] = at[v] /\ held'[v] = held[v]
      BY <1>1, <2>1 DEF ClaimNextEvent, Go, TypeOK
    <3>2. held[v] \in Calls /\ held[v].event = e /\ held[v].token <= outbox[e].attempts
      BY <1>1, <2>1, <3>1 DEF HasNotice
    <3> QED
      BY <1>2, <2>1, <3>1, <3>2 DEF Calls
  <2>2. at[s] \in Working /\ held'[s] = held[s] /\ at[t] \in Working /\ held'[t] = held[t]
    BY <1>6, <2>1
  <2> QED
    BY <2>2 DEF IInv, ClaimsDiffer
<1> QED
  BY <1>5, <1>7, <1>8

\* A notice is marked sent by a sender whose call Telegram took.
LEMMA SentStep == IInv /\ [Next]_vars => SentIsAnswered' /\ SentWasHeard'
<1> SUFFICES ASSUME IInv, [Next]_vars PROVE SentIsAnswered' /\ SentWasHeard'
  OBVIOUS
<1>1. StepOK
  BY NextOK DEF IInv
<1>2. SentIsAnswered'
  BY <1>1 DEF StepOK, SenderMoves, GoesOn, IInv, SentIsAnswered
<1>3. ASSUME NEW e \in DOMAIN outbox', outbox'[e].status = "sent"
      PROVE  \E m \in heard' : m.event = e
  <2>1. e \in DOMAIN outbox
    BY <1>1, <1>3 DEF StepOK, TableMoves, NewNotice
  <2>2. \/ outbox'[e] = outbox[e]
        \/ \E s \in Senders : IsEnd(e, s)
    BY <1>1, <1>3, <2>1 DEF StepOK, TableMoves, RowMoves, IsTick, IsClaim, IsOpen, Deliverable
  <2>3. CASE outbox'[e] = outbox[e]
    BY <1>1, <1>3, <2>1, <2>3 DEF StepOK, IInv, SentWasHeard, WasHeard
  <2>4. ASSUME NEW s \in Senders, IsEnd(e, s) PROVE \E m \in heard' : m.event = e
    BY <1>1, <1>3, <2>4 DEF IsEnd, StepOK, IInv, SentIsAnswered
  <2> QED
    BY <2>2, <2>3, <2>4
<1> QED
  BY <1>2, <1>3 DEF SentWasHeard, WasHeard

\* Only an open notice is claimed, renewed or ended.
LEMMA ClosedStays ==
    ASSUME IInv, [Next]_vars, NEW e \in DOMAIN outbox, ~IsOpen(e)
    PROVE  e \in DOMAIN outbox' /\ outbox'[e] = outbox[e]
<1>1. StepOK
  BY NextOK DEF IInv
<1>2. \A s \in Senders : ~IsClaim(e, s)
  BY DEF IsClaim, ClaimNextEvent, IsClaimable, IsOpen, Deliverable
<1>3. \A s \in Senders : ~IsEnd(e, s)
  BY HolderIsProcessing DEF IInv, IsEnd, IsOpen, Deliverable
<1> QED
  BY <1>1, <1>2, <1>3 DEF StepOK, TableMoves, RowMoves, IsTick

\* Requests move, and notices are posted, in the requests' own transactions.
LEMMA WhoMovesRequests ==
    ASSUME [Next]_vars
    PROVE  \/ \E r \in Requests : RequestStep(r)
           \/ UNCHANGED <<upload, announced, DOMAIN outbox>>
<1>1. CASE UNCHANGED vars
  BY <1>1 DEF vars
<1>2. ASSUME NEW s \in Senders, SenderStep(s)
      PROVE  UNCHANGED <<upload, announced, DOMAIN outbox>>
  BY <1>2 DEF SenderStep, ClaimNextEvent, Render, Send, Proceed, RefreshLease, ExtendLease,
              LeaseLost, SendTimesOut, MarkSent, MarkDiscarded, MarkFailed, Mark, SetRow
<1>3. ASSUME NEW s \in Senders,
             Heartbeat(s) \/ HeartbeatFails(s) \/ DatabaseFails(s) \/ Crash(s)
      PROVE  UNCHANGED <<upload, announced, DOMAIN outbox>>
  BY <1>3 DEF Heartbeat, ExtendLease, HeartbeatFails, DatabaseFails, Crash, SetRow
<1>4. ASSUME NEW m \in wire, TelegramDelivers(m) \/ TelegramRefuses(m)
      PROVE  UNCHANGED <<upload, announced, DOMAIN outbox>>
  BY <1>4 DEF TelegramDelivers, TelegramRefuses
<1>5. ASSUME NEW e \in DOMAIN outbox,
             BecomesDue(e) \/ AbandonedLockExpires(e) \/ SenderStalls(e)
      PROVE  UNCHANGED <<upload, announced, DOMAIN outbox>>
  BY <1>5 DEF BecomesDue, AbandonedLockExpires, SenderStalls, LockExpires, SetRow
<1> QED
  BY <1>1, <1>2, <1>3, <1>4, <1>5 DEF Next

(***************************************************************************)
(* No transaction moves a request on while a verdict on it is open: the    *)
(* statuses that are announced as verdicts are left by the cleanup only,   *)
(* which looks at the outbox first.                                        *)
(***************************************************************************)
LEMMA VerdictsHoldRequests ==
    ASSUME IInv, NEW r \in Requests, RequestStep(r),
           NEW e \in DOMAIN outbox, IsVerdict(e), IsOpen(e)
    PROVE  upload'[e.req] = upload[e.req]
<1>1. upload[e.req].status \in {"uploaded", "rejected"}
  BY DEF IInv, OpenVerdictIsCurrent, IsCurrent, IsVerdict
<1>2. upload \in [Requests -> [status : UploadStatuses, attempts : Nat]] /\ e.req \in Requests
  BY TypeAsParts DEF IInv, TypeParts, StatusTypeOK, RowsOK, Notices
<1>3. CASE e.req = r
  BY <1>1, <1>3 DEF RequestStep, Enqueue, RejectAndTell, Reject, ClaimAgain, ClaimUpload,
                    RecoverOne, Recover, FinishAndTell, Finish, CleanupRow, Move, Undecided,
                    HasPendingTerminalNotification, IsVerdict, IsOpen
<1>4. CASE e.req # r
  BY <1>2, <1>4 DEF RequestStep, Enqueue, RejectAndTell, Reject, ClaimAgain, ClaimUpload,
                    RecoverOne, Recover, FinishAndTell, Finish, CleanupRow, MarkDeleted, Move
<1> QED
  BY <1>3, <1>4

\* A new verdict is the status its transaction gave the request.
LEMMA NewVerdictIsCurrent ==
    ASSUME IInv, NEW r \in Requests, RequestStep(r),
           NEW e \in DOMAIN outbox' \ DOMAIN outbox, IsVerdict(e)
    PROVE  IsCurrent(e)'
<1>1. upload \in [Requests -> [status : UploadStatuses, attempts : Nat]]
  BY TypeAsParts DEF IInv, TypeParts, StatusTypeOK
<1>2. CASE RejectAndTell(r)
  <2>1. e \in NoticesAbout(r, 0, "rejected")
    BY <1>2 DEF RejectAndTell, Post
  <2>2. e.req = r /\ e.kind = "rejected"
    BY <2>1 DEF NoticesAbout
  <2>3. upload'[r].status = "rejected"
    BY <1>1, <1>2 DEF RejectAndTell, Reject, Move
  <2> QED
    BY <2>2, <2>3 DEF IsCurrent
<1>3. ASSUME NEW outcome \in {"uploaded", "failed"}, FinishAndTell(r, outcome)
      PROVE  IsCurrent(e)'
  <2>1. e \in NoticesAbout(r, upload[r].attempts, outcome)
    BY <1>3 DEF FinishAndTell, Post
  <2>2. e.req = r /\ e.kind = outcome /\ e.attempt = upload[r].attempts
    BY <2>1 DEF NoticesAbout
  <2>3. upload'[r].status = outcome /\ upload'[r].attempts = upload[r].attempts
    BY <1>1, <1>3 DEF FinishAndTell, Finish, Move
  <2> QED
    BY <2>2, <2>3 DEF IsCurrent
<1>4. \/ RejectAndTell(r)
      \/ \E outcome \in {"uploaded", "failed"} : FinishAndTell(r, outcome)
  BY DEF RequestStep, ClaimAgain, RecoverOne, CleanupRow
<1> QED
  BY <1>2, <1>3, <1>4

\* Verdicts stay readable as long as somebody is to read them.
LEMMA VerdictsStep ==
    IInv /\ [Next]_vars =>
        OpenVerdictIsCurrent' /\ ObsoleteVerdictIsClosed' /\ VerdictsAreNotDropped'
<1> SUFFICES ASSUME IInv, [Next]_vars
             PROVE  OpenVerdictIsCurrent' /\ ObsoleteVerdictIsClosed' /\ VerdictsAreNotDropped'
  OBVIOUS
<1>1. StepOK
  BY NextOK DEF IInv
<1>2. OpenVerdictIsCurrent'
  <2> SUFFICES ASSUME NEW e \in DOMAIN outbox', IsVerdict(e), IsOpen(e)'
               PROVE  IsCurrent(e)'
    BY DEF OpenVerdictIsCurrent, IsVerdict
  <2>1. CASE e \in DOMAIN outbox
    <3>1. IsOpen(e)
      BY <2>1, ClosedStays DEF IsOpen
    <3>2. IsCurrent(e)
      BY <2>1, <3>1 DEF IInv, OpenVerdictIsCurrent
    <3>3. upload'[e.req] = upload[e.req]
      BY <2>1, <3>1, WhoMovesRequests, VerdictsHoldRequests
    <3> QED
      BY <3>2, <3>3 DEF IsCurrent
  <2>2. CASE e \notin DOMAIN outbox
    BY <2>2, WhoMovesRequests, NewVerdictIsCurrent
  <2> QED
    BY <2>1, <2>2
<1>3. ObsoleteVerdictIsClosed'
  <2> SUFFICES ASSUME NEW s \in Senders, at'[s] = "obsolete", IsVerdict(held'[s].event)
               PROVE  ~IsOpen(held[s].event)' /\ held'[s] = held[s]
    BY DEF ObsoleteVerdictIsClosed, IsVerdict, IsOpen
  <2>1. GoesOn(s)
    BY <1>1 DEF StepOK, SenderMoves
  <2>2. held'[s] = held[s] /\ held[s].event \in DOMAIN outbox
    BY <2>1 DEF GoesOn, IInv, HasNotice
  <2>3. ~IsOpen(held[s].event)
    BY <2>1, <2>2 DEF GoesOn, IInv, OpenVerdictIsCurrent, ObsoleteVerdictIsClosed
  <2>4. outbox'[held[s].event] = outbox[held[s].event]
    BY <2>2, <2>3, ClosedStays
  <2> QED
    BY <2>2, <2>3, <2>4 DEF IsOpen
<1>4. VerdictsAreNotDropped'
  <2> SUFFICES ASSUME NEW e \in DOMAIN outbox', IsVerdict(e), outbox'[e].status = "discarded"
               PROVE  FALSE
    BY DEF VerdictsAreNotDropped, IsVerdict
  <2>1. e \in DOMAIN outbox
    BY <1>1 DEF StepOK, TableMoves, NewNotice
  <2>2. outbox'[e] # outbox[e]
    BY <2>1 DEF IInv, VerdictsAreNotDropped
  <2>3. PICK s \in Senders : IsEnd(e, s)
    BY <1>1, <2>1, <2>2 DEF StepOK, TableMoves, RowMoves, IsTick, IsClaim, IsOpen, Deliverable
  <2>4. at[s] = "obsolete" /\ held[s].event = e /\ outbox[e].status = "processing"
    BY <2>3, HolderIsProcessing DEF IsEnd, IInv
  <2> QED
    BY <2>4 DEF IInv, ObsoleteVerdictIsClosed, IsOpen, Deliverable
<1> QED
  BY <1>2, <1>3, <1>4

\* Before anything was sent, everything holds.
LEMMA IInvInit == Init => IInv
<1> SUFFICES ASSUME Init PROVE IInv
  OBVIOUS
<1>1. \A e \in DOMAIN outbox : outbox[e].status = "pending" /\ e.kind = "submitted"
  BY DEF Init, OutboxInit, NoticesAbout, NewNotice
<1>2. \A s \in Senders : at[s] = "claim"
  BY DEF Init
<1> QED
  BY <1>1, <1>2, TypeInit
     DEF IInv, ClaimsDiffer, SentIsAnswered, SentWasHeard, OpenVerdictIsCurrent,
         ObsoleteVerdictIsClosed, VerdictsAreNotDropped, IsVerdict, Working

\* The invariant is inductive.
LEMMA IInvStep == IInv /\ [Next]_vars => IInv'
  BY NextOK, TokensStep, SentStep, VerdictsStep DEF IInv, StepOK

-----------------------------------------------------------------------------
(* Theorems *)

\* Every reachable state satisfies the invariant.
THEOREM Invariance == Spec => []IInv
  BY IInvInit, IInvStep, PTL DEF Spec

\* The tables and the senders keep their types, tokens and locks their shape.
THEOREM TypeCorrect == Spec => []TypeOK
<1>1. IInv => TypeOK
  BY DEF IInv
<1> QED
  BY <1>1, Invariance, PTL

(***************************************************************************)
(* At most one sender owns a notice, whatever leases ran out: tokens fence *)
(* senders, not clocks.                                                    *)
(***************************************************************************)
THEOREM SendersAreExclusive == Spec => []SingleSender
<1>1. IInv => SingleSender
  BY DEF IInv, ClaimsDiffer, SingleSender, Owns, HoldsToken
<1> QED
  BY <1>1, Invariance, PTL

\* No notice is marked sent that Telegram has not taken.
THEOREM SentNoticesWereHeard == Spec => []SentWasHeard
<1>1. IInv => SentWasHeard
  BY DEF IInv
<1> QED
  BY <1>1, Invariance, PTL

(***************************************************************************)
(* No verdict is discarded as obsolete: it stays the state of its request  *)
(* until it is sent or given up.                                           *)
(***************************************************************************)
THEOREM VerdictsAreDelivered == Spec => []VerdictsAreNotDropped
<1>1. IInv => VerdictsAreNotDropped
  BY DEF IInv
<1> QED
  BY <1>1, Invariance, PTL

\* No step touches a notice that was sent, discarded or given up.
THEOREM SettledStaysSettled == Spec => SettledIsFinal
<1>1. IInv /\ [Next]_vars =>
        [\A e \in DOMAIN outbox : ~IsOpen(e) => outbox'[e] = outbox[e]]_vars
  BY ClosedStays
<1> QED
  BY <1>1, Invariance, PTL DEF Spec, SettledIsFinal

-----------------------------------------------------------------------------
(* The cleanup waits for the notices *)

(***************************************************************************)
(* What was announced was posted to everybody, the status a verdict names  *)
(* was announced, and the cleanup has waited for the notices.              *)
(***************************************************************************)
ToldOK ==
    /\ \A m \in announced : NoticesAbout(m.req, m.attempt, m.outcome) \subseteq DOMAIN outbox
    /\ \A r \in Requests :
          upload[r].status \in {"uploaded", "rejected"} =>
              \E m \in announced : m.req = r /\ m.outcome = upload[r].status
    /\ DeletedAfterTelling

\* At first nothing is announced.
LEMMA ToldInit == Init => ToldOK
  BY DEF Init, OutboxInit, StatusInit, ToldOK, DeletedAfterTelling

\* A transaction that announces a result, or a move that announces nothing.
LEMMA Announcements ==
    ASSUME IInv, [Next]_vars
    PROVE  \/ /\ UNCHANGED <<announced, DOMAIN outbox>>
              /\ \A r \in Requests :
                    upload'[r].status \in {"uploaded", "rejected"} => upload'[r] = upload[r]
           \/ \E r \in Requests, n \in Nat, outcome \in {"uploaded", "failed", "rejected"} :
                 /\ Announce(r, n, outcome)
                 /\ DOMAIN outbox' = DOMAIN outbox \cup NoticesAbout(r, n, outcome)
                 /\ upload'[r].status = outcome
                 /\ \A s \in Requests \ {r} : upload'[s] = upload[s]
<1>1. upload \in [Requests -> [status : UploadStatuses, attempts : Nat]]
  BY TypeAsParts DEF IInv, TypeParts, StatusTypeOK
<1> DEFINE Quiet == /\ UNCHANGED <<announced, DOMAIN outbox>>
                    /\ \A r \in Requests :
                          upload'[r].status \in {"uploaded", "rejected"} =>
                              upload'[r] = upload[r]
<1>2. ASSUME NEW r \in Requests, RejectAndTell(r)
      PROVE  /\ Announce(r, 0, "rejected")
             /\ DOMAIN outbox' = DOMAIN outbox \cup NoticesAbout(r, 0, "rejected")
             /\ upload'[r].status = "rejected"
             /\ \A s \in Requests \ {r} : upload'[s] = upload[s]
  BY <1>1, <1>2 DEF RejectAndTell, Reject, Move, Post
<1>3. ASSUME NEW r \in Requests, NEW outcome \in {"uploaded", "failed"},
             FinishAndTell(r, outcome)
      PROVE  /\ upload[r].attempts \in Nat
             /\ Announce(r, upload[r].attempts, outcome)
             /\ DOMAIN outbox' = DOMAIN outbox \cup NoticesAbout(r, upload[r].attempts, outcome)
             /\ upload'[r].status = outcome
             /\ \A s \in Requests \ {r} : upload'[s] = upload[s]
  BY <1>1, <1>3 DEF FinishAndTell, Finish, Move, Post
<1>4. ASSUME NEW r \in Requests,
             \/ Enqueue(r) /\ UNCHANGED outbox
             \/ ClaimAgain(r) \/ RecoverOne(r) \/ CleanupRow(r)
      PROVE  Quiet
  BY <1>1, <1>4 DEF Enqueue, ClaimAgain, ClaimUpload, RecoverOne, Recover, CleanupRow,
                    MarkDeleted, Move
<1>5. ASSUME NEW r \in Requests, RequestStep(r)
      PROVE  \/ Quiet
             \/ RejectAndTell(r)
             \/ \E outcome \in {"uploaded", "failed"} : FinishAndTell(r, outcome)
  BY <1>4, <1>5 DEF RequestStep
<1>6. CASE UNCHANGED <<upload, announced, DOMAIN outbox>>
  BY <1>6
<1> HIDE DEF Quiet
<1>7. ASSUME NEW r \in Requests, RequestStep(r)
      PROVE  \/ Quiet
             \/ \E q \in Requests, n \in Nat, outcome \in {"uploaded", "failed", "rejected"} :
                   /\ Announce(q, n, outcome)
                   /\ DOMAIN outbox' = DOMAIN outbox \cup NoticesAbout(q, n, outcome)
                   /\ upload'[q].status = outcome
                   /\ \A s \in Requests \ {q} : upload'[s] = upload[s]
  BY <1>2, <1>3, <1>5, <1>7
<1> QED
  BY <1>6, <1>7, WhoMovesRequests DEF Quiet

\* Only the cleanup makes a request "deleted_temp".
LEMMA DeletedByCleanup ==
    ASSUME IInv, [Next]_vars, NEW r \in Requests,
           upload[r].status # "deleted_temp", upload'[r].status = "deleted_temp"
    PROVE  CleanupRow(r)
<1>1. upload \in [Requests -> [status : UploadStatuses, attempts : Nat]]
  BY TypeAsParts DEF IInv, TypeParts, StatusTypeOK
<1>2. PICK q \in Requests : RequestStep(q)
  BY WhoMovesRequests
<1> QED
  BY <1>1, <1>2 DEF RequestStep, Enqueue, RejectAndTell, Reject, ClaimAgain, ClaimUpload,
                    RecoverOne, Recover, FinishAndTell, Finish, CleanupRow, MarkDeleted, Move

\* Steps keep what was posted, announced and waited for.
LEMMA ToldStep == IInv /\ ToldOK /\ [Next]_vars => ToldOK'
<1> SUFFICES ASSUME IInv, ToldOK, [Next]_vars PROVE ToldOK'
  OBVIOUS
<1>1. announced \subseteq announced' /\ DOMAIN outbox \subseteq DOMAIN outbox'
  BY Announcements DEF Announce
<1>2. ASSUME NEW m \in announced'
      PROVE  NoticesAbout(m.req, m.attempt, m.outcome) \subseteq DOMAIN outbox'
  <2>1. CASE m \in announced
    BY <1>1, <2>1 DEF ToldOK
  <2>2. CASE m \notin announced
    <3>1. PICK r \in Requests, n \in Nat, outcome \in {"uploaded", "failed", "rejected"} :
            /\ Announce(r, n, outcome)
            /\ DOMAIN outbox' = DOMAIN outbox \cup NoticesAbout(r, n, outcome)
      BY <2>2, Announcements
    <3>2. m = [req |-> r, attempt |-> n, outcome |-> outcome]
      BY <2>2, <3>1 DEF Announce
    <3> QED
      BY <3>1, <3>2
  <2> QED
    BY <2>1, <2>2
<1>3. ASSUME NEW r \in Requests, upload'[r].status \in {"uploaded", "rejected"}
      PROVE  \E m \in announced' : m.req = r /\ m.outcome = upload'[r].status
  <2>1. CASE upload'[r] = upload[r]
    BY <1>1, <1>3, <2>1 DEF ToldOK
  <2>2. CASE upload'[r] # upload[r]
    <3>1. PICK n \in Nat, outcome \in {"uploaded", "failed", "rejected"} :
            Announce(r, n, outcome) /\ upload'[r].status = outcome
      BY <1>3, <2>2, Announcements
    <3>2. [req |-> r, attempt |-> n, outcome |-> outcome] \in announced'
      BY <3>1 DEF Announce
    <3> QED
      BY <3>1, <3>2
  <2> QED
    BY <2>1, <2>2
<1>4. ASSUME NEW r \in Requests, upload'[r].status = "deleted_temp"
      PROVE  \E m \in announced' :
                /\ m.req = r /\ m.outcome \in {"uploaded", "rejected"}
                /\ \A e \in NoticesAbout(r, m.attempt, m.outcome) :
                     e \in DOMAIN outbox' /\ outbox'[e].status \in {"sent", "dead"}
  <2>1. \E m \in announced :
           /\ m.req = r /\ m.outcome \in {"uploaded", "rejected"}
           /\ \A e \in NoticesAbout(r, m.attempt, m.outcome) :
                e \in DOMAIN outbox /\ outbox[e].status \in {"sent", "dead"}
    <3>1. CASE upload[r].status = "deleted_temp"
      BY <3>1 DEF ToldOK, DeletedAfterTelling
    <3>2. CASE upload[r].status # "deleted_temp"
      <4>1. CleanupRow(r) /\ upload[r].status \in {"uploaded", "rejected"}
        BY <1>4, <3>2, DeletedByCleanup DEF CleanupRow, MarkDeleted, Move, Cleanable
      <4>2. PICK m \in announced : m.req = r /\ m.outcome = upload[r].status
        BY <4>1 DEF ToldOK
      <4>3. ASSUME NEW e \in NoticesAbout(r, m.attempt, m.outcome)
            PROVE  e \in DOMAIN outbox /\ outbox[e].status \in {"sent", "dead"}
        <5>1. e \in DOMAIN outbox /\ e.req = r /\ e.kind = m.outcome
          BY <4>2, <4>3 DEF ToldOK, NoticesAbout
        <5>2. outbox[e].status \notin Deliverable /\ outbox[e].status # "discarded"
          BY <4>1, <4>2, <5>1 DEF CleanupRow, HasPendingTerminalNotification, IInv,
                                  VerdictsAreNotDropped, IsVerdict
        <5>3. outbox[e].status \in NoticeStatuses
          BY <5>1, TypeAsParts DEF IInv, TypeParts, RowsOK, RowOK, NoticeRows
        <5> QED
          BY <5>1, <5>2, <5>3 DEF Deliverable, NoticeStatuses
      <4> QED
        BY <4>1, <4>2, <4>3
    <3> QED
      BY <3>1, <3>2
  <2>2. PICK m \in announced :
           /\ m.req = r /\ m.outcome \in {"uploaded", "rejected"}
           /\ \A e \in NoticesAbout(r, m.attempt, m.outcome) :
                e \in DOMAIN outbox /\ outbox[e].status \in {"sent", "dead"}
    BY <2>1
  <2>3. \A e \in NoticesAbout(r, m.attempt, m.outcome) :
           e \in DOMAIN outbox' /\ outbox'[e] = outbox[e]
    BY <2>2, ClosedStays DEF IsOpen, Deliverable
  <2> QED
    BY <1>1, <2>2, <2>3
<1> QED
  BY <1>2, <1>3, <1>4 DEF ToldOK, DeletedAfterTelling, NoticesAbout, Audience

(***************************************************************************)
(* A request is marked deleted only when everybody who is to learn its     *)
(* verdict was told or given up on.                                        *)
(***************************************************************************)
THEOREM CleanupWaitsForNotices == Spec => []DeletedAfterTelling
<1>1. ToldOK => DeletedAfterTelling
  BY DEF ToldOK
<1> QED
  BY <1>1, ToldInit, ToldStep, Invariance, PTL DEF Spec

-----------------------------------------------------------------------------
(* How many messages a notice can have *)

\* Messages that were delivered, may still be, or are about to be sent.
Launched == wire \cup heard \cup {held[s] : s \in {t \in Senders : at[t] = "send"}}
Messages(e) == {m \in Launched : m.event = e}

Launching == {"send", "sending", "sent"}

\* The owner of e has its message launched, in time.
Covers(s, e) ==
    /\ at[s] \in Launching /\ held[s].event = e /\ held[s].token = outbox[e].token
    /\ outbox[e].status = "processing" /\ outbox[e].lock = "live"

\* One more message about e can come without a fault.
Spare(e) == IsOpen(e) /\ \A s \in Senders : ~Covers(s, e)

(***************************************************************************)
(* A message is launched once, under a token that was given out.           *)
(***************************************************************************)
CallsOK ==
    /\ \A m \in wire \cup heard : m.event \in DOMAIN outbox
    /\ \A m \in wire \cup heard : m.token <= outbox[m.event].attempts
    /\ wire \cap heard = {}
    /\ \A s \in Senders :
          at[s] \in {"render", "obsolete", "refresh", "send"} => held[s] \notin wire \cup heard

\* Every message but the first, and the one that is spare, has its fault.
CountOK(e) ==
    /\ IsFiniteSet(Messages(e))
    /\ Cardinality(Messages(e)) <= 1 + faults
    /\ Spare(e) => Cardinality(Messages(e)) <= faults
    /\ outbox[e].status = "dead" /\ faults = 0 => Messages(e) = {}

CountsOK == CallsOK /\ \A e \in DOMAIN outbox : CountOK(e)

(***************************************************************************)
(* What a step may do to the count of a notice: spend a fault, launch what *)
(* was spare, or lose what it makes spare.                                 *)
(***************************************************************************)
CountMoves(e) ==
    /\ \/ Messages(e)' \subseteq Messages(e) /\ faults' = faults /\ (Spare(e)' => Spare(e))
       \/ Messages(e)' \subseteq Messages(e) /\ faults' = faults + 1
       \/ /\ Spare(e) /\ ~Spare(e)' /\ faults' = faults
          /\ \E x : Messages(e)' \subseteq Messages(e) \cup {x}
       \/ faults' = faults /\ \E x \in Messages(e) : Messages(e)' \subseteq Messages(e) \ {x}
    /\ outbox'[e].status = "dead" =>
          \/ outbox[e].status = "dead" /\ ~Spare(e)
          \/ Spare(e) /\ Messages(e)' \subseteq Messages(e)

\* The count of a notice survives those moves.
LEMMA CountFollows ==
    ASSUME TypeOK, NEW e \in DOMAIN outbox, CountOK(e), CountMoves(e)
    PROVE  CountOK(e)'
<1> DEFINE M == Messages(e)
           N == Messages(e)'
<1>1. IsFiniteSet(M) /\ Cardinality(M) \in Nat /\ faults \in Nat
  BY FS_CardinalityType DEF CountOK, TypeOK
<1>2. Cardinality(M) <= 1 + faults /\ (Spare(e) => Cardinality(M) <= faults)
  BY DEF CountOK
<1> DEFINE Counted == /\ IsFiniteSet(N) /\ Cardinality(N) <= 1 + faults'
                      /\ Spare(e)' => Cardinality(N) <= faults'
<1> HIDE DEF M, N
<1>3. ASSUME N \subseteq M
      PROVE  IsFiniteSet(N) /\ Cardinality(N) \in Nat /\ Cardinality(N) <= Cardinality(M)
  BY <1>1, <1>3, FS_Subset, FS_CardinalityType
<1>4. ASSUME N \subseteq M, faults' = faults, Spare(e)' => Spare(e) PROVE Counted
  BY <1>1, <1>2, <1>3, <1>4
<1>5. ASSUME N \subseteq M, faults' = faults + 1 PROVE Counted
  BY <1>1, <1>2, <1>3, <1>5
<1>6. ASSUME Spare(e), ~Spare(e)', faults' = faults, NEW x, N \subseteq M \cup {x}
      PROVE  Counted
  <2>1. IsFiniteSet(M \cup {x}) /\ Cardinality(M \cup {x}) <= Cardinality(M) + 1
        /\ Cardinality(M \cup {x}) \in Nat
    BY <1>1, FS_AddElement, FS_CardinalityType
  <2>2. IsFiniteSet(N) /\ Cardinality(N) \in Nat /\ Cardinality(N) <= Cardinality(M \cup {x})
    BY <1>6, <2>1, FS_Subset, FS_CardinalityType
  <2> QED
    BY <1>1, <1>2, <1>6, <2>1, <2>2
<1>7. ASSUME faults' = faults, NEW x \in M, N \subseteq M \ {x} PROVE Counted
  <2>1. IsFiniteSet(M \ {x}) /\ Cardinality(M \ {x}) = Cardinality(M) - 1
    BY <1>1, FS_RemoveElement
  <2>2. IsFiniteSet(N) /\ Cardinality(N) \in Nat /\ Cardinality(N) <= Cardinality(M \ {x})
    BY <1>7, <2>1, FS_Subset, FS_CardinalityType
  <2> QED
    BY <1>1, <1>2, <1>7, <2>1, <2>2
<1>8. Counted
  BY <1>4, <1>5, <1>6, <1>7 DEF CountMoves, M, N
<1>9. ASSUME outbox'[e].status = "dead", faults' = 0 PROVE N = {}
  <2>1. faults = 0
    BY <1>1, <1>9 DEF CountMoves
  <2>2. CASE outbox[e].status = "dead" /\ ~Spare(e)
    <3>1. M = {}
      BY <2>1, <2>2 DEF CountOK, M
    <3> QED
      BY <1>1, <1>9, <2>1, <2>2, <3>1 DEF CountMoves, M, N
  <2>3. CASE Spare(e) /\ N \subseteq M
    <3>1. Cardinality(M) = 0
      BY <1>1, <1>2, <2>1, <2>3
    <3>2. M = {}
      BY <1>1, <3>1, FS_EmptySet
    <3> QED
      BY <2>3, <3>2
  <2> QED
    BY <1>9, <2>2, <2>3 DEF CountMoves, M, N
<1> QED
  BY <1>8, <1>9 DEF CountOK, N

-----------------------------------------------------------------------------
(* How the calls move *)

\* Before the call of sendMessage.
Early == {"render", "obsolete", "refresh", "send"}

\* Calls go onto the wire when sent, and from there to Telegram or nowhere.
LEMMA CallMoves ==
    ASSUME [Next]_vars
    PROVE  \/ wire' \subseteq wire /\ heard' \subseteq heard \cup (wire \ wire')
           \/ \E s \in Senders : Send(s)
<1> DEFINE Arrives == wire' \subseteq wire /\ heard' \subseteq heard \cup (wire \ wire')
<1>1. CASE UNCHANGED vars
  BY <1>1 DEF vars
<1>2. ASSUME NEW r \in Requests, UNCHANGED senderVars PROVE Arrives
  BY <1>2 DEF senderVars
<1>3. ASSUME NEW s \in Senders, SenderStep(s), ~Send(s), ~SendTimesOut(s) PROVE Arrives
  BY <1>3 DEF SenderStep, ClaimNextEvent, Render, Proceed, RefreshLease, LeaseLost, MarkSent,
              MarkDiscarded, MarkFailed, Mark
<1>4. ASSUME NEW s \in Senders, SendTimesOut(s) PROVE Arrives
  BY <1>4 DEF SendTimesOut
<1>5. ASSUME NEW s \in Senders,
             Heartbeat(s) \/ HeartbeatFails(s) \/ DatabaseFails(s) \/ Crash(s)
      PROVE  Arrives
  BY <1>5 DEF Heartbeat, HeartbeatFails, DatabaseFails, Crash
<1>6. ASSUME NEW m \in wire, TelegramDelivers(m) \/ TelegramRefuses(m) PROVE Arrives
  BY <1>6 DEF TelegramDelivers, TelegramRefuses
<1>7. ASSUME NEW e \in DOMAIN outbox,
             BecomesDue(e) \/ AbandonedLockExpires(e) \/ SenderStalls(e)
      PROVE  Arrives
  BY <1>7 DEF BecomesDue, AbandonedLockExpires, SenderStalls, LockExpires, senderVars
<1> QED
  BY <1>1, <1>2, <1>3, <1>4, <1>5, <1>6, <1>7 DEF Next

\* A sender is early because it was, and did not send, or because it claims.
LEMMA EarlyMoves ==
    ASSUME TypeOK, [Next]_vars, NEW s \in Senders, at'[s] \in Early
    PROVE  \/ at[s] \in Early /\ held'[s] = held[s] /\ ~Send(s)
           \/ \E e \in DOMAIN outbox : ClaimNextEvent(s, e)
<1> DEFINE Waits == at[s] \in Early /\ held'[s] = held[s] /\ ~Send(s)
<1>a. at \in [Senders -> Places] /\ held \in [Senders -> Calls \cup {None}]
  BY DEF TypeOK
<1>b. ~Send(s)
  BY <1>a DEF Send, Proceed, Go, Early
<1>1. CASE UNCHANGED <<at, held>>
  BY <1>1, <1>b
<1>2. ASSUME NEW t \in Senders, BackToLoop(t) PROVE Waits
  BY <1>a, <1>b, <1>2 DEF BackToLoop, Go, Early
<1>3. ASSUME NEW t \in Senders, NEW p, Go(t, p), held' = held, p \in Early => at[t] \in Early
      PROVE  Waits
  BY <1>a, <1>b, <1>3 DEF Go
<1>4. ASSUME NEW t \in Senders, Render(t) \/ RefreshLease(t) \/ Send(t) PROVE Waits
  BY <1>3, <1>4 DEF Render, RefreshLease, Send, Proceed, Early
<1>5. ASSUME NEW t \in Senders, SendTimesOut(t) \/ DatabaseFails(t) PROVE Waits
  BY <1>3, <1>5 DEF SendTimesOut, DatabaseFails, Early
<1>6. ASSUME NEW t \in Senders, NEW e \in DOMAIN outbox, ClaimNextEvent(t, e), t # s
      PROVE  Waits
  BY <1>a, <1>b, <1>6 DEF ClaimNextEvent, Go
<1>7. ASSUME NEW t \in Senders,
             \/ LeaseLost(t) \/ MarkSent(t) \/ MarkDiscarded(t) \/ MarkFailed(t)
             \/ HeartbeatFails(t) \/ Crash(t)
      PROVE  Waits
  BY <1>2, <1>7 DEF LeaseLost, MarkSent, MarkDiscarded, MarkFailed, Mark, HeartbeatFails, Crash
<1>8. ASSUME NEW m \in wire, TelegramDelivers(m) \/ TelegramRefuses(m) PROVE Waits
  BY <1>a, <1>b, <1>8 DEF TelegramDelivers, TelegramRefuses, Answer, Early
<1>9. ASSUME NEW t \in Senders, Heartbeat(t) PROVE UNCHANGED <<at, held>>
  BY <1>9 DEF Heartbeat
<1>10. ASSUME NEW e \in DOMAIN outbox,
              BecomesDue(e) \/ AbandonedLockExpires(e) \/ SenderStalls(e)
       PROVE  UNCHANGED <<at, held>>
  BY <1>10 DEF BecomesDue, AbandonedLockExpires, SenderStalls, LockExpires, senderVars
<1> QED
  BY <1>1, <1>4, <1>5, <1>6, <1>7, <1>8, <1>9, <1>10 DEF Next, SenderStep, senderVars, vars

\* At first there are no calls.
LEMMA CallsInit == Init => CallsOK
  BY DEF Init, CallsOK

\* A claim hands out a token under which no message was launched.
LEMMA CallsStep == IInv /\ CallsOK /\ [Next]_vars => CallsOK'
<1> SUFFICES ASSUME IInv, CallsOK, [Next]_vars PROVE CallsOK'
  OBVIOUS
<1>1. StepOK /\ TypeOK /\ HasNotice /\ ClaimsDiffer
  BY NextOK DEF IInv
<1>2. \A e \in DOMAIN outbox :
         /\ outbox[e].attempts \in Nat
         /\ e \in DOMAIN outbox' /\ outbox'[e].attempts \in Nat
         /\ outbox'[e].attempts >= outbox[e].attempts
  <2>1. \A e \in DOMAIN outbox : outbox[e].attempts \in Nat
    BY <1>1, TypeAsParts DEF TypeParts, RowsOK, RowOK, NoticeRows
  <2>2. \A e \in DOMAIN outbox' : outbox'[e].attempts \in Nat
    BY <1>1 DEF StepOK, TableMoves, RowsOK, RowOK, NoticeRows
  <2> QED
    BY <1>1, <2>1, <2>2 DEF StepOK, TableMoves, RowMoves, IsTick, IsClaim, IsEnd
<1>3. ASSUME NEW s \in Senders, Send(s)
      PROVE  /\ wire' = wire \cup {held[s]} /\ heard' = heard
             /\ held[s] \notin wire \cup heard /\ at[s] = "send"
             /\ held[s] \in Calls /\ held[s].event \in DOMAIN outbox
             /\ held[s].token <= outbox[held[s].event].attempts
  BY <1>1, <1>3 DEF Send, Proceed, CallsOK, HasNotice, Working
<1>4. ASSUME NEW m \in wire' \cup heard'
      PROVE  m.event \in DOMAIN outbox' /\ m.token <= outbox'[m.event].attempts
  <2>1. m \in Calls /\ m.event \in DOMAIN outbox /\ m.token <= outbox[m.event].attempts
    <3>1. CASE m \in wire \cup heard
      BY <1>1, <3>1 DEF CallsOK, TypeOK
    <3>2. CASE m \notin wire \cup heard
      BY <1>3, <1>4, <3>2, CallMoves
    <3> QED
      BY <3>1, <3>2
  <2>2. m.token \in Nat
    BY <2>1 DEF Calls
  <2> QED
    BY <1>2, <2>1, <2>2
<1>5. wire' \cap heard' = {}
  BY <1>3, CallMoves DEF CallsOK
<1>6. ASSUME NEW s \in Senders, at'[s] \in Early PROVE held'[s] \notin wire' \cup heard'
  <2>1. CASE at[s] \in Early /\ held'[s] = held[s] /\ ~Send(s)
    <3>1. held[s] \notin wire \cup heard
      BY <2>1 DEF CallsOK, Early
    <3>2. ASSUME NEW t \in Senders, Send(t) PROVE held[t] # held[s]
      BY <1>1, <1>3, <2>1, <3>2 DEF ClaimsDiffer, Working, Early
    <3> QED
      BY <1>3, <2>1, <3>1, <3>2, CallMoves
  <2>2. ASSUME NEW e \in DOMAIN outbox, ClaimNextEvent(s, e)
        PROVE  held'[s] \notin wire' \cup heard'
    <3>1. /\ held'[s].event = e /\ held'[s].token = outbox[e].attempts + 1
          /\ UNCHANGED <<wire, heard>>
      BY <1>1, <2>2 DEF ClaimNextEvent, TypeOK
    <3>2. \A m \in wire \cup heard : m.event = e => m.token # outbox[e].attempts + 1
      BY <1>2 DEF CallsOK
    <3> QED
      BY <3>1, <3>2
  <2> QED
    BY <1>1, <1>6, <2>1, <2>2, EarlyMoves
<1> QED
  BY <1>4, <1>5, <1>6 DEF CallsOK, Early

-----------------------------------------------------------------------------
\* A sender is about to send because it was, or because it renewed the lease.
LEMMA SendMoves ==
    ASSUME TypeOK, [Next]_vars, NEW s \in Senders, at'[s] = "send"
    PROVE  \/ at[s] = "send" /\ held'[s] = held[s]
           \/ RefreshLease(s)
<1> DEFINE Waits == at[s] = "send" /\ held'[s] = held[s]
<1>a. at \in [Senders -> Places] /\ held \in [Senders -> Calls \cup {None}]
  BY DEF TypeOK
<1>1. CASE UNCHANGED <<at, held>>
  BY <1>1
<1>2. ASSUME NEW t \in Senders, BackToLoop(t) PROVE Waits
  BY <1>a, <1>2 DEF BackToLoop, Go
<1>3. ASSUME NEW t \in Senders, NEW p, Go(t, p), held' = held, p # "send"
      PROVE  Waits
  BY <1>a, <1>3 DEF Go
<1>4. ASSUME NEW t \in Senders,
             Render(t) \/ Send(t) \/ SendTimesOut(t) \/ DatabaseFails(t)
      PROVE  Waits
  BY <1>3, <1>4 DEF Render, Send, Proceed, SendTimesOut, DatabaseFails
<1>5. ASSUME NEW t \in Senders, RefreshLease(t) PROVE Waits \/ RefreshLease(s)
  BY <1>a, <1>5 DEF RefreshLease, Go
<1>6. ASSUME NEW t \in Senders, NEW e \in DOMAIN outbox, ClaimNextEvent(t, e) PROVE Waits
  BY <1>a, <1>6 DEF ClaimNextEvent, Go
<1>7. ASSUME NEW t \in Senders,
             \/ LeaseLost(t) \/ MarkSent(t) \/ MarkDiscarded(t) \/ MarkFailed(t)
             \/ HeartbeatFails(t) \/ Crash(t)
      PROVE  Waits
  BY <1>2, <1>7 DEF LeaseLost, MarkSent, MarkDiscarded, MarkFailed, Mark, HeartbeatFails, Crash
<1>8. ASSUME NEW m \in wire, TelegramDelivers(m) \/ TelegramRefuses(m) PROVE Waits
  BY <1>a, <1>8 DEF TelegramDelivers, TelegramRefuses, Answer
<1>9. ASSUME NEW t \in Senders, Heartbeat(t) PROVE UNCHANGED <<at, held>>
  BY <1>9 DEF Heartbeat
<1>10. ASSUME NEW e \in DOMAIN outbox,
              BecomesDue(e) \/ AbandonedLockExpires(e) \/ SenderStalls(e)
       PROVE  UNCHANGED <<at, held>>
  BY <1>10 DEF BecomesDue, AbandonedLockExpires, SenderStalls, LockExpires, senderVars
<1> HIDE DEF Waits
<1>11. Waits \/ RefreshLease(s) \/ UNCHANGED <<at, held>>
  BY <1>4, <1>5, <1>6, <1>7, <1>8, <1>9, <1>10 DEF Next, SenderStep, senderVars, vars
<1> QED
  BY <1>1, <1>11 DEF Waits

\* Messages come with the renewal before the send, and with nothing else.
LEMMA MessagesShrink ==
    ASSUME TypeOK, [Next]_vars, NEW e,
           \A s \in Senders : RefreshLease(s) => held[s].event # e
    PROVE  Messages(e)' \subseteq Messages(e)
<1> SUFFICES ASSUME NEW m \in Launched', m.event = e PROVE m \in Launched
  BY DEF Messages
<1>1. CASE m \in wire' \cup heard'
  <2>1. CASE m \in wire \cup heard
    BY <2>1 DEF Launched
  <2>2. CASE m \notin wire \cup heard
    <3>1. PICK s \in Senders : Send(s)
      BY <1>1, <2>2, CallMoves
    <3>2. at[s] = "send" /\ m = held[s]
      BY <1>1, <2>2, <3>1 DEF Send, Proceed
    <3> QED
      BY <3>2 DEF Launched
  <2> QED
    BY <2>1, <2>2
<1>2. CASE m \notin wire' \cup heard'
  <2>1. PICK s \in Senders : at'[s] = "send" /\ m = held'[s]
    BY <1>2 DEF Launched
  <2>2. RefreshLease(s) => held'[s] = held[s]
    BY DEF RefreshLease
  <2>3. at[s] = "send" /\ held'[s] = held[s]
    BY <2>1, <2>2, SendMoves
  <2> QED
    BY <2>1, <2>3 DEF Launched
<1> QED
  BY <1>1, <1>2

-----------------------------------------------------------------------------
(***************************************************************************)
(* Nobody stops covering e unless that ends it, and e is not given up      *)
(* while somebody covers it.                                               *)
(***************************************************************************)
SpareMoves(e) ==
    /\ Spare(e)' => Spare(e)
    /\ outbox'[e].status = "dead" => outbox[e].status = "dead" \/ Spare(e)

\* Whoever covers a row that stays as it is goes on covering it.
LEMMA SpareKept ==
    ASSUME NEW e, outbox'[e] = outbox[e],
           \A s \in Senders : Covers(s, e) => at'[s] \in Launching /\ held'[s] = held[s]
    PROVE  SpareMoves(e)
  BY DEF SpareMoves, Spare, IsOpen, Covers

\* The count when a step launches nothing.
LEMMA CountFromSpare ==
    ASSUME NEW e, SpareMoves(e), Messages(e)' \subseteq Messages(e), faults' = faults
    PROVE  CountMoves(e)
  BY DEF SpareMoves, CountMoves, Spare, IsOpen, Deliverable

\* The count when a step costs a fault.
LEMMA CountFromFault ==
    ASSUME NEW e, Messages(e)' \subseteq Messages(e), faults' = faults + 1,
           outbox'[e].status = "dead" => outbox[e].status = "dead"
    PROVE  CountMoves(e)
  BY DEF CountMoves, Spare, IsOpen, Deliverable

\* claim_next_event takes up a row that nobody covers.
LEMMA ClaimSpare ==
    ASSUME TypeOK, NEW s \in Senders, NEW d \in DOMAIN outbox, ClaimNextEvent(s, d),
           NEW e \in DOMAIN outbox
    PROVE  SpareMoves(e)
<1>1. CASE e = d
  <2>1. Spare(e)
    BY <1>1 DEF ClaimNextEvent, IsClaimable, Spare, IsOpen, Deliverable, Covers
  <2> QED
    BY <2>1 DEF SpareMoves
<1>2. CASE e # d
  BY <1>2, SpareKept DEF ClaimNextEvent, SetRow, Go, Covers, Launching, TypeOK
<1> QED
  BY <1>1, <1>2

\* What a sender does that leaves the table alone.
LEMMA ProceedSpare ==
    ASSUME TypeOK, NEW s \in Senders, Render(s) \/ Send(s) \/ LeaseLost(s),
           NEW e \in DOMAIN outbox
    PROVE  SpareMoves(e)
<1>1. \A t \in Senders \ {s} : at'[t] = at[t] /\ held'[t] = held[t]
  BY DEF Render, Send, LeaseLost, Proceed, BackToLoop, Go, TypeOK
<1>2. Covers(s, e) => at'[s] \in Launching /\ held'[s] = held[s]
  BY DEF Render, Send, LeaseLost, Proceed, Go, TypeOK, Covers, Launching, Owns, HoldsToken
<1>3. outbox' = outbox
  BY DEF Render, Send, LeaseLost, Proceed
<1>4. \A t \in Senders : Covers(t, e) => at'[t] \in Launching /\ held'[t] = held[t]
  BY <1>1, <1>2 DEF Covers
<1> QED
  BY <1>3, <1>4, SpareKept

\* The heartbeat of the sender that covers the row.
LEMMA HeartbeatSpare ==
    ASSUME TypeOK, HasNotice, NEW s \in Senders, Heartbeat(s), NEW e \in DOMAIN outbox
    PROVE  SpareMoves(e)
<1>1. CASE e = held[s].event
  <2>1. /\ outbox'[e].status = outbox[e].status /\ outbox'[e].token = outbox[e].token
        /\ outbox'[e].lock = "live" /\ UNCHANGED <<at, held>>
    <3>1. outbox[e] \in NoticeRows
      BY TypeAsParts DEF TypeParts, RowsOK, RowOK
    <3> QED
      BY <1>1, <3>1 DEF Heartbeat, ExtendLease, SetRow, NoticeRows
  <2> QED
    BY <2>1 DEF SpareMoves, Spare, IsOpen, Covers
<1>2. CASE e # held[s].event
  BY <1>2, SpareKept DEF Heartbeat, ExtendLease, SetRow, Covers
<1> QED
  BY <1>1, <1>2

\* The update of a claim that ends, by the sender that covers the row or by
\* one that has failed.
LEMMA MarkSpare ==
    ASSUME TypeOK, HasNotice, ClaimsDiffer, NEW s \in Senders,
           MarkSent(s) \/ MarkDiscarded(s) \/ MarkFailed(s), NEW e \in DOMAIN outbox
    PROVE  SpareMoves(e)
<1>1. /\ BackToLoop(s) /\ at[s] \in Working
      /\ \A d \in DOMAIN outbox : d # held[s].event \/ ~HoldsToken(s) => outbox'[d] = outbox[d]
  BY DEF MarkSent, MarkDiscarded, MarkFailed, Mark, SetRow, Working
<1>2. \A t \in Senders \ {s} : at'[t] = at[t] /\ held'[t] = held[t]
  BY <1>1 DEF BackToLoop, Go, TypeOK
<1>3. CASE e # held[s].event \/ ~HoldsToken(s)
  <2>1. ~Covers(s, e)
    BY <1>3 DEF Covers, HoldsToken
  <2>2. \A t \in Senders : Covers(t, e) => at'[t] \in Launching /\ held'[t] = held[t]
    BY <1>2, <2>1 DEF Covers
  <2> QED
    BY <1>1, <1>3, <2>2, SpareKept
<1>4. CASE e = held[s].event /\ HoldsToken(s)
  <2>1. CASE MarkSent(s) \/ MarkDiscarded(s)
    <3>1. outbox'[e].status \in {"sent", "discarded"}
      <4>1. \E status \in {"sent", "discarded"} : outbox'[e] = Unlocked(s, status)
        BY <1>4, <2>1 DEF MarkSent, MarkDiscarded, Mark, SetRow
      <4> QED
        BY <1>1, <4>1, UnlockedOK DEF NoticeStatuses
    <3> QED
      BY <3>1 DEF SpareMoves, Spare, IsOpen, Deliverable
  <2>2. CASE MarkFailed(s)
    <3>1. outbox[e].status = "processing"
      BY <1>1, <1>4, HolderIsProcessing
    <3>2. \A t \in Senders : ~Covers(t, e)
      BY <1>1, <1>4, <2>2 DEF Covers, Launching, MarkFailed, HoldsToken, ClaimsDiffer, Working
    <3> QED
      BY <3>1, <3>2 DEF SpareMoves, Spare, IsOpen, Deliverable
  <2> QED
    BY <2>1, <2>2
<1> QED
  BY <1>3, <1>4

\* Telegram's answer to others, and its acceptance.
LEMMA AnswerSpare ==
    ASSUME TypeOK, NEW m \in wire, NEW e \in DOMAIN outbox,
           TelegramDelivers(m) \/ (TelegramRefuses(m) /\ m.event # e)
    PROVE  SpareMoves(e)
<1>1. outbox' = outbox /\ held' = held
  BY DEF TelegramDelivers, TelegramRefuses
<1>2. ASSUME NEW s \in Senders, Covers(s, e) PROVE at'[s] \in Launching
  BY <1>2 DEF TelegramDelivers, TelegramRefuses, Answer, Covers, Launching
<1> QED
  BY <1>1, <1>2, SpareKept

\* Time passes for rows that nobody covers.
LEMMA TimeSpare ==
    ASSUME TypeOK, NEW d \in DOMAIN outbox, BecomesDue(d) \/ AbandonedLockExpires(d),
           NEW e \in DOMAIN outbox
    PROVE  SpareMoves(e)
<1>1. UNCHANGED <<at, held>>
  BY DEF BecomesDue, AbandonedLockExpires, LockExpires, senderVars
<1>2. CASE e # d
  BY <1>1, <1>2, SpareKept DEF BecomesDue, AbandonedLockExpires, LockExpires, SetRow, Covers
<1>3. CASE e = d
  <2>1. CASE BecomesDue(d)
    BY <1>3, <2>1 DEF BecomesDue, SpareMoves, Spare, IsOpen, Deliverable, Covers
  <2>2. CASE AbandonedLockExpires(d)
    BY <1>3, <2>2 DEF AbandonedLockExpires, LockExpires, IsHeld, Owns, HoldsToken, SpareMoves,
                      Spare, IsOpen, Deliverable, Covers, Launching, Working
  <2> QED
    BY <2>1, <2>2
<1> QED
  BY <1>2, <1>3

-----------------------------------------------------------------------------
\* Steps that cost a fault launch nothing and give nothing up.
LEMMA FaultCounts ==
    ASSUME TypeOK, [Next]_vars, NEW e \in DOMAIN outbox,
           \/ \E s \in Senders :
                SendTimesOut(s) \/ HeartbeatFails(s) \/ DatabaseFails(s) \/ Crash(s)
           \/ \E d \in DOMAIN outbox : SenderStalls(d)
    PROVE  CountMoves(e)
<1>1. faults' = faults + 1
  BY DEF SendTimesOut, HeartbeatFails, DatabaseFails, Crash, SenderStalls, Fault
<1>2. outbox[e] \in NoticeRows
  BY TypeAsParts DEF TypeParts, RowsOK, RowOK
<1>3. outbox'[e].status = "dead" => outbox[e].status = "dead"
  <2>1. ASSUME NEW s \in Senders,
               SendTimesOut(s) \/ HeartbeatFails(s) \/ DatabaseFails(s) \/ Crash(s)
        PROVE  outbox'[e].status = "dead" => outbox[e].status = "dead"
    BY <1>2, <2>1 DEF SendTimesOut, HeartbeatFails, DatabaseFails, Crash, SetRow, Unlocked,
                      NoticeRows
  <2>2. ASSUME NEW d \in DOMAIN outbox, SenderStalls(d)
        PROVE  outbox'[e].status = "dead" => outbox[e].status = "dead"
    BY <1>2, <2>2 DEF SenderStalls, LockExpires, SetRow, NoticeRows
  <2> QED
    BY <2>1, <2>2
<1>4. \A s \in Senders : ~RefreshLease(s)
  BY <1>1 DEF RefreshLease, TypeOK
<1> QED
  BY <1>1, <1>3, <1>4, MessagesShrink, CountFromFault

\* The renewal before the send launches what was spare.
LEMMA RefreshCounts ==
    ASSUME TypeOK, HasNotice, ClaimsDiffer, [Next]_vars, NEW s \in Senders, RefreshLease(s),
           NEW e \in DOMAIN outbox
    PROVE  CountMoves(e)
<1>a. outbox[e] \in NoticeRows
  BY TypeAsParts DEF TypeParts, RowsOK, RowOK
<1>1. /\ UNCHANGED <<held, wire, heard, faults>> /\ at[s] = "refresh" /\ at'[s] = "send"
      /\ \A t \in Senders \ {s} : at'[t] = at[t]
  BY DEF RefreshLease, Go, TypeOK
<1>2. CASE e # held[s].event
  <2>1. Messages(e)' \subseteq Messages(e)
    BY <1>1, <1>2 DEF Messages, Launched
  <2>2. SpareMoves(e)
    BY <1>1, <1>2, SpareKept DEF RefreshLease, ExtendLease, SetRow, Covers
  <2> QED
    BY <1>1, <2>1, <2>2, CountFromSpare
<1>3. CASE e = held[s].event
  <2>1. /\ outbox[e].status = "processing" /\ outbox[e].token = held[s].token
        /\ outbox'[e].status = "processing" /\ outbox'[e].token = held[s].token
        /\ outbox'[e].lock = "live"
    BY <1>a, <1>3 DEF RefreshLease, ExtendLease, SetRow, Owns, HoldsToken, NoticeRows
  <2>2. Spare(e)
    BY <1>1, <1>3, <2>1 DEF Spare, IsOpen, Deliverable, Covers, Launching, ClaimsDiffer, Working
  <2>3. Covers(s, e)'
    BY <1>1, <1>3, <2>1 DEF Covers, Launching
  <2>4. Messages(e)' \subseteq Messages(e) \cup {held[s]}
    BY <1>1 DEF Messages, Launched
  <2> QED
    BY <1>1, <2>1, <2>2, <2>3, <2>4 DEF CountMoves, Spare
<1> QED
  BY <1>2, <1>3

\* A refused call makes room for another.
LEMMA RefusalCounts ==
    ASSUME TypeOK, CallsOK, [Next]_vars, NEW m \in wire, TelegramRefuses(m),
           m.event \in DOMAIN outbox
    PROVE  CountMoves(m.event)
<1>1. /\ UNCHANGED <<outbox, held, heard, faults>> /\ wire' = wire \ {m}
      /\ \A s \in Senders : at'[s] = "send" => at[s] = "send"
  BY DEF TelegramRefuses, Answer
<1>2. m \notin heard /\ \A s \in Senders : at[s] = "send" => held[s] # m
  BY DEF CallsOK
<1>3. Messages(m.event)' \subseteq Messages(m.event) \ {m}
  BY <1>1, <1>2 DEF Messages, Launched
<1>4. m \in Messages(m.event)
  BY DEF Messages, Launched
<1> QED
  BY <1>1, <1>3, <1>4 DEF CountMoves, Spare, IsOpen, Deliverable

\* Every step moves the count of a notice in one of those ways.
LEMMA EveryStepCounts ==
    ASSUME IInv, CallsOK, [Next]_vars, NEW e \in DOMAIN outbox
    PROVE  CountMoves(e)
<1>1. TypeOK /\ HasNotice /\ ClaimsDiffer
  BY DEF IInv
<1>2. ASSUME SpareMoves(e), faults' = faults, \A s \in Senders : ~RefreshLease(s)
      PROVE  CountMoves(e)
  BY <1>1, <1>2, MessagesShrink, CountFromSpare
<1>3. ASSUME outbox'[e] = outbox[e], UNCHANGED senderVars PROVE CountMoves(e)
  <2>1. SpareMoves(e)
    BY <1>3, SpareKept DEF senderVars, Covers
  <2>2. Messages(e)' \subseteq Messages(e)
    BY <1>3 DEF senderVars, Messages, Launched
  <2> QED
    BY <1>3, <2>1, <2>2, CountFromSpare DEF senderVars
<1>4. CASE UNCHANGED vars
  BY <1>3, <1>4 DEF vars, senderVars
<1>5. ASSUME NEW r \in Requests, RequestStep(r), UNCHANGED senderVars PROVE CountMoves(e)
  <2>1. outbox'[e] = outbox[e]
    BY <1>5 DEF RequestStep, RejectAndTell, ClaimAgain, RecoverOne, FinishAndTell, CleanupRow,
                Post
  <2> QED
    BY <1>3, <1>5, <2>1
<1>6. ASSUME NEW s \in Senders, RefreshLease(s) PROVE CountMoves(e)
  BY <1>1, <1>6, RefreshCounts
<1>7. ASSUME NEW s \in Senders,
             SendTimesOut(s) \/ HeartbeatFails(s) \/ DatabaseFails(s) \/ Crash(s)
      PROVE  CountMoves(e)
  BY <1>1, <1>7, FaultCounts
<1>8. ASSUME NEW s \in Senders, SenderStep(s) \/ Heartbeat(s), ~RefreshLease(s), ~SendTimesOut(s)
      PROVE  SpareMoves(e) /\ faults' = faults
  <2>1. SpareMoves(e)
    BY <1>1, <1>8, ClaimSpare, ProceedSpare, HeartbeatSpare, MarkSpare DEF SenderStep
  <2>2. faults' = faults
    BY <1>8 DEF SenderStep, ClaimNextEvent, Render, Send, Proceed, LeaseLost, MarkSent,
                MarkDiscarded, MarkFailed, Mark, Heartbeat
  <2> QED
    BY <2>1, <2>2
<1>9. ASSUME NEW m \in wire, TelegramDelivers(m) \/ TelegramRefuses(m)
      PROVE  CountMoves(e) \/ (SpareMoves(e) /\ faults' = faults)
  BY <1>1, <1>9, AnswerSpare, RefusalCounts DEF TelegramDelivers, TelegramRefuses
<1>10. ASSUME NEW d \in DOMAIN outbox,
              BecomesDue(d) \/ AbandonedLockExpires(d) \/ SenderStalls(d)
       PROVE  CountMoves(e) \/ (SpareMoves(e) /\ faults' = faults)
  BY <1>1, <1>10, TimeSpare, FaultCounts
     DEF BecomesDue, AbandonedLockExpires, senderVars
<1>11. CASE \A s \in Senders : ~RefreshLease(s)
  BY <1>2, <1>4, <1>5, <1>7, <1>8, <1>9, <1>10, <1>11 DEF Next, SenderStep
<1> QED
  BY <1>6, <1>11

\* A notice that was just posted has no message.
LEMMA NewNoticeCounts ==
    ASSUME IInv, CallsOK, [Next]_vars, NEW e \in DOMAIN outbox' \ DOMAIN outbox
    PROVE  CountOK(e)'
<1>1. StepOK /\ TypeOK /\ HasNotice
  BY NextOK DEF IInv
<1>2. outbox'[e] = NewNotice /\ \E r \in Requests : RequestStep(r)
  BY <1>1 DEF StepOK, TableMoves
<1>3. \A m \in Launched : m.event \in DOMAIN outbox
  BY <1>1 DEF Launched, CallsOK, HasNotice, Working
<1>4. \A s \in Senders : ~RefreshLease(s)
  BY DEF RefreshLease, ExtendLease, SetRow
<1>5. Messages(e)' = {}
  BY <1>1, <1>3, <1>4, MessagesShrink DEF Messages
<1>6. IsFiniteSet({}) /\ Cardinality({}) = 0
  BY FS_EmptySet
<1>7. faults' \in Nat
  BY <1>1 DEF StepOK, TypeOK
<1> QED
  BY <1>2, <1>5, <1>6, <1>7 DEF CountOK, NewNotice

\* At first there are no messages.
LEMMA CountsInit == Init => CountsOK
<1> SUFFICES ASSUME Init PROVE CountsOK
  OBVIOUS
<1>1. \A e : Messages(e) = {}
  BY DEF Init, Messages, Launched
<1>2. IsFiniteSet({}) /\ Cardinality({}) = 0
  BY FS_EmptySet
<1> QED
  BY <1>1, <1>2, CallsInit DEF CountsOK, CountOK, Init

\* The counts are kept by every step.
LEMMA CountsStep == IInv /\ CountsOK /\ [Next]_vars => CountsOK'
<1> SUFFICES ASSUME IInv, CountsOK, [Next]_vars PROVE CountsOK'
  OBVIOUS
<1>1. CallsOK'
  BY CallsStep DEF CountsOK
<1>2. ASSUME NEW e \in DOMAIN outbox' PROVE CountOK(e)'
  BY EveryStepCounts, CountFollows, NewNoticeCounts DEF CountsOK, IInv
<1> QED
  BY <1>1, <1>2 DEF CountsOK

(***************************************************************************)
(* A notice has at most one message more than there were faults, and one   *)
(* that was given up without a fault has none.                             *)
(***************************************************************************)
THEOREM DuplicatesHaveCauses == Spec => []DuplicatesNeedFaults
<1>1. CountsOK /\ TypeOK => DuplicatesNeedFaults
  <2> SUFFICES ASSUME CountsOK, TypeOK, NEW e \in DOMAIN outbox
               PROVE  /\ Cardinality({m \in heard : m.event = e}) <= 1 + faults
                      /\ outbox[e].status = "dead" /\ WasHeard(e) => faults > 0
    BY DEF DuplicatesNeedFaults
  <2> DEFINE H == {m \in heard : m.event = e}
  <2>1. CountOK(e) /\ H \subseteq Messages(e) /\ faults \in Nat
    BY DEF CountsOK, Messages, Launched, TypeOK
  <2>2. /\ Cardinality(H) <= Cardinality(Messages(e)) /\ Cardinality(H) \in Nat
        /\ Cardinality(Messages(e)) \in Nat
    BY <2>1, FS_Subset, FS_CardinalityType DEF CountOK
  <2>3. Cardinality(H) <= 1 + faults
    BY <2>1, <2>2 DEF CountOK
  <2>4. WasHeard(e) => Messages(e) # {}
    BY <2>1 DEF WasHeard
  <2> QED
    BY <2>1, <2>3, <2>4 DEF CountOK
<1>2. IInv => TypeOK
  BY DEF IInv
<1> QED
  BY <1>1, <1>2, CountsInit, CountsStep, Invariance, PTL DEF Spec

-----------------------------------------------------------------------------
(* The steps of the outbox are steps of NoticeDelivery *)

\* What the instance can post is all that is posted.
KnownOK ==
    /\ DOMAIN outbox \subseteq PossibleNotices
    /\ \A r \in Requests :
         /\ upload[r].attempts <= MaxUploads
         /\ upload[r].status = "uploading" => upload[r].attempts > 0

\* At first only cards are posted.
LEMMA KnownInit == Init => KnownOK
<1> SUFFICES ASSUME Init PROVE KnownOK
  OBVIOUS
<1>1. DOMAIN outbox = UNION {NoticesAbout(r, 0, "submitted") : r \in Requests}
  BY DEF Init, OutboxInit
<1>2. DOMAIN outbox \subseteq PossibleNotices
  BY <1>1 DEF PossibleNotices
<1>3. \A r \in Requests : upload[r].attempts = 0 /\ upload[r].status = "pending_approval"
  BY DEF Init, OutboxInit, StatusInit
<1> QED
  BY <1>2, <1>3, MaxUploadsAssumption DEF KnownOK

\* A transaction posts about the attempt that was counted.
LEMMA KnownStep == TypeOK /\ KnownOK /\ [Next]_vars => KnownOK'
<1> SUFFICES ASSUME TypeOK, KnownOK, [Next]_vars PROVE KnownOK'
  OBVIOUS
<1>1. upload \in [Requests -> [status : UploadStatuses, attempts : Nat]]
  BY TypeAsParts DEF TypeParts, StatusTypeOK
<1>2. ASSUME NEW r \in Requests, RejectAndTell(r)
      PROVE  DOMAIN outbox' = DOMAIN outbox \cup NoticesAbout(r, 0, "rejected")
  BY <1>2 DEF RejectAndTell, Post
<1>3. ASSUME NEW r \in Requests, NEW outcome \in {"uploaded", "failed"},
             FinishAndTell(r, outcome)
      PROVE  /\ DOMAIN outbox' = DOMAIN outbox \cup NoticesAbout(r, upload[r].attempts, outcome)
             /\ upload[r].attempts \in 1 .. MaxUploads
  BY <1>1, <1>3, MaxUploadsAssumption DEF FinishAndTell, Finish, Move, Post, KnownOK
<1>4. ASSUME NEW r \in Requests,
             (Enqueue(r) /\ UNCHANGED outbox) \/ ClaimAgain(r) \/ RecoverOne(r) \/ CleanupRow(r)
      PROVE  outbox' = outbox
  BY <1>4 DEF ClaimAgain, RecoverOne, CleanupRow
<1>5. DOMAIN outbox' \subseteq PossibleNotices
  <2>1. ASSUME NEW r \in Requests, NEW n \in Nat, NEW kind,
               \/ n = 0 /\ kind = "rejected"
               \/ n \in 1 .. MaxUploads /\ kind \in {"uploaded", "failed"}
        PROVE  NoticesAbout(r, n, kind) \subseteq PossibleNotices
    BY <2>1 DEF PossibleNotices
  <2>2. ASSUME NEW r \in Requests, RejectAndTell(r) PROVE DOMAIN outbox' \subseteq PossibleNotices
    BY <1>2, <2>1, <2>2 DEF KnownOK
  <2>3. ASSUME NEW r \in Requests, NEW outcome \in {"uploaded", "failed"},
               FinishAndTell(r, outcome)
        PROVE  DOMAIN outbox' \subseteq PossibleNotices
    <3>1. upload[r].attempts \in 1 .. MaxUploads /\ upload[r].attempts \in Nat
      BY <1>1, <1>3, <2>3
    <3> QED
      BY <1>3, <2>1, <2>3, <3>1 DEF KnownOK
  <2>4. CASE DOMAIN outbox' = DOMAIN outbox
    BY <2>4 DEF KnownOK
  <2> QED
    BY <1>4, <2>2, <2>3, <2>4, WhoMovesRequests DEF RequestStep
<1>6. ASSUME NEW r \in Requests, RequestStep(r), NEW q \in Requests
      PROVE  /\ upload'[q].attempts <= MaxUploads
             /\ upload'[q].status = "uploading" => upload'[q].attempts > 0
  BY <1>1, <1>6, MaxUploadsAssumption
     DEF RequestStep, Enqueue, RejectAndTell, Reject, ClaimAgain, ClaimUpload, RecoverOne,
         Recover, FinishAndTell, Finish, CleanupRow, MarkDeleted, Move, KnownOK, Undecided,
         Cleanable
<1> QED
  BY <1>5, <1>6, WhoMovesRequests DEF KnownOK

DeliverySteps == [Delivery!Next]_(Delivery!vars)

Settled == {e \in DOMAIN outbox : ~IsOpen(e)}

\* What NoticeDelivery calls closed is settled here.
LEMMA ClosedIsSettled == TypeOK => Delivery!Closed = Settled
<1> SUFFICES ASSUME TypeOK PROVE Delivery!Closed = Settled
  OBVIOUS
<1>1. Delivery!Closed = WithStatus("sent") \cup WithStatus("discarded") \cup WithStatus("dead")
  BY DEF Delivery!Closed, Delivery!Outcomes
<1>2. \A e \in DOMAIN outbox : outbox[e].status \in NoticeStatuses
  BY TypeAsParts DEF TypeParts, RowsOK, RowOK, NoticeRows
<1> QED
  BY <1>1, <1>2 DEF Settled, WithStatus, IsOpen, Deliverable, NoticeStatuses

\* Rows that stay open, and rows that stay as they are, are not seen there.
LEMMA QuietRows ==
    ASSUME DOMAIN outbox' = DOMAIN outbox,
           \A e \in DOMAIN outbox : outbox'[e] = outbox[e] \/ (IsOpen(e) /\ IsOpen(e)')
    PROVE  /\ {e \in DOMAIN outbox : IsOpen(e)}' = {e \in DOMAIN outbox : IsOpen(e)}
           /\ \A status \in {"sent", "discarded", "dead"} :
                WithStatus(status)' = WithStatus(status)
  BY DEF IsOpen, Deliverable, WithStatus

\* Such a step changes nothing there when nothing is heard.
LEMMA QuietMaps ==
    ASSUME DOMAIN outbox' = DOMAIN outbox, heard' = heard,
           \A e \in DOMAIN outbox : outbox'[e] = outbox[e] \/ (IsOpen(e) /\ IsOpen(e)')
    PROVE  DeliverySteps
  BY QuietRows DEF DeliverySteps, Delivery!vars

\* A row that is settled is closed there.
LEMMA CloseMaps ==
    ASSUME NEW e \in DOMAIN outbox, e \in PossibleNotices, IsOpen(e),
           DOMAIN outbox' = DOMAIN outbox, heard' = heard,
           \A d \in DOMAIN outbox \ {e} : outbox'[d] = outbox[d],
           outbox'[e].status \in {"sent", "discarded", "dead"},
           outbox'[e].status = "sent" => WasHeard(e),
           outbox'[e].status = "discarded" => ~IsVerdict(e)
    PROVE  DeliverySteps
<1> DEFINE Open == {d \in DOMAIN outbox : IsOpen(d)}
<1>1. Open' = Open \ {e} /\ e \in Open
  BY DEF IsOpen, Deliverable
<1>2. \A status \in {"sent", "discarded", "dead"} :
        WithStatus(status)' = IF outbox'[e].status = status THEN WithStatus(status) \cup {e}
                              ELSE WithStatus(status)
  BY DEF IsOpen, Deliverable, WithStatus
<1>3. WasHeard(e) <=> e \in {m.event : m \in heard}
  BY DEF WasHeard
<1>4. e \in {d \in PossibleNotices : IsVerdict(d)} <=> IsVerdict(e)
  OBVIOUS
<1> HIDE DEF Open
<1>5. PICK outcome \in Delivery!Outcomes :
        /\ outcome = "delivered" <=> outbox'[e].status = "sent"
        /\ outcome = "withdrawn" <=> outbox'[e].status = "discarded"
        /\ outcome = "given_up" <=> outbox'[e].status = "dead"
  BY DEF Delivery!Outcomes
<1> DEFINE cl == [delivered |-> WithStatus("sent"), withdrawn |-> WithStatus("discarded"),
                  given_up |-> WithStatus("dead")]
<1>6. cl' = [cl EXCEPT ![outcome] = @ \cup {e}]
  BY <1>2, <1>5 DEF Delivery!Outcomes
<1>7. Delivery!Close(e, outcome)
  BY <1>1, <1>3, <1>4, <1>5, <1>6 DEF Delivery!Close, Open
<1> QED
  BY <1>5, <1>7 DEF DeliverySteps, Delivery!Next, Delivery!CloseSomehow

\* The update of one row, by the sender that may.
LEMMA RowMaps ==
    ASSUME IInv, TypeOK', KnownOK, NEW e \in DOMAIN outbox, NEW new, SetRow(e, new), IsOpen(e),
           heard' = heard,
           new.status = "sent" => WasHeard(e), new.status = "discarded" => ~IsVerdict(e)
    PROVE  DeliverySteps
<1>1. /\ DOMAIN outbox' = DOMAIN outbox /\ outbox'[e] = new
      /\ \A d \in DOMAIN outbox \ {e} : outbox'[d] = outbox[d]
  BY DEF SetRow
<1>2. CASE IsOpen(e)'
  BY <1>1, <1>2, QuietMaps
<1>3. CASE ~IsOpen(e)'
  <2>1. outbox'[e].status \in NoticeStatuses
    BY <1>1 DEF TypeOK, OutboxTypeOK, NoticeRows
  <2>2. outbox'[e].status \in {"sent", "discarded", "dead"}
    BY <1>3, <2>1 DEF IsOpen, Deliverable, NoticeStatuses
  <2>3. e \in PossibleNotices
    BY DEF KnownOK
  <2> QED
    BY <1>1, <2>2, <2>3, CloseMaps
<1> QED
  BY <1>2, <1>3

\* A delivery is heard.
LEMMA HearMaps ==
    ASSUME TypeOK, KnownOK, CallsOK, NEW m \in wire, outbox' = outbox, heard' = heard \cup {m}
    PROVE  DeliverySteps
<1>1. m.event \in DOMAIN outbox /\ m.event \in PossibleNotices
  BY DEF CallsOK, KnownOK
<1>2. {x.event : x \in heard}' = {x.event : x \in heard} \cup {m.event}
  OBVIOUS
<1>3. m.event \in {d \in DOMAIN outbox : IsOpen(d)} \cup Delivery!Closed
  BY <1>1, ClosedIsSettled DEF Settled
<1>4. Delivery!Hear(m.event)
  BY <1>2, <1>3, QuietRows DEF Delivery!Hear
<1> QED
  BY <1>1, <1>4 DEF DeliverySteps, Delivery!Next

\* A transaction posts.
LEMMA PostMaps ==
    ASSUME TypeOK, KnownOK', NEW r \in Requests, RequestStep(r), UNCHANGED senderVars
    PROVE  DeliverySteps
<1>1. StepOK
  BY RequestStepOK
<1>2. /\ DOMAIN outbox \subseteq DOMAIN outbox'
      /\ \A e \in DOMAIN outbox : outbox'[e] = outbox[e]
  BY DEF RequestStep, RejectAndTell, ClaimAgain, RecoverOne, FinishAndTell, CleanupRow, Post
<1>3. \A e \in DOMAIN outbox' \ DOMAIN outbox : outbox'[e].status = "pending"
  BY <1>1 DEF StepOK, TableMoves, NewNotice
<1>4. \A status \in {"sent", "discarded", "dead"} : WithStatus(status)' = WithStatus(status)
  BY <1>2, <1>3 DEF WithStatus
<1>5. {e \in DOMAIN outbox : IsOpen(e)} \subseteq {e \in DOMAIN outbox : IsOpen(e)}'
  BY <1>2 DEF IsOpen
<1>6. {e \in DOMAIN outbox : IsOpen(e)}' \subseteq PossibleNotices \ Delivery!Closed
  BY <1>2, <1>3, ClosedIsSettled DEF KnownOK, IsOpen, Settled
<1>7. heard' = heard
  BY DEF senderVars
<1>8. Delivery!Post
  BY <1>4, <1>5, <1>6, <1>7 DEF Delivery!Post
<1> QED
  BY <1>8 DEF DeliverySteps, Delivery!Next

\* The ends of a claim.
LEMMA EndMaps ==
    ASSUME IInv, TypeOK', KnownOK, NEW s \in Senders,
           MarkSent(s) \/ MarkDiscarded(s) \/ MarkFailed(s) \/ DatabaseFails(s)
    PROVE  DeliverySteps
<1>1. at[s] \in Working /\ heard' = heard
  BY DEF MarkSent, MarkDiscarded, MarkFailed, DatabaseFails, Mark, Working
<1>2. CASE outbox' = outbox
  BY <1>1, <1>2, QuietMaps
<1>3. CASE outbox' # outbox
  <2>1. HoldsToken(s)
    BY <1>3 DEF MarkSent, MarkDiscarded, MarkFailed, DatabaseFails, Mark
  <2>2. PICK e \in DOMAIN outbox : e = held[s].event
    BY <1>1 DEF IInv, HasNotice
  <2>3. IsOpen(e)
    BY <1>1, <2>1, <2>2, HolderIsProcessing DEF IInv, IsOpen, Deliverable
  <2>4. at[s] = "sent" => WasHeard(e)
    BY <2>2 DEF IInv, SentIsAnswered, WasHeard
  <2>5. at[s] = "obsolete" => ~IsVerdict(e)
    BY <2>2, <2>3 DEF IInv, ObsoleteVerdictIsClosed
  <2>6. \A status \in NoticeStatuses \ {"processing"} : Unlocked(s, status).status = status
    BY <1>1, UnlockedOK DEF IInv
  <2>7. ASSUME NEW status \in {"sent", "discarded", "dead"}, SetRow(e, Unlocked(s, status)),
               status = "sent" => at[s] = "sent", status = "discarded" => at[s] = "obsolete"
        PROVE  DeliverySteps
    BY <1>1, <2>3, <2>4, <2>5, <2>6, <2>7, RowMaps DEF NoticeStatuses
  <2>8. CASE SetRow(e, [Unlocked(s, "pending") EXCEPT !.due = FALSE])
    <3> DEFINE new == [Unlocked(s, "pending") EXCEPT !.due = FALSE]
    <3>1. new.status = "pending"
      BY <1>1, UnlockedOK, PostponedOK DEF IInv, NoticeStatuses
    <3> HIDE DEF new
    <3>2. SetRow(e, new)
      BY <2>8 DEF new
    <3> QED
      BY <1>1, <2>3, <3>1, <3>2, RowMaps
  <2>9. \/ SetRow(e, [Unlocked(s, "pending") EXCEPT !.due = FALSE])
        \/ \E status \in {"sent", "discarded", "dead"} :
             /\ SetRow(e, Unlocked(s, status))
             /\ status = "sent" => at[s] = "sent"
             /\ status = "discarded" => at[s] = "obsolete"
    BY <1>3, <2>1, <2>2 DEF MarkSent, MarkDiscarded, MarkFailed, DatabaseFails, Mark
  <2> QED
    BY <2>7, <2>8, <2>9
<1> QED
  BY <1>2, <1>3

\* The updates of an open row that leave it open.
LEMMA OpenMaps ==
    ASSUME IInv, TypeOK', KnownOK, NEW e \in DOMAIN outbox,
           \/ \E s \in Senders :
                \/ ClaimNextEvent(s, e)
                \/ e = held[s].event /\ (RefreshLease(s) \/ Heartbeat(s))
           \/ BecomesDue(e) \/ AbandonedLockExpires(e) \/ SenderStalls(e)
    PROVE  DeliverySteps
<1>1. heard' = heard
  BY DEF ClaimNextEvent, RefreshLease, Heartbeat, BecomesDue, AbandonedLockExpires,
         SenderStalls, LockExpires, senderVars
<1>2. outbox[e] \in NoticeRows
  BY TypeAsParts DEF IInv, TypeParts, RowsOK, RowOK
<1>3. IsOpen(e)
  BY DEF ClaimNextEvent, IsClaimable, RefreshLease, Heartbeat, Owns, BecomesDue,
         AbandonedLockExpires, SenderStalls, LockExpires, IsOpen, Deliverable
<1>4. DOMAIN outbox' = DOMAIN outbox /\ \A d \in DOMAIN outbox \ {e} : outbox'[d] = outbox[d]
  BY DEF ClaimNextEvent, RefreshLease, Heartbeat, ExtendLease, BecomesDue,
         AbandonedLockExpires, SenderStalls, LockExpires, SetRow
<1>5. outbox'[e].status \in Deliverable
  <2>1. ASSUME NEW s \in Senders, ClaimNextEvent(s, e) PROVE outbox'[e].status = "processing"
    BY <1>2, <2>1 DEF ClaimNextEvent, SetRow, NoticeRows
  <2>2. ASSUME NEW s \in Senders, e = held[s].event, ExtendLease(s)
        PROVE  outbox'[e].status = outbox[e].status
    BY <1>2, <2>2 DEF ExtendLease, SetRow, NoticeRows
  <2>3. ASSUME BecomesDue(e) \/ LockExpires(e) PROVE outbox'[e].status = outbox[e].status
    BY <1>2, <2>3 DEF BecomesDue, LockExpires, SetRow, NoticeRows
  <2> QED
    BY <1>3, <2>1, <2>2, <2>3 DEF RefreshLease, Heartbeat, AbandonedLockExpires, SenderStalls,
                                  IsOpen, Deliverable
<1> QED
  BY <1>1, <1>3, <1>4, <1>5, QuietMaps DEF IsOpen

\* Every step is a step of NoticeDelivery or is not seen there.
LEMMA DeliveryStepMaps ==
    ASSUME IInv, CallsOK, KnownOK, [Next]_vars
    PROVE  DeliverySteps
<1>1. TypeOK /\ TypeOK' /\ KnownOK' /\ HasNotice
  BY NextOK, KnownStep DEF StepOK, IInv
<1>2. ASSUME outbox' = outbox, heard' = heard PROVE DeliverySteps
  BY <1>2, QuietMaps
<1>3. ASSUME NEW s \in Senders,
             MarkSent(s) \/ MarkDiscarded(s) \/ MarkFailed(s) \/ DatabaseFails(s)
      PROVE  DeliverySteps
  BY <1>1, <1>3, EndMaps
<1>4. ASSUME NEW s \in Senders, RefreshLease(s) \/ Heartbeat(s) PROVE DeliverySteps
  <2>1. held[s].event \in DOMAIN outbox
    BY <1>1, <1>4 DEF HasNotice, RefreshLease, Heartbeat, Working
  <2> QED
    BY <1>1, <1>4, <2>1, OpenMaps
<1>5. ASSUME NEW e \in DOMAIN outbox,
             \/ \E s \in Senders : ClaimNextEvent(s, e)
             \/ BecomesDue(e) \/ AbandonedLockExpires(e) \/ SenderStalls(e)
      PROVE  DeliverySteps
  BY <1>1, <1>5, OpenMaps
<1>6. ASSUME NEW s \in Senders,
             Render(s) \/ Send(s) \/ LeaseLost(s) \/ HeartbeatFails(s) \/ Crash(s)
      PROVE  outbox' = outbox /\ heard' = heard
  BY <1>6 DEF Render, Send, Proceed, LeaseLost, HeartbeatFails, Crash
<1>7. ASSUME NEW s \in Senders, SendTimesOut(s) PROVE DeliverySteps
  <2>1. outbox' = outbox /\ (heard' = heard \/ \E m \in wire : heard' = heard \cup {m})
    BY <1>7 DEF SendTimesOut
  <2> QED
    BY <1>1, <1>2, <2>1, HearMaps
<1>8. ASSUME NEW m \in wire, TelegramDelivers(m) \/ TelegramRefuses(m) PROVE DeliverySteps
  <2>1. outbox' = outbox /\ (heard' = heard \/ heard' = heard \cup {m})
    BY <1>8 DEF TelegramDelivers, TelegramRefuses
  <2> QED
    BY <1>1, <1>2, <2>1, HearMaps
<1>9. ASSUME NEW r \in Requests, RequestStep(r), UNCHANGED senderVars PROVE DeliverySteps
  BY <1>1, <1>9, PostMaps
<1>10. CASE UNCHANGED vars
  BY <1>2, <1>10 DEF vars
<1> QED
  BY <1>2, <1>3, <1>4, <1>5, <1>6, <1>7, <1>8, <1>9, <1>10 DEF Next, SenderStep

\* What is posted at first is open.
LEMMA DeliveryInitMaps == Init => Delivery!Init
<1> SUFFICES ASSUME Init PROVE Delivery!Init
  OBVIOUS
<1>1. \A e \in DOMAIN outbox : outbox[e].status = "pending"
  BY DEF Init, OutboxInit, NewNotice
<1>2. \A status \in {"sent", "discarded", "dead"} : WithStatus(status) = {}
  BY <1>1 DEF WithStatus
<1>3. {e \in DOMAIN outbox : IsOpen(e)} \subseteq PossibleNotices
  BY KnownInit DEF KnownOK
<1>4. {m.event : m \in heard} = {}
  BY DEF Init
<1> DEFINE cl == [delivered |-> WithStatus("sent"), withdrawn |-> WithStatus("discarded"),
                  given_up |-> WithStatus("dead")]
<1>5. cl = [o \in Delivery!Outcomes |-> {}]
  BY <1>2 DEF Delivery!Outcomes
<1> QED
  BY <1>3, <1>4, <1>5 DEF Delivery!Init

(***************************************************************************)
(* Table, senders and Telegram implement what NoticeDelivery promises of   *)
(* safety: notices are closed once and for good, as delivered only when    *)
(* heard, and no verdict is withdrawn.                                     *)
(***************************************************************************)
THEOREM ImplementsNoticeDelivery == Spec => Delivery!Spec
<1>1. CountsOK => CallsOK
  BY DEF CountsOK
<1>2. IInv /\ CountsOK /\ KnownOK /\ [Next]_vars => [Delivery!Next]_(Delivery!vars)
  BY <1>1, DeliveryStepMaps DEF DeliverySteps
<1>3. IInv => TypeOK
  BY DEF IInv
<1> QED
  BY <1>2, <1>3, DeliveryInitMaps, KnownInit, KnownStep, CountsInit, CountsStep, Invariance, PTL
     DEF Spec, Delivery!Spec

-----------------------------------------------------------------------------
(* What holds of the limit on attempts *)

\* The row is in the hands of its sender, and in time.
Attended(e) == outbox[e].lock = "live" /\ IsHeld(e)

(***************************************************************************)
(* Only a row that nobody attends to can be claimed once more, and it lost *)
(* its sender by a fault; a row is pending only below the limit.           *)
(***************************************************************************)
LimitOK(e) ==
    /\ outbox[e].attempts <= MaxAttempts + faults
    /\ outbox[e].status = "pending" => outbox[e].attempts < MaxAttempts
    /\ outbox[e].status = "processing" /\ ~Attended(e) =>
          outbox[e].attempts < MaxAttempts + faults

\* What a step may do to the attempts of a notice.
Postponed(e) ==
    outbox'[e].status = "pending" =>
        outbox[e].status = "pending" \/ outbox[e].attempts < MaxAttempts

LimitMoves(e) ==
    \/ /\ faults' = faults + 1 /\ outbox'[e].attempts = outbox[e].attempts
       /\ Postponed(e)
    \/ /\ faults' = faults /\ outbox'[e].attempts = outbox[e].attempts
       /\ Postponed(e)
       /\ outbox'[e].status = "processing" =>
             outbox[e].status = "processing" /\ (Attended(e) => Attended(e)')
    \/ /\ faults' = faults /\ outbox'[e].attempts = outbox[e].attempts + 1
       /\ IsClaimable(e) /\ outbox'[e].status = "processing" /\ Attended(e)'

\* The limit survives those moves.
LEMMA LimitFollows ==
    ASSUME TypeOK, NEW e \in DOMAIN outbox, LimitOK(e), LimitMoves(e)
    PROVE  LimitOK(e)'
<1>1. /\ outbox[e].attempts \in Nat /\ faults \in Nat /\ MaxAttempts \in Nat
  BY TypeAsParts, MaxAttemptsAssumption DEF TypeParts, RowsOK, RowOK, NoticeRows
<1>2. IsClaimable(e) => outbox[e].attempts < MaxAttempts + faults
  BY <1>1 DEF IsClaimable, LimitOK, Attended
<1> QED
  BY <1>1, <1>2 DEF LimitOK, LimitMoves, Postponed

\* A row whose status, token and lock stay is attended to as before, when its
\* sender goes on.
LEMMA StillAttended ==
    ASSUME NEW e,
           outbox'[e].status = outbox[e].status, outbox'[e].token = outbox[e].token,
           outbox[e].lock = "live" => outbox'[e].lock = "live",
           \A s \in Senders :
              at[s] \in Working /\ held[s].event = e /\ Owns(s) =>
                  at'[s] \in Working /\ held'[s] = held[s]
    PROVE  Attended(e) => Attended(e)'
<1> SUFFICES ASSUME Attended(e) PROVE Attended(e)'
  OBVIOUS
<1>1. PICK s \in Senders : at[s] \in Working /\ held[s].event = e /\ Owns(s)
  BY DEF Attended, IsHeld
<1>2. /\ at'[s] \in Working /\ held'[s] = held[s] /\ outbox'[e].lock = "live"
  BY <1>1 DEF Attended
<1>3. outbox'[held'[s].event].token = held'[s].token
      /\ outbox'[held'[s].event].status = "processing"
  BY <1>1, <1>2 DEF Owns, HoldsToken
<1> QED
  BY <1>1, <1>2, <1>3 DEF Attended, IsHeld, Owns, HoldsToken

\* Whoever keeps the row and its sender as they were moves no limit.
LEMMA QuietLimit ==
    ASSUME NEW e, faults' = faults, outbox'[e].attempts = outbox[e].attempts,
           outbox'[e].status = outbox[e].status, outbox'[e].token = outbox[e].token,
           outbox[e].lock = "live" => outbox'[e].lock = "live",
           \A s \in Senders :
              at[s] \in Working /\ held[s].event = e /\ Owns(s) =>
                  at'[s] \in Working /\ held'[s] = held[s]
    PROVE  LimitMoves(e)
  BY StillAttended DEF LimitMoves, Postponed

\* claim_next_event: the row it takes was not attended to, and is now.
LEMMA ClaimLimit ==
    ASSUME TypeOK, NEW s \in Senders, NEW d \in DOMAIN outbox, ClaimNextEvent(s, d),
           NEW e \in DOMAIN outbox
    PROVE  LimitMoves(e)
<1>1. \A t \in Senders \ {s} : at'[t] = at[t] /\ held'[t] = held[t]
  BY DEF ClaimNextEvent, Go, TypeOK
<1>2. faults' = faults /\ at[s] \notin Working
  BY DEF ClaimNextEvent, Working
<1>3. CASE e # d
  <2>1. outbox'[e] = outbox[e]
    BY <1>3 DEF ClaimNextEvent, SetRow
  <2> QED
    BY <1>1, <1>2, <2>1, QuietLimit
<1>4. CASE e = d
  <2> DEFINE token == outbox[e].attempts + 1
  <2>1. outbox[e] \in NoticeRows
    BY TypeAsParts DEF TypeParts, RowsOK, RowOK
  <2>2. /\ outbox'[e].status = "processing" /\ outbox'[e].attempts = token
        /\ outbox'[e].token = token /\ outbox'[e].lock = "live"
    BY <1>4, <2>1 DEF ClaimNextEvent, SetRow, NoticeRows
  <2>3. at'[s] \in Working /\ held'[s] = [event |-> e, token |-> token]
    BY <1>4 DEF ClaimNextEvent, Go, TypeOK, Working
  <2>4. Attended(e)'
    BY <2>2, <2>3 DEF Attended, IsHeld, Owns, HoldsToken
  <2>5. IsClaimable(e)
    BY <1>4 DEF ClaimNextEvent
  <2> QED
    BY <1>2, <2>2, <2>4, <2>5 DEF LimitMoves
<1> QED
  BY <1>3, <1>4

\* What a sender does that leaves the table alone.
LEMMA ProceedLimit ==
    ASSUME TypeOK, NEW s \in Senders, Render(s) \/ Send(s) \/ LeaseLost(s),
           NEW e \in DOMAIN outbox
    PROVE  LimitMoves(e)
<1>1. \A t \in Senders \ {s} : at'[t] = at[t] /\ held'[t] = held[t]
  BY DEF Render, Send, LeaseLost, Proceed, BackToLoop, Go, TypeOK
<1>2. outbox' = outbox /\ faults' = faults
  BY DEF Render, Send, LeaseLost, Proceed
<1>3. Owns(s) => at'[s] \in Working /\ held'[s] = held[s]
  BY DEF Render, Send, LeaseLost, Proceed, Go, TypeOK, Working
<1> QED
  BY <1>1, <1>2, <1>3, QuietLimit

\* A renewal of the lease.
LEMMA RenewalLimit ==
    ASSUME TypeOK, HasNotice, NEW s \in Senders, RefreshLease(s) \/ Heartbeat(s),
           NEW e \in DOMAIN outbox
    PROVE  LimitMoves(e)
<1>1. \A t \in Senders : at[t] \in Working => at'[t] \in Working
  BY DEF RefreshLease, Heartbeat, Go, TypeOK, Working
<1>2. faults' = faults /\ held' = held
  BY DEF RefreshLease, Heartbeat
<1>3. /\ outbox'[e].status = outbox[e].status /\ outbox'[e].token = outbox[e].token
      /\ outbox'[e].attempts = outbox[e].attempts
      /\ outbox[e].lock = "live" => outbox'[e].lock = "live"
  <2>1. outbox[e] \in NoticeRows
    BY TypeAsParts DEF TypeParts, RowsOK, RowOK
  <2> QED
    BY <2>1 DEF RefreshLease, Heartbeat, ExtendLease, SetRow, NoticeRows
<1> QED
  BY <1>1, <1>2, <1>3, QuietLimit

\* The end of a claim: only below the limit is the notice tried again.
LEMMA MarkLimit ==
    ASSUME TypeOK, HasNotice, TokensAreAttempts, NEW s \in Senders,
           MarkSent(s) \/ MarkDiscarded(s) \/ MarkFailed(s), NEW e \in DOMAIN outbox
    PROVE  LimitMoves(e)
<1>1. /\ BackToLoop(s) /\ at[s] \in Working /\ faults' = faults
      /\ \A d \in DOMAIN outbox : d # held[s].event \/ ~HoldsToken(s) => outbox'[d] = outbox[d]
  BY DEF MarkSent, MarkDiscarded, MarkFailed, Mark, SetRow, Working
<1>2. \A t \in Senders \ {s} : at'[t] = at[t] /\ held'[t] = held[t]
  BY <1>1 DEF BackToLoop, Go, TypeOK
<1>3. CASE e # held[s].event \/ ~HoldsToken(s)
  <2>1. ~(held[s].event = e /\ Owns(s))
    BY <1>3 DEF Owns
  <2> QED
    BY <1>1, <1>2, <1>3, <2>1, QuietLimit
<1>4. CASE e = held[s].event /\ HoldsToken(s)
  <2>0. /\ held[s].token = outbox[e].attempts /\ outbox[e].attempts \in Nat
        /\ MaxAttempts \in Nat
    BY <1>1, <1>4, TypeAsParts, MaxAttemptsAssumption
       DEF HasNotice, TokensAreAttempts, HoldsToken, TypeParts, RowsOK, RowOK, NoticeRows
  <2>1. CASE MarkSent(s) \/ MarkDiscarded(s)
    <3>1. \E status \in {"sent", "discarded"} : outbox'[e] = Unlocked(s, status)
      BY <1>4, <2>1 DEF MarkSent, MarkDiscarded, Mark, SetRow
    <3>2. outbox'[e].status \in {"sent", "discarded"} /\ outbox'[e].attempts = outbox[e].attempts
      BY <1>1, <1>4, <3>1, UnlockedOK DEF NoticeStatuses
    <3> QED
      BY <1>1, <3>2 DEF LimitMoves, Postponed
  <2>2. CASE MarkFailed(s)
    <3>1. CASE at[s] = "refused" \/ held[s].token >= MaxAttempts
      <4>1. outbox'[e] = Unlocked(s, "dead")
        BY <1>4, <2>2, <3>1 DEF MarkFailed, Mark, SetRow
      <4>2. outbox'[e].status = "dead" /\ outbox'[e].attempts = outbox[e].attempts
        BY <1>1, <1>4, <4>1, UnlockedOK DEF NoticeStatuses
      <4> QED
        BY <1>1, <4>2 DEF LimitMoves, Postponed
    <3>2. CASE ~(at[s] = "refused" \/ held[s].token >= MaxAttempts)
      <4>1. outbox'[e] = [Unlocked(s, "pending") EXCEPT !.due = FALSE]
        BY <1>4, <2>2, <3>2 DEF MarkFailed, Mark, SetRow
      <4>2. /\ RowOK(Unlocked(s, "pending")) /\ Unlocked(s, "pending").token = 0
            /\ Unlocked(s, "pending").status = "pending"
            /\ Unlocked(s, "pending").attempts = outbox[e].attempts
        BY <1>1, <1>4, UnlockedOK DEF NoticeStatuses
      <4>3. outbox'[e].status = "pending" /\ outbox'[e].attempts = outbox[e].attempts
        BY <4>1, <4>2, PostponedOK
      <4>4. outbox[e].attempts < MaxAttempts
        BY <2>0, <3>2
      <4> QED
        BY <1>1, <4>3, <4>4 DEF LimitMoves, Postponed
    <3> QED
      BY <3>1, <3>2
  <2> QED
    BY <2>1, <2>2
<1> QED
  BY <1>3, <1>4

\* Telegram's answers, which keep the sender working.
LEMMA AnswerLimit ==
    ASSUME TypeOK, NEW m \in wire, TelegramDelivers(m) \/ TelegramRefuses(m),
           NEW e \in DOMAIN outbox
    PROVE  LimitMoves(e)
<1>1. outbox' = outbox /\ held' = held /\ faults' = faults
  BY DEF TelegramDelivers, TelegramRefuses
<1>2. ASSUME NEW s \in Senders, at[s] \in Working PROVE at'[s] \in Working
  BY <1>2 DEF TelegramDelivers, TelegramRefuses, Answer, Working
<1> QED
  BY <1>1, <1>2, QuietLimit

\* Time passes for rows that nobody attends to.
LEMMA TimeLimit ==
    ASSUME TypeOK, NEW d \in DOMAIN outbox, BecomesDue(d) \/ AbandonedLockExpires(d),
           NEW e \in DOMAIN outbox
    PROVE  LimitMoves(e)
<1>1. UNCHANGED <<at, held, faults>>
  BY DEF BecomesDue, AbandonedLockExpires, LockExpires, senderVars
<1>2. outbox[e] \in NoticeRows
  BY TypeAsParts DEF TypeParts, RowsOK, RowOK
<1>3. CASE BecomesDue(d) \/ e # d
  <2>1. /\ outbox'[e].attempts = outbox[e].attempts /\ outbox'[e].status = outbox[e].status
        /\ outbox'[e].token = outbox[e].token /\ outbox'[e].lock = outbox[e].lock
    BY <1>2, <1>3 DEF BecomesDue, AbandonedLockExpires, LockExpires, SetRow, NoticeRows
  <2> QED
    BY <1>1, <2>1, QuietLimit
<1>4. CASE AbandonedLockExpires(d) /\ e = d
  <2>1. /\ outbox'[e].attempts = outbox[e].attempts /\ outbox'[e].status = "processing"
        /\ outbox[e].status = "processing" /\ ~Attended(e)
    BY <1>2, <1>4 DEF AbandonedLockExpires, LockExpires, SetRow, NoticeRows, Attended
  <2> QED
    BY <1>1, <2>1 DEF LimitMoves, Postponed
<1> QED
  BY <1>3, <1>4

\* Steps that cost a fault count no attempt.
LEMMA FaultLimit ==
    ASSUME TypeOK, NEW e \in DOMAIN outbox,
           \/ \E s \in Senders :
                SendTimesOut(s) \/ HeartbeatFails(s) \/ DatabaseFails(s) \/ Crash(s)
           \/ \E d \in DOMAIN outbox : SenderStalls(d)
    PROVE  LimitMoves(e)
<1>1. faults' = faults + 1
  BY DEF SendTimesOut, HeartbeatFails, DatabaseFails, Crash, SenderStalls, Fault
<1>2. outbox[e] \in NoticeRows
  BY TypeAsParts DEF TypeParts, RowsOK, RowOK
<1>3. outbox'[e].attempts = outbox[e].attempts /\ Postponed(e)
  <2>1. ASSUME NEW s \in Senders, SendTimesOut(s) \/ HeartbeatFails(s) \/ Crash(s)
        PROVE  outbox' = outbox
    BY <2>1 DEF SendTimesOut, HeartbeatFails, Crash
  <2>2. ASSUME NEW s \in Senders, DatabaseFails(s)
        PROVE  outbox'[e].attempts = outbox[e].attempts /\ Postponed(e)
    <3>1. CASE outbox' = outbox
      BY <3>1 DEF Postponed
    <3>2. CASE outbox' # outbox
      <4> DEFINE d == held[s].event
                 status == IF at[s] = "sent" THEN "sent" ELSE "discarded"
      <4>1. outbox' = [outbox EXCEPT ![d] = Unlocked(s, status)]
        BY <2>2, <3>2 DEF DatabaseFails, SetRow
      <4>2. e # d => outbox'[e] = outbox[e]
        BY <4>1
      <4>3. e = d => outbox'[e].attempts = outbox[e].attempts /\ outbox'[e].status = status
        BY <1>2, <4>1 DEF Unlocked, NoticeRows
      <4> QED
        BY <4>2, <4>3 DEF Postponed
    <3> QED
      BY <3>1, <3>2
  <2>3. ASSUME NEW d \in DOMAIN outbox, SenderStalls(d)
        PROVE  outbox'[e].attempts = outbox[e].attempts /\ Postponed(e)
    BY <1>2, <2>3 DEF SenderStalls, LockExpires, SetRow, NoticeRows, Postponed
  <2> QED
    BY <2>1, <2>2, <2>3 DEF Postponed
<1> QED
  BY <1>1, <1>3 DEF LimitMoves

\* Every step moves the attempts of a notice in one of those ways.
LEMMA EveryStepLimited ==
    ASSUME IInv, [Next]_vars, NEW e \in DOMAIN outbox
    PROVE  LimitMoves(e)
<1>1. TypeOK /\ HasNotice /\ TokensAreAttempts
  BY DEF IInv
<1>2. ASSUME outbox'[e] = outbox[e], UNCHANGED senderVars PROVE LimitMoves(e)
  BY <1>2, QuietLimit DEF senderVars
<1>3. CASE UNCHANGED vars
  BY <1>2, <1>3 DEF vars, senderVars
<1>4. ASSUME NEW r \in Requests, RequestStep(r), UNCHANGED senderVars PROVE LimitMoves(e)
  <2>1. outbox'[e] = outbox[e]
    BY <1>4 DEF RequestStep, RejectAndTell, ClaimAgain, RecoverOne, FinishAndTell, CleanupRow,
                Post
  <2> QED
    BY <1>2, <1>4, <2>1
<1>5. ASSUME NEW s \in Senders,
             SenderStep(s) \/ Heartbeat(s) \/ HeartbeatFails(s) \/ DatabaseFails(s) \/ Crash(s)
      PROVE  LimitMoves(e)
  BY <1>1, <1>5, ClaimLimit, ProceedLimit, RenewalLimit, MarkLimit, FaultLimit DEF SenderStep
<1>6. ASSUME NEW m \in wire, TelegramDelivers(m) \/ TelegramRefuses(m) PROVE LimitMoves(e)
  BY <1>1, <1>6, AnswerLimit
<1>7. ASSUME NEW d \in DOMAIN outbox,
             BecomesDue(d) \/ AbandonedLockExpires(d) \/ SenderStalls(d)
      PROVE  LimitMoves(e)
  BY <1>1, <1>7, TimeLimit, FaultLimit
<1> QED
  BY <1>3, <1>4, <1>5, <1>6, <1>7 DEF Next

\* A notice that was just posted has not been attempted.
LEMMA NewNoticeLimit ==
    ASSUME IInv, [Next]_vars, NEW e \in DOMAIN outbox' \ DOMAIN outbox
    PROVE  LimitOK(e)'
<1>1. StepOK
  BY NextOK DEF IInv
<1>2. outbox'[e].status = "pending" /\ outbox'[e].attempts = 0
  BY <1>1 DEF StepOK, TableMoves, NewNotice
<1>3. MaxAttempts \in Nat /\ MaxAttempts > 0
  BY MaxAttemptsAssumption
<1>4. faults' \in Nat
  BY <1>1 DEF StepOK, TypeOK
<1>5. ASSUME NEW n \in Nat PROVE 0 <= MaxAttempts + n
  BY <1>3
<1>6. 0 <= MaxAttempts + faults'
  BY <1>4, <1>5
<1> QED
  BY <1>2, <1>3, <1>6 DEF LimitOK

\* A notice is attempted at most telegram_outbox_max_attempts times, and once
\* more for every crash, stall, timeout or failed write: the limit, which only
\* mark_failed applies, is missed by claims that ended without it.
THEOREM AttemptsBeyondLimitHaveFaults == Spec => []AttemptsArePaidFor
<1> DEFINE LimitsOK == \A e \in DOMAIN outbox : LimitOK(e)
<1>1. Init => LimitsOK
  BY MaxAttemptsAssumption DEF Init, OutboxInit, NewNotice, LimitOK
<1>2. IInv /\ LimitsOK /\ [Next]_vars => LimitsOK'
  <2> SUFFICES ASSUME IInv, LimitsOK, [Next]_vars, NEW e \in DOMAIN outbox'
               PROVE  LimitOK(e)'
    OBVIOUS
  <2>1. CASE e \in DOMAIN outbox
    BY <2>1, EveryStepLimited, LimitFollows DEF IInv
  <2>2. CASE e \notin DOMAIN outbox
    BY <2>2, NewNoticeLimit
  <2> QED
    BY <2>1, <2>2
<1>3. LimitsOK => AttemptsArePaidFor
  BY DEF LimitOK, AttemptsArePaidFor
<1> HIDE DEF LimitsOK
<1> QED
  BY <1>1, <1>2, <1>3, Invariance, PTL DEF Spec

-----------------------------------------------------------------------------
(* What the recipients hear *)

\* A result that ends the matter.
Ends(a) == a.outcome \in {"uploaded", "rejected"}

(***************************************************************************)
(* A notice is posted with what it tells, and a verdict is the status of   *)
(* its request until the cleanup takes it away.                            *)
(***************************************************************************)
TrueOK ==
    /\ \A e \in DOMAIN outbox : e.kind # "submitted" => Told(e) \in announced
    /\ \A a \in announced :
          Ends(a) => upload[a.req].status \in {a.outcome, "deleted_temp"}
    /\ \A a, b \in announced : Ends(a) /\ Ends(b) /\ a.req = b.req => a = b

\* At first only cards are posted and nothing is announced.
LEMMA TrueInit == Init => TrueOK
<1> SUFFICES ASSUME Init PROVE TrueOK
  OBVIOUS
<1>1. DOMAIN outbox = UNION {NoticesAbout(r, 0, "submitted") : r \in Requests}
  BY DEF Init, OutboxInit
<1>2. \A e \in DOMAIN outbox : e.kind = "submitted"
  BY <1>1 DEF NoticesAbout
<1>3. announced = {}
  BY DEF Init, OutboxInit, StatusInit
<1> QED
  BY <1>2, <1>3 DEF TrueOK

\* A request that has its verdict gets no other: whoever announces one finds
\* it undecided or uploading.
LEMMA VerdictsAreTaken ==
    ASSUME IInv, [Next]_vars, NEW r \in Requests,
           upload[r].status \in {"uploaded", "rejected", "deleted_temp"}
    PROVE  upload'[r].status \in {upload[r].status, "deleted_temp"}
<1>1. upload \in [Requests -> [status : UploadStatuses, attempts : Nat]]
  BY TypeAsParts DEF IInv, TypeParts, StatusTypeOK
<1>2. CASE upload'[r] = upload[r]
  BY <1>2
<1>3. CASE upload'[r] # upload[r]
  <2>1. PICK q \in Requests : RequestStep(q)
    BY <1>3, WhoMovesRequests
  <2> QED
    BY <1>1, <1>3, <2>1
       DEF RequestStep, Enqueue, RejectAndTell, Reject, ClaimAgain, ClaimUpload, RecoverOne,
           Recover, FinishAndTell, Finish, CleanupRow, MarkDeleted, Move, Undecided
<1> QED
  BY <1>2, <1>3

\* Nothing is announced of a request that has its verdict.
LEMMA VerdictsAreLast ==
    ASSUME IInv, [Next]_vars, NEW a \in announced' \ announced
    PROVE  /\ a.req \in Requests
           /\ upload[a.req].status \notin {"uploaded", "rejected", "deleted_temp"}
           /\ upload'[a.req].status = a.outcome
           /\ \A b \in announced' \ announced : b = a
<1>1. PICK r \in Requests, n \in Nat, outcome \in {"uploaded", "failed", "rejected"} :
        /\ Announce(r, n, outcome)
        /\ upload'[r].status = outcome
  BY Announcements
<1>2. \A b \in announced' \ announced : b = [req |-> r, attempt |-> n, outcome |-> outcome]
  BY <1>1 DEF Announce
<1>3. a.req = r /\ a.outcome = outcome
  BY <1>2
<1>4. PICK q \in Requests : RequestStep(q) 
  BY WhoMovesRequests
<1>5. upload[r].status \notin {"uploaded", "rejected", "deleted_temp"}
  <2>1. upload \in [Requests -> [status : UploadStatuses, attempts : Nat]]
    BY TypeAsParts DEF IInv, TypeParts, StatusTypeOK
  <2>2. announced' # announced
    OBVIOUS
  <2>3. \/ RejectAndTell(q)
        \/ \E o \in {"uploaded", "failed"} : FinishAndTell(q, o)
    BY <1>4, <2>2 DEF RequestStep, Enqueue, ClaimAgain, ClaimUpload, RecoverOne, Recover,
                      CleanupRow, MarkDeleted
  <2>4. \E k \in Nat, o \in {"uploaded", "failed", "rejected"} : Announce(q, k, o)
    BY <2>1, <2>3 DEF RejectAndTell, Reject, FinishAndTell, Finish
  <2>5. q = r
    BY <1>2, <2>4 DEF Announce
  <2> QED
    BY <2>3, <2>5 DEF RejectAndTell, Reject, FinishAndTell, Finish, Move, Undecided
<1> QED
  BY <1>1, <1>2, <1>3, <1>5

\* Every step keeps notices and announcements together.
LEMMA TrueStep == IInv /\ TrueOK /\ [Next]_vars => TrueOK'
<1> SUFFICES ASSUME IInv, TrueOK, [Next]_vars PROVE TrueOK'
  OBVIOUS
<1>0. announced \subseteq announced'
  BY Announcements DEF Announce
<1>1. ASSUME NEW e \in DOMAIN outbox', e.kind # "submitted" PROVE Told(e) \in announced'
  <2>1. CASE e \in DOMAIN outbox
    BY <1>0, <1>1, <2>1 DEF TrueOK
  <2>2. CASE e \notin DOMAIN outbox
    <3>1. PICK r \in Requests, n \in Nat, outcome \in {"uploaded", "failed", "rejected"} :
            /\ Announce(r, n, outcome)
            /\ DOMAIN outbox' = DOMAIN outbox \cup NoticesAbout(r, n, outcome)
      BY <2>2, Announcements
    <3>2. e \in NoticesAbout(r, n, outcome)
      BY <2>2, <3>1
    <3>3. Told(e) = [req |-> r, attempt |-> n, outcome |-> outcome]
      BY <3>2 DEF NoticesAbout, Told
    <3> QED
      BY <3>1, <3>3 DEF Announce
  <2> QED
    BY <2>1, <2>2
<1>2. ASSUME NEW a \in announced', Ends(a)
      PROVE  upload'[a.req].status \in {a.outcome, "deleted_temp"}
  <2>1. CASE a \in announced
    <3>1. a.req \in Requests
      BY <2>1, TypeAsParts DEF IInv, TypeParts, StatusTypeOK
    <3> QED
      BY <1>2, <2>1, <3>1, VerdictsAreTaken DEF TrueOK, Ends
  <2>2. CASE a \notin announced
    BY <2>2, VerdictsAreLast
  <2> QED
    BY <2>1, <2>2
<1>3. ASSUME NEW a \in announced', NEW b \in announced', Ends(a), Ends(b), a.req = b.req,
             a \notin announced
      PROVE  a = b
  <2>1. CASE b \in announced
    BY <1>3, <2>1, VerdictsAreLast DEF TrueOK, Ends
  <2>2. CASE b \notin announced
    BY <1>3, <2>2, VerdictsAreLast
  <2> QED
    BY <2>1, <2>2
<1>4. ASSUME NEW a \in announced', NEW b \in announced', Ends(a), Ends(b), a.req = b.req
      PROVE  a = b
  BY <1>3, <1>4 DEF TrueOK
<1> QED
  BY <1>1, <1>2, <1>4 DEF TrueOK

-----------------------------------------------------------------------------
(* Messages that are out of date *)

(***************************************************************************)
(* A failure that was announced is of an attempt that is over: when the    *)
(* request is uploading again, it is a later attempt.                      *)
(***************************************************************************)
FailuresAreOver ==
    \A a \in announced : a.outcome = "failed" =>
        /\ a.attempt <= upload[a.req].attempts
        /\ upload[a.req].status = "uploading" => a.attempt < upload[a.req].attempts

\* A request is claimed for its next attempt, or changes its status only.
LEMMA HowRequestsMove ==
    ASSUME IInv, [Next]_vars, NEW r \in Requests
    PROVE  \/ upload'[r] = upload[r]
           \/ upload'[r].status = "uploading" /\ upload'[r].attempts = upload[r].attempts + 1
           \/ /\ upload'[r].attempts = upload[r].attempts
              /\ upload'[r].status \notin {"uploading", "pending_approval"}
              /\ upload'[r].status = "failed" => upload[r].status = "uploading"
<1>1. upload \in [Requests -> [status : UploadStatuses, attempts : Nat]]
  BY TypeAsParts DEF IInv, TypeParts, StatusTypeOK
<1>2. CASE upload'[r] = upload[r]
  BY <1>2
<1>3. CASE upload'[r] # upload[r]
  <2>1. PICK q \in Requests : RequestStep(q)
    BY <1>3, WhoMovesRequests
  <2>2. ASSUME NEW from, NEW to, Move(q, from, to)
        PROVE  /\ upload[r].status \in from /\ upload'[r].status = to
               /\ upload'[r].attempts = upload[r].attempts
    <3>1. q = r
      BY <1>1, <1>3, <2>2 DEF Move
    <3> QED
      BY <1>1, <2>2, <3>1 DEF Move
  <2>3. CASE ClaimAgain(q)
    BY <1>1, <1>3, <2>3 DEF ClaimAgain, ClaimUpload
  <2>4. CASE RecoverOne(q)
    BY <1>1, <1>3, <2>4 DEF RecoverOne, Recover
  <2>5. CASE Enqueue(q) \/ RejectAndTell(q) \/ CleanupRow(q)
    <3>1. \/ Move(q, Undecided, "approved") \/ Move(q, Undecided, "rejected")
          \/ Move(q, Cleanable, "deleted_temp")
      BY <2>5 DEF Enqueue, RejectAndTell, Reject, CleanupRow, MarkDeleted
    <3> QED
      BY <2>2, <3>1
  <2>6. ASSUME NEW outcome \in {"uploaded", "failed"}, FinishAndTell(q, outcome)
        PROVE  /\ upload'[r].attempts = upload[r].attempts
               /\ upload'[r].status = outcome /\ upload[r].status = "uploading"
    <3>1. Move(q, {"uploading"}, outcome)
      BY <2>6 DEF FinishAndTell, Finish
    <3> QED
      BY <2>2, <3>1
  <2> QED
    BY <2>1, <2>3, <2>4, <2>5, <2>6 DEF RequestStep
<1> QED
  BY <1>2, <1>3

\* A failure is announced of the attempt that ends with it.
LEMMA FailureIsLatest ==
    ASSUME IInv, [Next]_vars, NEW a \in announced' \ announced, a.outcome = "failed"
    PROVE  /\ a.req \in Requests
           /\ a.attempt = upload'[a.req].attempts /\ a.attempt \in Nat
           /\ upload'[a.req].status = "failed"
<1>1. upload \in [Requests -> [status : UploadStatuses, attempts : Nat]]
  BY TypeAsParts DEF IInv, TypeParts, StatusTypeOK
<1>2. PICK q \in Requests : RequestStep(q)
  BY WhoMovesRequests
<1>3. CASE RejectAndTell(q)
  BY <1>3 DEF RejectAndTell, Reject, Announce
<1>4. ASSUME NEW outcome \in {"uploaded", "failed"}, FinishAndTell(q, outcome)
      PROVE  /\ a = [req |-> q, attempt |-> upload[q].attempts, outcome |-> outcome]
             /\ upload'[q] = [upload[q] EXCEPT !.status = outcome]
  BY <1>1, <1>4 DEF FinishAndTell, Finish, Move, Announce
<1>5. \/ RejectAndTell(q)
      \/ \E outcome \in {"uploaded", "failed"} : FinishAndTell(q, outcome)
  BY <1>2 DEF RequestStep, Enqueue, ClaimAgain, ClaimUpload, RecoverOne, Recover, CleanupRow,
              MarkDeleted
<1> QED
  BY <1>1, <1>3, <1>4, <1>5

\* At first nothing is announced.
LEMMA FailuresInit == Init => FailuresAreOver
  BY DEF Init, OutboxInit, StatusInit, FailuresAreOver

\* Attempts are counted up, and a claim begins the next one.
LEMMA FailuresStep == IInv /\ FailuresAreOver /\ [Next]_vars => FailuresAreOver'
<1> SUFFICES ASSUME IInv, FailuresAreOver, [Next]_vars,
                    NEW a \in announced', a.outcome = "failed"
             PROVE  /\ a.attempt <= upload'[a.req].attempts
                    /\ upload'[a.req].status = "uploading" => a.attempt < upload'[a.req].attempts
  BY DEF FailuresAreOver
<1>1. CASE a \in announced
  <2>1. /\ a.req \in Requests /\ a.attempt \in Nat /\ upload[a.req].attempts \in Nat
    BY <1>1, TypeAsParts DEF IInv, TypeParts, StatusTypeOK
  <2>2. /\ a.attempt <= upload[a.req].attempts
        /\ upload[a.req].status = "uploading" => a.attempt < upload[a.req].attempts
    BY <1>1 DEF FailuresAreOver
  <2> QED
    BY <2>1, <2>2, HowRequestsMove
<1>2. CASE a \notin announced
  BY <1>2, FailureIsLatest
<1> QED
  BY <1>1, <1>2

(***************************************************************************)
(* A request that has moved on does not come back to what a notice of it   *)
(* tells: a card is of the beginning, a verdict is followed by deletion    *)
(* only, and the next failure has another attempt number.                  *)
(***************************************************************************)
LEMMA MovedOnForGood ==
    ASSUME IInv, TrueOK, FailuresAreOver, [Next]_vars, NEW e \in DOMAIN outbox, MovedOn(e)
    PROVE  MovedOn(e)'
<1> DEFINE u == upload[e.req]
           v == upload'[e.req]
<1>1. e \in Notices /\ u.attempts \in Nat
  BY TypeAsParts DEF IInv, TypeParts, RowsOK, StatusTypeOK, Notices
<1>2. e.req \in Requests /\ e.kind \in Kinds
  BY <1>1 DEF Notices
<1>3. \/ v = u
      \/ v.status = "uploading" /\ v.attempts = u.attempts + 1
      \/ /\ v.attempts = u.attempts
         /\ v.status \notin {"uploading", "pending_approval"}
         /\ v.status = "failed" => u.status = "uploading"
  BY <1>2, HowRequestsMove
<1>4. CASE e.kind = "submitted"
  BY <1>3, <1>4 DEF MovedOn
<1>5. CASE IsVerdict(e)
  <2>1. Told(e) \in announced /\ Ends(Told(e)) /\ Told(e).req = e.req
    BY <1>5 DEF TrueOK, IsVerdict, Told, Ends
  <2>2. u.status \in {e.kind, "deleted_temp"}
    BY <2>1 DEF TrueOK, Told
  <2>3. v.status \in {u.status, "deleted_temp"}
    BY <1>2, <1>5, <2>2, VerdictsAreTaken DEF IsVerdict
  <2> QED
    BY <1>3, <1>5, <2>2, <2>3 DEF MovedOn, IsVerdict
<1>6. CASE e.kind = "failed"
  <2>1. Told(e) \in announced /\ Told(e).outcome = "failed" /\ Told(e).req = e.req
        /\ Told(e).attempt = e.attempt
    BY <1>6 DEF TrueOK, Told
  <2>2. u.status = "uploading" => e.attempt < u.attempts
    BY <2>1 DEF FailuresAreOver
  <2>3. e.attempt \in Nat
    BY <1>1 DEF Notices
  <2>4. u.status = "uploading" => u.attempts # e.attempt
    BY <1>1, <2>2, <2>3
  <2> QED
    BY <1>3, <1>6, <2>4 DEF MovedOn
<1> QED
  BY <1>2, <1>4, <1>5, <1>6 DEF Kinds, IsVerdict

\* A sender is to renew its lease because it was, or because it rendered.
LEMMA RefreshMoves ==
    ASSUME TypeOK, [Next]_vars, NEW s \in Senders, at'[s] = "refresh"
    PROVE  \/ at[s] = "refresh" /\ held'[s] = held[s]
           \/ held'[s] = held[s] /\ IsCurrent(held[s].event)
<1> DEFINE Waits == at[s] = "refresh" /\ held'[s] = held[s]
<1>a. at \in [Senders -> Places] /\ held \in [Senders -> Calls \cup {None}]
  BY DEF TypeOK
<1>1. CASE UNCHANGED <<at, held>>
  BY <1>1
<1>2. ASSUME NEW t \in Senders, BackToLoop(t) PROVE Waits
  BY <1>a, <1>2 DEF BackToLoop, Go
<1>3. ASSUME NEW t \in Senders, NEW p, Go(t, p), held' = held, p # "refresh"
      PROVE  Waits
  BY <1>a, <1>3 DEF Go
<1>4. ASSUME NEW t \in Senders,
             Send(t) \/ RefreshLease(t) \/ SendTimesOut(t) \/ DatabaseFails(t)
      PROVE  Waits
  BY <1>3, <1>4 DEF Send, Proceed, RefreshLease, SendTimesOut, DatabaseFails
<1>5. ASSUME NEW t \in Senders, Render(t)
      PROVE  Waits \/ (held'[s] = held[s] /\ IsCurrent(held[s].event))
  <2>1. CASE t = s
    BY <1>a, <1>5, <2>1 DEF Render, Proceed, Go
  <2>2. CASE t # s
    BY <1>a, <1>5, <2>2 DEF Render, Proceed, Go
  <2> QED
    BY <2>1, <2>2
<1>6. ASSUME NEW t \in Senders, NEW e \in DOMAIN outbox, ClaimNextEvent(t, e) PROVE Waits
  BY <1>a, <1>6 DEF ClaimNextEvent, Go
<1>7. ASSUME NEW t \in Senders,
             \/ LeaseLost(t) \/ MarkSent(t) \/ MarkDiscarded(t) \/ MarkFailed(t)
             \/ HeartbeatFails(t) \/ Crash(t)
      PROVE  Waits
  BY <1>2, <1>7 DEF LeaseLost, MarkSent, MarkDiscarded, MarkFailed, Mark, HeartbeatFails, Crash
<1>8. ASSUME NEW m \in wire, TelegramDelivers(m) \/ TelegramRefuses(m) PROVE Waits
  BY <1>a, <1>8 DEF TelegramDelivers, TelegramRefuses, Answer
<1>9. ASSUME NEW t \in Senders, Heartbeat(t) PROVE UNCHANGED <<at, held>>
  BY <1>9 DEF Heartbeat
<1>10. ASSUME NEW e \in DOMAIN outbox,
              BecomesDue(e) \/ AbandonedLockExpires(e) \/ SenderStalls(e)
       PROVE  UNCHANGED <<at, held>>
  BY <1>10 DEF BecomesDue, AbandonedLockExpires, SenderStalls, LockExpires, senderVars
<1>11. \/ UNCHANGED <<at, held>>
       \/ Waits
       \/ \E t \in Senders : Render(t)
  <2> HIDE DEF Waits
  <2> QED
    BY <1>4, <1>6, <1>7, <1>8, <1>9, <1>10 DEF Next, SenderStep, senderVars, vars
<1> QED
  BY <1>1, <1>5, <1>11

\* What nobody tells while it is true is not told when it has moved on.
LEMMA NotToldLater ==
    ASSUME IInv, [Next]_vars, NEW e \in DOMAIN outbox, Lapsed(e)
    PROVE  ~IsBeingTold(e)'
<1>1. TypeOK /\ e.kind \in Kinds
  BY TypeAsParts DEF IInv, TypeParts, RowsOK, Notices
<1>2. ~IsBeingTold(e) /\ ~IsCurrent(e)
  BY <1>1 DEF Lapsed, MovedOn, IsCurrent, Kinds
<1>3. ASSUME NEW m \in wire' \cup heard' PROVE m.event # e
  <2>1. CASE m \in wire \cup heard
    BY <1>2, <2>1 DEF IsBeingTold
  <2>2. CASE m \notin wire \cup heard
    <3>1. PICK s \in Senders : Send(s)
      BY <1>3, <2>2, CallMoves
    <3>2. at[s] = "send" /\ m = held[s]
      BY <1>3, <2>2, <3>1 DEF Send, Proceed
    <3> QED
      BY <1>2, <3>2 DEF IsBeingTold
  <2> QED
    BY <2>1, <2>2
<1>4. ASSUME NEW s \in Senders, at'[s] = "send" PROVE held'[s].event # e
  BY <1>1, <1>2, <1>4, SendMoves DEF IsBeingTold, RefreshLease
<1>5. ASSUME NEW s \in Senders, at'[s] = "refresh" PROVE held'[s].event # e
  BY <1>1, <1>2, <1>5, RefreshMoves DEF IsBeingTold
<1> QED
  BY <1>3, <1>4, <1>5 DEF IsBeingTold

\* Every message that is heard is about something that happened, everybody
\* concerned is posted what happens, and no two verdicts on one request are
\* ever heard, however many senders repeat, delay or duplicate them; and a
\* notice that was not rendered before its request moved on is never sent.
THEOREM RecipientsHearTheTruth == Spec => MessagesAreTrue
<1>1. TypeOK /\ ToldOK /\ CallsOK /\ TrueOK => HeardIsTrue
  <2> SUFFICES ASSUME TypeOK, ToldOK, CallsOK, TrueOK PROVE HeardIsTrue
    OBVIOUS
  <2>1. \A m \in heard : m.event \in DOMAIN outbox
    BY DEF CallsOK
  <2>2. \A m \in heard : m.event.kind # "submitted" => Told(m.event) \in announced
    BY <2>1 DEF TrueOK
  <2>3. ASSUME NEW m \in heard, NEW n \in heard, IsVerdict(m.event), IsVerdict(n.event),
               m.event.req = n.event.req
        PROVE  Told(m.event) = Told(n.event)
    <3>1. Told(m.event) \in announced /\ Told(n.event) \in announced
      BY <2>2, <2>3 DEF IsVerdict
    <3>2. Ends(Told(m.event)) /\ Ends(Told(n.event)) /\ Told(m.event).req = Told(n.event).req
      BY <2>3 DEF Ends, Told, IsVerdict
    <3> QED
      BY <3>1, <3>2 DEF TrueOK
  <2> QED
    BY <2>2, <2>3 DEF HeardIsTrue, ToldOK
<1>2. IInv => TypeOK
  BY DEF IInv
<1>3. IInv /\ TrueOK /\ FailuresAreOver /\ [Next]_vars =>
          \A e \in DOMAIN outbox : Lapsed(e) => Lapsed(e)'
  BY MovedOnForGood, NotToldLater DEF Lapsed
<1>4. IInv /\ TrueOK /\ FailuresAreOver /\ [Next]_vars /\ HeardIsTrue' =>
          [HeardIsTrue' /\ \A e \in DOMAIN outbox : Lapsed(e) => Lapsed(e)']_vars
  BY <1>3
<1> QED
  BY <1>1, <1>2, <1>4, ToldInit, ToldStep, CallsInit, CallsStep, TrueInit, TrueStep,
     FailuresInit, FailuresStep, Invariance, PTL
     DEF Spec, MessagesAreTrue

=============================================================================
