---------------------------- MODULE RequestFiles ----------------------------
(***************************************************************************)
(* What intake and cleanup promise together, without transactions, .part   *)
(* files, lost connections or a scan: an event becomes one request; a      *)
(* request is stored with the file that was staged for it and loses it     *)
(* only when it is finished; it is closed only when the file is gone; and  *)
(* a sender is told the code of the request stored for his event.  One     *)
(* thing may go wrong: a file withdrawn while the fate of its request was  *)
(* not known.                                                              *)
(***************************************************************************)
CONSTANTS Ids, Codes, Events, None

VARIABLES
    request,    \* request[i]: event, code of the file and status
    file,       \* file[c]: "absent", "there" or "withdrawn"
    told        \* the answers: the event and the code that was told

vars == <<request, file, told>>

Used == {request[i].code : i \in DOMAIN request}

\* Requests from before have their files and no event anybody repeats.
Init ==
    /\ DOMAIN request \subseteq Ids
    /\ \A i \in DOMAIN request : request[i].event = None /\ request[i].status = "finished"
    /\ file = [c \in Codes |-> IF c \in Used THEN "there" ELSE "absent"]
    /\ told = {}

Stage(c) ==
    /\ c \notin Used /\ file[c] = "absent"
    /\ file' = [file EXCEPT ![c] = "there"]
    /\ UNCHANGED <<request, told>>

\* The file goes because no request has it: none will, or perhaps one.
Withdraw(c, how) ==
    /\ c \notin Used /\ file[c] = "there"
    /\ file' = [file EXCEPT ![c] = how]
    /\ UNCHANGED request

Store(i, c, e) ==
    /\ i \notin DOMAIN request
    /\ c \notin Used /\ file[c] # "absent"
    /\ \A j \in DOMAIN request : request[j].event # e
    /\ request' = [j \in DOMAIN request \cup {i} |->
                     IF j = i THEN [event |-> e, code |-> c, status |-> "open"] ELSE request[j]]
    /\ UNCHANGED <<file, told>>

Finish(i) ==
    /\ request[i].status = "open"
    /\ request' = [request EXCEPT ![i].status = "finished"]
    /\ UNCHANGED <<file, told>>

Remove(i) ==
    /\ request[i].status # "open"
    /\ file[request[i].code] = "there"
    /\ file' = [file EXCEPT ![request[i].code] = "absent"]
    /\ UNCHANGED <<request, told>>

\* Several at a time.
Close(done) ==
    /\ \A i \in done : request[i].status # "open" /\ file[request[i].code] # "there"
    /\ request' = [i \in DOMAIN request |->
                     IF i \in done THEN [request[i] EXCEPT !.status = "deleted_temp"]
                     ELSE request[i]]
    /\ UNCHANGED <<file, told>>

Tell(i) == told' = told \cup {[event |-> request[i].event, code |-> request[i].code]}

\* Another delivery of the event was faster.
TellInstead(i, c) == Withdraw(c, "absent") /\ Tell(i)

Next ==
    \/ \E c \in Codes : \/ Stage(c)
                        \/ \E how \in {"absent", "withdrawn"} : Withdraw(c, how) /\ UNCHANGED told
    \/ \E i \in Ids, c \in Codes, e \in Events : Store(i, c, e)
    \/ \E i \in DOMAIN request :
         \/ Finish(i) \/ Remove(i)
         \/ Tell(i) /\ UNCHANGED <<request, file>>
         \/ \E c \in Codes : TellInstead(i, c)
    \/ \E done \in SUBSET DOMAIN request : Close(done)

Spec == Init /\ [][Next]_vars

=============================================================================
