--------------------------- MODULE MCOutboxWorker ---------------------------
(* Instances of OutboxWorker for TLC. *)
EXTENDS OutboxWorker, TLC

SenderSymmetry == Permutations(Senders)

=============================================================================
