--------------------------- MODULE MCUploadWorker ---------------------------
(* Instances of UploadWorker for TLC. *)
EXTENDS UploadWorker, TLC

CONSTANTS r1, r2, w1, w2, mine, yours, other

\* Two requests with different files.
TwoFiles == r1 :> mine @@ r2 :> yours
\* One request.
OneFile == r1 :> mine

WorkerSymmetry == Permutations(Workers)

=============================================================================
