--------------------------- MODULE MCUserFolders ---------------------------
(* Instances of UserFolders for TLC. *)
EXTENDS UserFolders, TLC

FolderSymmetry ==
    Permutations(Users) \cup Permutations(Sessions)
        \cup Permutations(Names) \cup Permutations(Roots)

=============================================================================
