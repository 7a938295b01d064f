\* Two users, three sessions, two roots and two names.
SPECIFICATION Spec
CONSTANTS
    None = None
    Users = {u1, u2}
    Roots = {ra, rb}
    Names = {n1, n2}
    Sessions = {s1, s2, s3}
    MaxOps = 5
    MaxFaults = 1
CHECK_DEADLOCK FALSE
SYMMETRY FolderSymmetry
INVARIANTS
    TypeOK ExclusiveFolders DeadlocksAreExplained
PROPERTIES
    ImplementsRegistry ApprovedWithFolder RootChangeIsWhole UploadsFollowRoot
