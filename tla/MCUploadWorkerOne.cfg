\* One request that is edited, decided and retried, two workers, two faults.
SPECIFICATION Spec
CONSTANTS
    r1 = r1  r2 = r2  w1 = w1  w2 = w2
    mine = mine  yours = yours  other = other
    None = None
    Requests = {r1}
    Workers = {w1, w2}
    Folders = {"f"}
    Names = {"n1", "n2"}
    Contents = {mine, other}
    FileOf <- OneFile
    MaxAttempts = 2
    MaxFaults = 2
SYMMETRY WorkerSymmetry
INVARIANTS
    TypeOK UploadedIsStored RetryableHasFile SingleOwner OwnerSnapshotCurrent
    ResultsAgree
