\* Two requests for one target name, two workers, one fault.
SPECIFICATION Spec
CONSTANTS
    r1 = r1  r2 = r2  w1 = w1  w2 = w2
    mine = mine  yours = yours  other = other
    None = None
    Requests = {r1, r2}
    Workers = {w1, w2}
    Folders = {"f"}
    Names = {"n1"}
    Contents = {mine, yours, other}
    FileOf <- TwoFiles
    MaxAttempts = 1
    MaxFaults = 1
SYMMETRY WorkerSymmetry
INVARIANTS StoredOnlyIfApproved
PROPERTIES OverwriteOnlyWhenGranted ImplementsStatus
