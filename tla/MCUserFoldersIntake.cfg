\* The smallest instance in which an upload goes to a folder renamed meanwhile.
SPECIFICATION Spec
CONSTANTS
    None = None
    Users = {u1, u2}
    Roots = {ra, rb}
    Names = {n1, n2}
    Sessions = {s1, s2}
    MaxOps = 4
    MaxFaults = 1
PROPERTIES UploadsGoToAssignedFolder
CHECK_DEADLOCK FALSE
