SPECIFICATION Spec
CONSTANTS
    None = None
    Requests = {r1}
    Admins = {a1}
    Uploader = uploader
    Senders = {s1, s2}
    MaxUploads = 1
    MaxAttempts = 1
    MaxFaults = 1
CHECK_DEADLOCK FALSE
INVARIANT DeletedAfterTelling
SYMMETRY SenderSymmetry
