\* A sender dies during the last attempt.
SPECIFICATION Spec
CONSTANTS
    None = None
    Requests = {r1}
    Admins = {}
    Uploader = uploader
    Senders = {s1, s2}
    MaxUploads = 1
    MaxAttempts = 2
    MaxFaults = 2
CHECK_DEADLOCK FALSE
INVARIANT AttemptsAreLimited
