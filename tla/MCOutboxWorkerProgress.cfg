\* One request, its uploader only, two senders, under fairness.
SPECIFICATION FairSpec
CONSTANTS
    None = None
    Requests = {r1}
    Admins = {}
    Uploader = uploader
    Senders = {s1, s2}
    MaxUploads = 1
    MaxAttempts = 2
    MaxFaults = 1
CHECK_DEADLOCK FALSE
PROPERTIES EveryNoticeSettled ImplementsDelivery
