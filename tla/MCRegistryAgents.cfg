SPECIFICATION FairSpec
CONSTANTS
    requester = requester
    worker = worker
    rival = rival
    heir = heir
    j1 = j1
    o1 = o1
    o2 = o2
    None = None
    Did = {requester, worker, rival, heir}
    Founders = {requester, worker}
    Operator = requester
    SuccessionWindow = 1
    DisputeWindow = 2
    MaxTime = 3
    MaxLog = 2
    JobId = {j1}
    Expiry <- NoExpiry
    Content <- NoContents
INVARIANTS
    SuccessionSound
    SuccessionLogged
    VerifiersLogged
PROPERTIES
    SuccessionSettles
CHECK_DEADLOCK FALSE
