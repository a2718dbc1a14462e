SPECIFICATION Spec
CONSTANTS
    requester = requester
    worker = worker
    rival = rival
    heir = heir
    j1 = j1
    o1 = o1
    o2 = o2
    None = None
    Did = {requester, worker, rival}
    Founders = {requester, worker, rival}
    Operator = requester
    SuccessionWindow = 2
    DisputeWindow = 3
    MaxTime = 8
    MaxLog = 0
    JobId = {j1}
    Expiry <- NoExpiry
    Content <- DisputeContents
INVARIANTS
    LogOnce
    HostageBound
    OpenerUnspent
PROPERTIES
    AuditedLifecycle
CHECK_DEADLOCK FALSE
