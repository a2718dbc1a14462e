SPECIFICATION Spec
CONSTANTS
    requester = requester
    worker = worker
    rival = rival
    heir = heir
    j1 = j1
    o1 = o1
    o2 = o2
    None = None
    Did = {requester, worker, rival}
    Founders = {requester, worker, rival}
    Operator = requester
    SuccessionWindow = 2
    DisputeWindow = 1
    MaxTime = 1
    MaxLog = 0
    JobId = {j1}
    Expiry <- MCExpiry
    Content <- JobContents
SYMMETRY OutputsAlike
INVARIANTS
    TypeOK
    LogFaithful
    JobFollowsReceipt
PROPERTIES
    OutcomeIsFinal
CHECK_DEADLOCK FALSE
