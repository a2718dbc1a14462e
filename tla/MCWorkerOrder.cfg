SPECIFICATION Spec
CONSTANTS
    requester = requester
    worker = worker
    job = job
    o1 = o1
    o2 = o2
    r1 = r1
    r2 = r2
    None = None
    Did = {requester, worker}
    JobId = {job}
    Content <- OneContent
    Request = {r1, r2}
    DisputeWindow = 1
    MaxTime = 0
    MaxLog = 4
    CanFail = FALSE
SYMMETRY Interchangeable
CHECK_DEADLOCK FALSE
INVARIANTS
    LogInOrder
