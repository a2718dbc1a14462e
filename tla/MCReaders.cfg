SPECIFICATION Spec
CONSTANTS
    None = None
    PageSize = 2
    MaxLeaves = 8
    c1 = c1
    c2 = c2
    Drafted = {c1, c2}
    Mode = "full"
    MaxDisputes = 1
    MaxDeaths = 1
    MaxGrants = 2
    s1 = s1
    s2 = s2
    Signature = {s1, s2}
    k1 = k1
    k2 = k2
    Key = {k1, k2}
    ClockSkew = 1
    ResponseTtl = 2
    Limit = 2
    Window = 2
    MaxTime = 3
    MaxRestarts = 1
    d1 = d1
    d2 = d2
    d3 = d3
    Payee = {d1, d2}
    w1 = w1
    w2 = w2
    Wallet = {w1, w2}
    Stranger = s
    MinEvidence = 1
    MinTrustScore = 1
    MaxCalls = 1
    GateChurn = 1
    Unknown = u
    NonEvm = ne
    Listed <- SmallList
    CheckChurn = 1
    i1 = i1
    i2 = i2
    Id = {i1, i2}
    DemoAgent = {d1}
    MaxLog = 2
    MaxNav = 2
    MaxRefresh = 1
    q1 = q1
    q2 = q2
    Request = {q1, q2}
    b1 = b1
    b2 = b2
    Body = {b1, b2}
    Requester = me
    Other = other
    j1 = j1
    j2 = j2
    Job = {j1, j2}
    Retries = 1
    HttpCalls = 2
    MaxForeign = 1
    Worker = {d2}
    r1 = r1
    r2 = r2
    Outcome = {r1, r2}
    MaxRunning = 2
    MaxSends = 4
    MaxRepeats = 2
    MaxTree = 2
    Agent = {1, 2, 3, 4}
    MaxRecords = 3
    MaxOpen = 1
    MaxRegistered = 3
    PageLimit = 2
    RawLimit = {2, 4}
    MaxRows = 3
    MaxWalks = 1
    Did = {d1, d2, d3}
    Operator = {d3}
    Verifier = {d3}
    LabelledTask = {}
    PartiesOf <- SmallParties
    MaxMoves = 6
CHECK_DEADLOCK FALSE
INVARIANTS
    NoFalseAlarm
    NothingPassedUnseen
    RetryIsCached
    SignatureBound
    RateBounded
    PaidToProven
    PassMeansProven
    TabTruthful
    SignedForDelivered
    CallsHonoured
    VerdictHeld
    RuntimesAgree
    ListingComplete
    StatsTruthful
PROPERTIES
    HeadsExtend
    LogWalked
