SPECIFICATION Spec
CONSTANTS
    None = None
    a1 = a1
    a2 = a2
    a3 = a3
    r1 = r1
    r2 = r2
    Did = {a1, a2, a3}
    Pair = {a1, a2}
    Involved = {a1}
    Request = {r1, r2}
    MaxTime = 1
    Challengeable = {"evm_wallet", "erc8004_id"}
    Derived = {"erc8004_id"}
    Endpoint = "a2a_endpoint"
    Key = {"key1", "key2"}
    Value = {"value1"}
    ChallengeId = {c1, c2}
    LinkChallengeTtl = 0
    KeyId = {c1, c2}
    FreeTierCalls = 2
    MaxActiveKeys = 1
    MaxLost = 1
    Receipt = {c1, c2, c3}
    DemoReceiptsPerAgent = 1
    DemoTaskTtl = 0
    Expiry = {0, 9}
    NoExpiry = 9
    Agent = {1, 2, 3, 4}
    MaxRecords = 4
    MaxOpen = 1
    MaxRegistered = 3
    Buyer = a1
    Seller = a2
    Auditor = {a3}
    Stranger = s
SYMMETRY Interchangeable
CHECK_DEADLOCK FALSE
INVARIANTS
    SecondDecisionOverlaps
    RetiredSwayNothing
    ProofBacksLink
    CallsAccounted
    DemoBounded
    AcceptanceBacked
    ShownToEntitled
PROPERTIES
    SuccessionNeutral
