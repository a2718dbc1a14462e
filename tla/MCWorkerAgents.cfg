SPECIFICATION Spec
CONSTANTS
    a1 = a1
    a2 = a2
    heir = heir
    r1 = r1
    r2 = r2
    None = None
    Did = {a1, a2, heir}
    Founders = {a1, a2}
    Operator = a1
    Request = {r1, r2}
    SuccessionWindow = 1
    MaxTime = 1
    MaxLog = 1
SYMMETRY Interchangeable
CHECK_DEADLOCK FALSE
INVARIANTS
    LineageLogged
PROPERTIES
    RetiredForGood
