SPECIFICATION Spec
CONSTANTS
    None = None
    Txs = {t1, t2}
    Buyers = {b1}
    Hooks = {h1, h2}
    Admins = {a1, a2}
    Refunds = {r1}
    Amount = 2
    Credits = 1
    Idempotent = TRUE
    MaxGiven = 2
    MaxBusy = 2
    t1 = t1
    t2 = t2
    b1 = b1
    h1 = h1
    h2 = h2
    a1 = a1
    a2 = a2
    r1 = r1
SYMMETRY Symmetric
INVARIANTS
    TypeOK
    CompletedIsGranted
    DoneIsPaidOut
PROPERTIES
    RefundEndsSubscription
CHECK_DEADLOCK FALSE
