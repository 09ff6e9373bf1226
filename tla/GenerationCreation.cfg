SPECIFICATION CreateSpec
CONSTANTS
    None = None
    Deliveries = {d1}
    Processes = {d1}
    Process <- OwnProcess
    Recoverers = {r1}
    Kind = "CHAT"
    Scopes = {m, q}
    AttemptIds = {a1}
    Expected = 0
    Cost = 1
    MaxExtra = 0
    MaxLease = 2
    Overage = TRUE
    d1 = d1
    r1 = r1
    a1 = a1
    m = m
    q = q
SYMMETRY Symmetric
INVARIANTS
    CreationTypeOK
    SuccessIsPaid
    OverRefundIsBounded
PROPERTIES
    ClosedHoldsNothing
    
CHECK_DEADLOCK FALSE
