SPECIFICATION Spec
CONSTANTS
    None = None
    Deliveries = {d1, d2}
    Processes = {p1}
    Process <- SharedProcess
    Recoverers = {r1}
    Kind = "IMAGE"
    Scopes = {}
    AttemptIds = {a1}
    Expected = 0
    Cost = 1
    MaxExtra = 0
    MaxLease = 3
    d1 = d1
    d2 = d2
    r1 = r1
    a1 = a1
    p1 = p1
INVARIANTS
    CapturedIsNeverRefunded
CHECK_DEADLOCK FALSE
