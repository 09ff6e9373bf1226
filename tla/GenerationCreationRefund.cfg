SPECIFICATION CreateSpec
CONSTANTS
    None = None
    Deliveries = {d1}
    Processes = {d1}
    Process <- OwnProcess
    Recoverers = {r1}
    Kind = "IMAGE"
    Scopes = {}
    AttemptIds = {a1}
    Expected = 1
    Cost = 1
    MaxExtra = 0
    MaxLease = 2
    Overage = FALSE
    d1 = d1
    r1 = r1
    a1 = a1
INVARIANTS
    NeverOverRefunded
CHECK_DEADLOCK FALSE
