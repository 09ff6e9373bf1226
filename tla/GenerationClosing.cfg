SPECIFICATION FairSpec
CONSTANTS
    None = None
    Deliveries = {d1}
    Processes = {d1}
    Process <- OwnProcess
    Recoverers = {r1}
    Kind = "CHAT"
    Scopes = {m}
    AttemptIds = {a1}
    Expected = 0
    Cost = 1
    MaxExtra = 1
    MaxLease = 2
    d1 = d1
    r1 = r1
    a1 = a1
    m = m
PROPERTIES
    FailedIsMadeWhole
CHECK_DEADLOCK FALSE
