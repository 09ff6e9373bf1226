SPECIFICATION Spec
CONSTANTS
    None = None
    Deliveries = {d1, d2}
    Processes = {d1, d2}
    Process <- OwnProcess
    Recoverers = {r1}
    Kind = "CHAT"
    Scopes = {m, q}
    AttemptIds = {a1}
    Expected = 0
    Cost = 1
    MaxExtra = 1
    MaxLease = 3
    d1 = d1
    d2 = d2
    r1 = r1
    a1 = a1
    m = m
    q = q
SYMMETRY Symmetric
INVARIANTS
    OutcomeMatchesMoney
    MoneyIsWhole
    NeverOverRefunded
    RequeuedIsReplayable
PROPERTIES
    ImplementsContract
    CallsArePaidFor
    FinalIsFinal
CHECK_DEADLOCK FALSE
