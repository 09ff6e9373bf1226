SPECIFICATION Spec
CONSTANTS
    None = None
    Deliveries = {d1, d2}
    Processes = {d1, d2}
    Process <- OwnProcess
    Recoverers = {r1}
    Kind = "IMAGE"
    Scopes = {}
    AttemptIds = {a1, a2}
    Expected = 2
    Cost = 1
    MaxExtra = 0
    MaxLease = 3
    d1 = d1
    d2 = d2
    r1 = r1
    a1 = a1
    a2 = a2
SYMMETRY Symmetric
INVARIANTS
    TypeOK
    OutcomeMatchesMoney
    OneBillableAttempt
    ChargedIsDelivered
    BooksMatchMoney
PROPERTIES
    ImplementsContract
CHECK_DEADLOCK FALSE
