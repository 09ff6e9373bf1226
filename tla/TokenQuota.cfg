SPECIFICATION Spec
CONSTANTS
    Generations = {g1, g2}
    Calls = {c1}
    NScopes = 2
    Granted <- MonthAndDay
    Units = 1
    Overage = TRUE
    MaxSafe = 3
    MaxUsage = 2
    g1 = g1
    g2 = g2
    c1 = c1
SYMMETRY Symmetric
INVARIANTS
    TypeOK
    QuotaNeverOverdrawn
    CountersAddUp
    ScopesAgree
    
CHECK_DEADLOCK FALSE
