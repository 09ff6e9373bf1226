SPECIFICATION FairSpec
CONSTANTS
    None = None
    Txns = {t1, t2}
    Large = {t1}
    AutoApprove = TRUE
    Reward = 1
    Procs = {p1, p2}
    MaxBalance = 1
    MaxDeaths = 1
    t1 = t1
    t2 = t2
    p1 = p1
    p2 = p2
INVARIANTS
    TypeOK
    RewardIsEarned
    
PROPERTIES
    DueIsDecided
CHECK_DEADLOCK FALSE
