SPECIFICATION FairSpec
CONSTANTS
    Users = {u1, u2}
    MaxRuns = 1
    Rounds = 2
    MaxStalls = 1
    LateDeath = FALSE
    u1 = u1
    u2 = u2
INVARIANTS
    TypeOK
    

    
    
CHECK_DEADLOCK FALSE
