SPECIFICATION Spec
CONSTANTS
    MaxSubs = 2
    MaxOrders = 2
    MaxAttempts = 2
    MaxTime = 3
    MaxTroubles = 1
    Period = 2
    Remind = 1
    Grace = 0
PROPERTIES
    ExtensionIsPaidFor
CHECK_DEADLOCK FALSE
