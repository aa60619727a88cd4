SPECIFICATION Spec
CONSTANTS
    Web = 2
    QueueMin = 0
    QueueMax = 1
    Others = 0
    GiveUpAt = 2
    MaxReloads = 2
    MaxEvents = 2
INVARIANTS
    RollIsOneByOne
    NoChildIsForgotten
PROPERTIES
    GateHolds
    
    
CHECK_DEADLOCK FALSE
