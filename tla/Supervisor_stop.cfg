SPECIFICATION Spec
CONSTANTS
    Web = 1
    QueueMin = 0
    QueueMax = 1
    Others = 0
    GiveUpAt = 2
    MaxReloads = 0
    MaxEvents = 1
PROPERTIES
    MasterExits
CHECK_DEADLOCK FALSE
