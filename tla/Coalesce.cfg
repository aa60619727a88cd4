SPECIFICATION Spec
CONSTANTS
    k1 = k1
    k2 = k2
    s1 = s1
    r1 = r1
    r2 = r2
    r3 = r3
    None = None
    Requests = {r1, r2, r3}
    Keys = {k1, k2}
    Slots = {s1}
    SlotOf <- MCSlotOf
    COALESCE_TTL = 2
    COALESCE_WAIT = 1
    Wants <- MCWants
    Lookups <- MCLookups
    Faults = {"reject", "cancel", "fail"}
    LastArrival = 2
PROPERTIES
    FollowersAreFed
    EveryRequestIsAnswered
CHECK_DEADLOCK FALSE
