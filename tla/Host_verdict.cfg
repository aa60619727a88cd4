SPECIFICATION TrySpec
CONSTANTS
    w1 = w1
    w2 = w2
    None = None
    Away = Away
    k1 = k1
    k2 = k2
INVARIANTS
    NewDeployNewVerdict
CHECK_DEADLOCK FALSE
