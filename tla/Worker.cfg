SPECIFICATION Spec
CONSTANTS
    None = None
    Conns = {c1, c2}
    Scripts <- MCScripts
    Modes = {"worker", "request"}
    Tls = TRUE
    JobCap = 1
    BodyCap = 1
    DeferCap = 1
    MaxConnections = 2
    RecycleAfter = 2
INVARIANTS
    RequestsDoNotBleed
    FailuresAreVisible
PROPERTIES
    EveryRequestSettles
CHECK_DEADLOCK FALSE
