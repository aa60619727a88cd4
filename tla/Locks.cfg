SPECIFICATION MCSpec
CONSTANTS
    master = master
    worker = worker
    peer = peer
    heir = heir
    m = m
    a = a
    b = b
    c = c
    d = d
    w1 = w1
    w2 = w2
    r1 = r1
    Nobody = Nobody
    Writers = {w1, w2}
    Readers = {r1}
    Words = {1, 2}
    Values = {1, 2}
    SeqAttempts = 2
    MaxVersion = 4
    MaxStops = 1
    Procs = {master, worker, peer, heir}
    Master = master
    Threads = {m, a, c, d}
    ProcOf <- MCProcOf
    PidOf <- MCPidOf
    Limit = 1
    MaxDeaths = 1
INVARIANTS
    Exclusion
    
PROPERTIES
    WaitsEnd
