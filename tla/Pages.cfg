SPECIFICATION MCSpec
CONSTANTS
    w1 = w1
    w2 = w2
    a1 = a1
    a2 = a2
    b1 = b1
    appA = appA
    appB = appB
    t1 = t1
    t2 = t2
    t3 = t3
    v1 = v1
    v2 = v2
    NoText = NoText
    Workers = {w1, w2}
    Keys = {a1, a2, b1}
    Tags = {t1, t2, t3}
    AppOf <- MCAppOf
    N = 2
    TagN = 2
    Probe = 2
    Home <- MCHome
    TagHome <- MCTagHome
    MaxTags = 1
    Requests <- MCRequests
    Presets <- MCPresets
    TagPresets <- MCTagPresets
    Stamps = {v1, v2}
    MaxTime = 3
    MaxCalls = 3
    MaxRestarts = 1
SYMMETRY Alike
INVARIANTS
    FormsAreRead
    
PROPERTIES
    
    PagesAreFound
CHECK_DEADLOCK FALSE
