SPECIFICATION MCSpec
CONSTANTS
    w1 = w1
    w2 = w2
    a1 = a1
    b1 = b1
    appA = appA
    appB = appB
    box1 = box1
    box2 = box2
    NoRow = NoRow
    Shared = Shared
    a = a
    u = u
    v = v
    Big = Big
    Workers = {w1, w2}
    Keys = {a1, b1}
    AppOf <- MCAppOf
    N <- MCN
    Probe = 2
    Home <- MCHome
    Top = 2
    Requests <- MCRequests
    Presets <- MCPresets
    MaxTime = 3
    MaxCalls = 3
SYMMETRY Alike
INVARIANTS
    DeletedKeysAreGone
    
PROPERTIES
    KeysStay
    UpdatesAreAtomic
CHECK_DEADLOCK FALSE
