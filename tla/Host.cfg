SPECIFICATION MCSpec
CONSTANTS
    w1 = w1
    w2 = w2
    None = None
    Away = Away
    k1 = k1
    k2 = k2
INVARIANTS
    OneEntryPerName
    
    
    CertificatesHold
    
    RollsOnlyWhatWasTried
    RatesAreKept
    AppsAreApart
PROPERTIES
    RingsAreKept
SYMMETRY Alike
CHECK_DEADLOCK FALSE
