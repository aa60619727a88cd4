SPECIFICATION MCSpec
CONSTANTS
    None = None
    t1 = t1
    t2 = t2
    b1 = b1
    p1 = p1
    p2 = p2
    browser = browser
    echo = echo
    open = open
    private = private
SYMMETRY Alike
INVARIANTS
    
    
    EventsAreDelivered
CHECK_DEADLOCK FALSE
