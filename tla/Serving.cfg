SPECIFICATION Spec
CONSTANTS
    m1 = m1
    m2 = m2
    m3 = m3
    i1 = i1
    i2 = i2
    n1 = n1
    n2 = n2
    r1 = r1
    r2 = r2
    None = None
INVARIANTS
    TypeOK
    
    EngineAsConfigured
    
    NoticesAreFollowed
    
PROPERTIES
    
    SpreadFits
CHECK_DEADLOCK FALSE
