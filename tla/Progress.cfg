SPECIFICATION FairSpec
CONSTANTS
    m1 = m1
    m2 = m2
    a = a
    b = b
    a1 = a1
    b1 = b1
    c1 = c1
    c2 = c2
    t1 = t1
    t2 = t2
    r1 = r1
    r2 = r2
    Server = Server
    None = None
PROPERTIES
    BegunEnds
CHECK_DEADLOCK FALSE
