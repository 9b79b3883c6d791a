SPECIFICATION Spec
CONSTANTS
    m1 = m1
    m2 = m2
    n1 = n1
    n2 = n2
    t1 = t1
    t2 = t2
    Mac <- MCMac
    Name <- MCName
    Thread <- MCThread
    NoMac = NoMac
    NoName = NoName
    MaxLines = 4
SYMMETRY Symmetry
INVARIANT TypeOK
PROPERTY NameReachesLastHeard
