SPECIFICATION FairSpec
CONSTANTS
    s1 = s1
    p1 = p1
    p2 = p2
    c1 = c1
    c2 = c2
    c3 = c3
    NoConn = NoConn
    NoServer = NoServer
    Servers <- OneServer
    OAuth <- OneServer
    Callers <- TwoCallers
    Conns <- ThreeConns
    AutoAuth = TRUE
    Crashes = TRUE
    Shutdowns = TRUE
CHECK_DEADLOCK FALSE
INVARIANTS NoOrphan OneConnection CountIsBacked WaitersAreServed
PROPERTIES Answered
