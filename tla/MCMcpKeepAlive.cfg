SPECIFICATION FairSpec
CONSTANTS
    s1 = s1
    p1 = p1
    p2 = p2
    c1 = c1
    c2 = c2
    c3 = c3
    NoConn = NoConn
    NoServer = NoServer
    Servers <- OneServer
    OAuth <- OneServer
    Callers <- OneCaller
    Conns <- TwoConns
    AutoAuth = FALSE
    Crashes = TRUE
    Shutdowns = FALSE
CHECK_DEADLOCK FALSE
PROPERTIES KeptAlive
