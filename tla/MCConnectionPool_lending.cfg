SPECIFICATION FairSpec
CONSTANTS
    x1 = x1
    x2 = x2
    Client = {k1, k2, k3, k4}
    Conn <- TwoConns
    Order <- OrderOfTwo
    NoConn = NoConn
    MayThrow = TRUE
INVARIANTS Exclusive NoIdleWhileWaiting
PROPERTIES PromiseKept Served
