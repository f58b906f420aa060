SPECIFICATION FairSpec
CONSTANTS
    Conn = {x1, x2, x3}
    MaxTasks = 2
INVARIANTS EveryConnectionHasAThread NoThreadAfterShutdown
PROPERTIES TasksDone ShutdownEnds
