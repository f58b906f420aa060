SPECIFICATION Spec
CONSTANTS
    MaxMsgs = 2
    MaxReady = 3
INVARIANT DestroyedStopped
