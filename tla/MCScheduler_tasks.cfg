SPECIFICATION FairSpec
CONSTANTS
    Deferred = {d}
    Interval = {i}
    Wrapped = {d}
    Millis = {10, 20}
    MaxReady = 2
INVARIANTS IntervalInForce
PROPERTIES CancelIsFinal IntervalGoesOn CancelAnswered Reclaimed
