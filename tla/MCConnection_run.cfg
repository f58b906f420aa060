SPECIFICATION FairSpec
CONSTANTS
    MaxMsgs = 2
    MaxReady = 2
INVARIANTS OneWriteOutstanding TimeoutsArmed NoDeliveryOnceClosed
PROPERTIES ReadsEnd NoLeak
