SPECIFICATION LiveSpec
CONSTANTS
    u1 = u1
    u2 = u2
    c1 = c1
    c2 = c2
    Users <- OneUser
    Own <- OwnChannel
    Remote <- RemoteChannel
    MaxSeq = 2
    MaxCalls = 3
INVARIANTS TypeOK StopWakesSpin LockedRecvIsSafe ShutdownCloses
PROPERTIES EveryFrameHandled StopEndsThreads
CHECK_DEADLOCK FALSE
