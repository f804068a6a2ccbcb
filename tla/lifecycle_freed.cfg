SPECIFICATION Spec
CONSTANTS
    u1 = u1
    u2 = u2
    c1 = c1
    c2 = c2
    Users <- OneUser
    Own <- OwnChannel
    Remote <- RemoteChannel
    MaxSeq = 1
    MaxCalls = 3
INVARIANTS EntriesOutliveUse
CHECK_DEADLOCK FALSE
