SPECIFICATION LiveSpec
CONSTANTS
    t1 = t1
    t2 = t2
    Transports <- Alone
    Publishers <- Alone
    Listeners <- Alone
    Askers <- Alone
    Options <- BothOptions
    DedupCapacity = 2
    MaxRetries <- Twice
    MaxPublished <- One
PROPERTIES RequestAnswered
CHECK_DEADLOCK FALSE
