SPECIFICATION LiveSpec
CONSTANTS
    p1 = p1
    p2 = p2
    Senders <- Processes
    Hash <- Hashes
    HashXor <- XorBits
    MaxSeqno = 1
    Fragments = 2
    MaxDup = 1
    MaxRetries <- Retries
    Sizes <- DataSizes
    DedupCapacity = 1
    MaxHandlers = 2
INVARIANTS TypeOK HandledOnce HandledWhole
PROPERTIES PendingSettles
CHECK_DEADLOCK FALSE
