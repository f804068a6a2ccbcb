SPECIFICATION LiveSpec
CONSTANTS
    c1 = c1
    c2 = c2
    h1 = h1
    h2 = h2
    small = small
    large = large
    Subscribed <- TwoChannels
    Handlers <- TwoHandlers
    Values <- SmallAndLarge
    Size <- Sizes
    MaxQueue = 1
    MaxReaders = 2
    MaxSeq <- Frames
    MaxHandles = 2
    MaxSends = 3
INVARIANTS TypeOK QueueHoldsNewest PollUsesOpenReaders DedupKeepsNewest
PROPERTIES NewestArrives
CHECK_DEADLOCK FALSE
