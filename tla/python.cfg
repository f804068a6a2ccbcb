SPECIFICATION LiveSpec
CONSTANTS
    t1 = t1
    t2 = t2
    Transports <- Both
    Publishers <- Both
    Listeners <- Receiver
    Askers <- Sender
    Options <- OptionEach
    DedupCapacity = 1
    MaxRetries <- Retries
    MaxPublished <- TwoAndOne
INVARIANTS TypeOK HandledOnce
PROPERTIES EnvelopeSettles RequestAnswered
CHECK_DEADLOCK FALSE
