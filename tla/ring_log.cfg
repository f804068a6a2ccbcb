SPECIFICATION LiveSpec
CONSTANTS
    r1 = r1
    Readers <- OneReader
    SlotCount = 3
    Words = 2
    Attempts = 2
    Retries = 2
    MaxEpoch = 1
    MaxSeq = 8
    Ordered = TRUE
INVARIANTS NoTornFrame LossOnlyWhenLapped
PROPERTIES NeverBackwards CatchesUp ImplementsLog
CHECK_DEADLOCK FALSE
