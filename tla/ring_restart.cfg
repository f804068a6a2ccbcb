SPECIFICATION LiveSpec
CONSTANTS
    r1 = r1
    Readers <- OneReader
    SlotCount = 2
    Words = 2
    Attempts = 2
    Retries = 2
    MaxEpoch = 2
    MaxSeq = 3
    Ordered = FALSE
INVARIANTS TypeOK
PROPERTIES CursorConverges
CHECK_DEADLOCK FALSE
