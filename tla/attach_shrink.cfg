SPECIFICATION Spec
CONSTANTS
    r1 = r1
    Readers <- OneReader
    Hints <- SomeHints
    HeaderSize = 1
    SlotHeader = 1
    SlotAlign = 2
    DefaultPayload = 2
    PayloadUnit = 4
    Budget = 16
    MinSlots = 2
    MaxSlots = 4
    Attempts = 2
    MaxFiles = 2
    MaxCreates = 2
    MaxSeq = 3
INVARIANTS AccessInBounds
CHECK_DEADLOCK FALSE
