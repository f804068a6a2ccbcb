SPECIFICATION LiveSpec
CONSTANTS
    r1 = r1
    r2 = r2
    Waiters <- OneWaiter
    Multi <- OneMulti
    SlotCount = 2
    WordMod = 3
    MaxEpoch = 2
    MaxSeq = 3
INVARIANTS TypeOK CountIsExact SleeperIsWoken
PROPERTIES EveryFrameSeen
CHECK_DEADLOCK FALSE
