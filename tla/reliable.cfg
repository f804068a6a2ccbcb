SPECIFICATION LiveSpec
CONSTANTS
    s1 = s1
    s2 = s2
    c1 = c1
    c2 = c2
    Channels <- TwoChannels
    Reliable <- Crossed
    BestEffort <- Observer
    SlotCount = 2
    MaxRetries = 2
    MaxCommands = 2
    MaxGrow = 1
    MaxRestarts = 1
INVARIANTS TypeOK FiresOnce GiveUpBudget AckedIsHandledOrSuperseded ClearedWasReceived
PROPERTIES EveryCommandSettles
CHECK_DEADLOCK FALSE
