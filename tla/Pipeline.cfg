SPECIFICATION FairSpec
CONSTANTS
    Messages <- Two
    Passes <- Two
    MaxAttempts = 1
    Uses <- ReadsEpochsClears
INVARIANTS NothingLost
PROPERTIES TextStays ClearTriesEverything EveryMessageIsRead
CHECK_DEADLOCK FALSE
