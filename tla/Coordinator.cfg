SPECIFICATION FairSpec
CONSTANTS
    c1 = c1
    c2 = c2
    c3 = c3
    Calls = {c1, c2, c3}
    Timers <- TwoTimers
    Uses <- AllUses
    Beginnings = {"new", "member", "forked", "invited"}
    MaxEpoch = 3
    MaxAttempts = 3
    MaxCommitFailures = 3
    MaxDecryptionFailures = 3
INVARIANT OneInitialization
PROPERTIES RecoverySparesGoodGroups TransitionsSettle DecryptReturns
CHECK_DEADLOCK FALSE
