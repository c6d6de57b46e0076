SPECIFICATION FairSpec
CONSTANTS
    chat = chat
    group = group
    Convs <- TwoConvs
    Archived <- OneArchived
    Target = 2
    Threshold = 1
    Callers = {1, 2}
    MaxMinted = 6
    MaxFaults = 1
    Ways <- Harm
INVARIANT WelcomesAreJoinableIfKept
PROPERTIES NewDeviceJoinsCalmly RevokedLeaves
CHECK_DEADLOCK FALSE
