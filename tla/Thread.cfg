SPECIFICATION ThreadSpec
CONSTANTS
    Toggles <- TwoToggles
    MaxReactions = 3
    MaxLoads = 2
    MaxAttempts = 1
    MaxReconnects = 1
    Ways <- CalmOrNot
INVARIANTS ReactionsAgreeCalmly RecoveredIsShownCalmly NothingIsUnreadCalmly
CHECK_DEADLOCK FALSE
