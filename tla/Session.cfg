SPECIFICATION FairSpec
CONSTANTS
    a = a
    b = b
    Accounts <- TwoAccounts
    NoOne = NoOne
    MaxTokens = 2
    MaxCrossed = 1
    Worlds <- Apart
INVARIANTS TokensAreOwn OneSpend
PROPERTY ChangesEnd
CHECK_DEADLOCK FALSE
