SPECIFICATION FairSpec
CONSTANTS
    a = a
    b = b
    t1 = t1
    t2 = t2
    u = u
    NoOne = NoOne
    Accounts <- OneAccount
    Texts <- OneText
    Owner <- OwnedBy
    MaxEpoch = 1
    MaxGen = 2
    Apart = TRUE
    Faults = {"network"}
    Intrusions = {"rotation"}
INVARIANTS TextsAreKept KeyIsOfGeneration
PROPERTY BatchesAreDelivered
CHECK_DEADLOCK FALSE
