SPECIFICATION FairSpec
CONSTANTS
    phone = phone
    laptop = laptop
    Devices <- Pair
    Invites <- EachOther
    MaxStates = 5
    MaxRounds = 2
    Takeover = FALSE
    CatchUpMayMiss = FALSE
    CallsMayIntrude = FALSE
INVARIANTS ReadyIsStored OneFounder
PROPERTIES MarkersResolve
CHECK_DEADLOCK FALSE
