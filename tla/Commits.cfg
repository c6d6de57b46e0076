SPECIFICATION FairSpec
CONSTANTS
    phone = phone
    laptop = laptop
    Devices <- Pair
    Founders <- Pair
    Slots <- OneSlot
    Kinds <- AllKinds
    MaxCommits = 2
    MaxMessages = 1
    EagerStarts = FALSE
    EagerTraffic = FALSE
    CrashInProvision = FALSE
INVARIANTS NoFork SuccessMeansStored OffLogIsOwn NoGenerationReuse
PROPERTIES ImplementsGroupLog Converges
CHECK_DEADLOCK FALSE
