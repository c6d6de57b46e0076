SPECIFICATION FairSpec
CONSTANTS
    u1 = u1
    u2 = u2
    t1 = t1
    t2 = t2
    NoUser = NoUser
    Users <- TwoUsers
    Tasks <- TwoTasks
    Platforms = {"web", "native"}
    MaxTasks = 4
    MaxLogouts = 2
    MaxFailures = 1
    Ways <- AnyWay
INVARIANTS StoreIsOpenCalmly RecordsAreOwnCalmly
PROPERTIES ClearReturnsNatively
CHECK_DEADLOCK FALSE
