SPECIFICATION SendingFairSpec
CONSTANTS
    t1 = t1
    t2 = t2
    Texts <- TwoTexts
    Places <- PlaceToo
    MaxSends = 2
    MaxVisits = 2
    MaxLoads = 2
    Faults = {"unacked", "load"}
INVARIANT TextsSurvive
PROPERTY SendsSettle
CHECK_DEADLOCK FALSE
