SPECIFICATION NotesFairSpec
CONSTANTS
    list = list
    idea = idea
    Ids <- TwoNotes
    MaxClock = 3
    Rushed = {idea}
    MaxRushed = 2
    MaxFaults = 2
    MaxSyncs = 1
    MaxRestarts = 1
    Ways <- OneAtATime
INVARIANTS WrittenIsShownCalmly DeletedIsGoneCalmly
PROPERTIES TextsStayCalmly
CHECK_DEADLOCK FALSE
