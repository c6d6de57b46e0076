SPECIFICATION PreferencesFairSpec
CONSTANTS
    ann = ann
    bob = bob
    NoUser = NoUser
    Users <- Both
    MaxClock = 3
    MaxFailures = 1
    MaxStarts = 2
    Uses <- Some
INVARIANTS SettingsArriveCalmly EmbedsAreChosenCalmly
PROPERTIES ChoiceIsDeclaredCalmly
CHECK_DEADLOCK FALSE
