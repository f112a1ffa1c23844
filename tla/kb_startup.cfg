SPECIFICATION Spec
CONSTANTS
    None = None
    Corrupt = Corrupt
    Refreshers = {}
    OAuth = TRUE
    MaxEdits = 1
    MaxOutages = 1
    MaxRestarts = 1
    Events = {}
INVARIANTS StartupSurvives
CHECK_DEADLOCK FALSE
