SPECIFICATION LiveSpec
CONSTANTS
    None = None
    Corrupt = Corrupt
    Refreshers = {r1}
    OAuth = TRUE
    MaxEdits = 2
    MaxOutages = 2
    MaxRestarts = 1
    Events = {"disk_error", "http_error"}
INVARIANTS VersionIsSnapshots BootUsesDisk NotModifiedIsCurrent
PROPERTIES NoRegress Converges
CHECK_DEADLOCK FALSE
