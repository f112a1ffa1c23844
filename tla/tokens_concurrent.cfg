SPECIFICATION LiveSpec
CONSTANTS
    Tasks = {t1, t2}
    Values = {ann, bob}
    Labels = {person, org}
    TTL = 1
    MaxCount = 2
    MaxRequests = 3
    Events = {"error", "clear", "time"}
    Evictable = {"mapping", "reverse", "counter"}
    NoJob = NoJob
INVARIANTS NoTokenReuse AlwaysEphemeral
PROPERTIES NoRebinding Implements Forgotten
CHECK_DEADLOCK FALSE
