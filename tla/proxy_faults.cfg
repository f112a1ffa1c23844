SPECIFICATION LiveSpec
CONSTANTS
    ann = ann
    bob = bob
    cyd = cyd
    Raw = Raw
    Requests = {r1, r2}
    Values = {ann, bob}
    MaxCache = 2
    MaxTokens = 2
    MaxClears = 0
    Events = {"error", "expire", "mask"}
    Bodies <- Mixed
INVARIANTS NothingHalfAnonymised ConnectionsReleased
PROPERTIES Answered
CHECK_DEADLOCK FALSE
