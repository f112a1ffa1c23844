SPECIFICATION Spec
CONSTANTS
    Capitals = {"P", "Q"}
    Digits = {"1", "2"}
    Others = {"x", "v", "w"}
    Messages <- Replies
    Snapshot <- SnapshotP
    Late <- LateQ
    MaxDelta = 3
    Events = {"error", "clear", "break"}
INVARIANTS TypeOK CutsInvisible NothingWithheld SyntheticOnLastText
CHECK_DEADLOCK FALSE
