CONSTANTS
    Jobs = {j1, j2}
    c1 = c1  c2 = c2  k1 = k1  k2 = k2
    Columns = {c1, c2}
    Keys = {k1}
    KeyOf <- Shared
    Regexes = {"r1", "r2"}
    None = None
    MaxAdmin = 1
    Events = {"db_error", "unreachable", "restart", "delete"}
SPECIFICATION Spec
INVARIANTS CancelStops LastScanIsAnOutcome OnlyAdminActivates ProgressTruthful ScansEnd
SYMMETRY Alike
CHECK_DEADLOCK FALSE
