CONSTANTS
    Jobs = {"j1"}
    c1 = c1  c2 = c2  k1 = k1  k2 = k2
    Columns = {c1, c2}
    Keys = {k1, k2}
    KeyOf <- Apart
    Regexes = {"r1"}
    None = None
    MaxAdmin = 1
    Events = {}
SPECIFICATION Spec
PROPERTIES ActiveLeftAlone
CHECK_DEADLOCK FALSE
