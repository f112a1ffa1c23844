SPECIFICATION Spec
CONSTANTS
    ann = ann
    bob = bob
    cyd = cyd
    Raw = Raw
    Requests = {r1, r2, r3}
    Values = {ann, bob}
    MaxCache = 2
    MaxTokens = 2
    MaxClears = 0
    Events = {"expire"}
    Bodies <- TwoTexts
SYMMETRY Symmetry
INVARIANTS NoMisattribution
CHECK_DEADLOCK FALSE
