SPECIFICATION Spec
CONSTANTS
    ann = ann
    bob = bob
    cyd = cyd
    Raw = Raw
    Requests = {r1, r2}
    Values = {ann, bob, cyd}
    MaxCache = 2
    MaxTokens = 3
    MaxClears = 1
    Events = {}
    Bodies <- ThreeTexts
SYMMETRY Symmetry
INVARIANTS NoMisattribution HashCacheTruthful ConsistentStream HashCacheBounded
CHECK_DEADLOCK FALSE
