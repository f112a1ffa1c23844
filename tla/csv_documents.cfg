SPECIFICATION Spec
CONSTANTS
    None = None
    NoCut = NoCut
    Docs <- MCDocs
    Calls <- MCCalls
    Patterns <- MCPatterns
    Entities <- MCEntities
    AllLabels <- MCLabels
    Stores <- MCStores
    Config <- MCConfig
    NonPII <- MCNonPII
    Score <- MCScore
    Watched <- MCWatched
    FieldNames = {"nom", "valeur"}
    Threshold = 88
    MaxDepth = 1
    Subscribers = {s1, s2}
    MaxBuffer = 2
    MaxQueue = 1
    MaxSessions = 2
INVARIANTS BlobsReplaced
CHECK_DEADLOCK FALSE
