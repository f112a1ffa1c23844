SPECIFICATION Spec
CONSTANTS
    Callers = {c1, c2}
    Ttl = 4
    Refresh = 2
    Delay = 1
    MaxClock = 8
    MaxRevoke = 1
    Setups <- MCSetups
INVARIANTS TypeOK OneFetch ExpiredOnlyAfterFailure RevocationEnds NoClearByFailure
PROPERTIES ReplacedOnlyWhenDue CallsEnd
