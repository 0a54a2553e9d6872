\* two threads and two channels; no symmetry, as liveness is among the
\* properties.  The times are overdue and one or two ticks ahead
SPECIFICATION FairSpec
CONSTANTS
    r1 = r1
    r2 = r2
    r3 = r3
    Reasons <- ThreeReasons
    NumCookies = 2
    Times <- OverdueOrAhead
    BUCKET_MS = 2
    LastRequest = 4
    LastTime = 8
    MaxCommands = 3
INVARIANTS
    OneToken
    CancelsOwnWake
PROPERTIES
    ImplementsAlarmClock
    EveryCookieReturns
CHECK_DEADLOCK FALSE
