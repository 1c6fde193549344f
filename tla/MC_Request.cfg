\* One request: three chunks of output where one is kept.
SPECIFICATION FairSpec
CONSTANTS
    r1 = r1
    Requests <- MCRequests
    MaxSessions = 1
    Limit = 1
    MaxOutput = 3
\* A gateway that has ended does nothing more.
CHECK_DEADLOCK FALSE
INVARIANTS
    TypeOK
    SessionsCovered
    OutputExact
PROPERTIES
    InterruptedEnds
    StopEnds
