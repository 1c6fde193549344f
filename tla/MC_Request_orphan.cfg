\* A session that is left alive by the second of two cancellations.
SPECIFICATION Spec
CONSTANTS
    r1 = r1
    Requests <- MCRequests
    MaxSessions = 1
    Limit = 1
    MaxOutput = 3
CHECK_DEADLOCK FALSE
INVARIANT
    CancelledGroupEnds
