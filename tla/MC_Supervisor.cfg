\* Safety: 2 requests, one operation slot, one fault at any moment.
SPECIFICATION Spec
CONSTANTS
    c1 = c1
    c2 = c2
    Clients <- MCClients
    Maintainer = maintainer
    Kinds <- MCShared
    Slots = 1
    ConnectionAttempts = 1
    ProbeFailures = 2
    MaxFaults = 1
\* Both requests may be answered while the maintenance task waits.
CHECK_DEADLOCK FALSE
INVARIANTS
    TypeOK
    ProbeCountExact
PROPERTIES
    ContractKept
    GoodNewsIsTrue
    HealthyIsCurrent
    SlowMasterKept
    SuccessorSpared
    BackoffRespected
