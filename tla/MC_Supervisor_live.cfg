\* Liveness: 2 requests that need the slot, the lock and probes, one fault.
SPECIFICATION FairSpec
CONSTANTS
    c1 = c1
    c2 = c2
    Clients <- MCClients
    Maintainer = maintainer
    Kinds <- MCCompeting
    Slots = 1
    ConnectionAttempts = 1
    ProbeFailures = 1
    MaxFaults = 1
CHECK_DEADLOCK FALSE
PROPERTIES
    EveryRequestAnswered
    ConnectionRecovers
