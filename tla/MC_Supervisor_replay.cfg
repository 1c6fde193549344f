\* The replay of a command, with the same bounds.
SPECIFICATION Spec
CONSTANTS
    c1 = c1
    c2 = c2
    Clients <- MCClients
    Maintainer = maintainer
    Kinds <- MCReplay
    Slots = 1
    ConnectionAttempts = 2
    ProbeFailures = 2
    MaxFaults = 1
\* Both requests may be answered while the maintenance task waits.
CHECK_DEADLOCK FALSE
PROPERTY
    ContractKept
