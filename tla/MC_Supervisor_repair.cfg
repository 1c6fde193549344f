\* Two commands lose their channels with one master.
SPECIFICATION Spec
CONSTANTS
    c1 = c1
    c2 = c2
    Clients <- MCClients
    Maintainer = maintainer
    Kinds <- MCCommands
    Slots = 1
    ConnectionAttempts = 1
    ProbeFailures = 1
    MaxFaults = 1
CHECK_DEADLOCK FALSE
PROPERTY FirstRepairAccepted
