\* Any sequence of commands for two hosts, cut short anywhere.
SPECIFICATION Spec
CONSTANTS
    h1 = h1
    h2 = h2
    Hosts <- MCHosts
    None = None
INVARIANTS
    TypeOK
    AgentsAccounted
    UninstallClean
