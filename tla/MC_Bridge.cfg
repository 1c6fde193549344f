\* Kills, replaced masters and failing control commands.
SPECIFICATION FairSpec
CONSTANTS
    s1 = s1
    s2 = s2
    s3 = s3
    Sessions <- MCSessions
    NoSession = NoSession
    MaxDelay = 3
    MaxFaults = 2
INVARIANTS
    TypeOK
    ListenerAccounted
PROPERTIES
    OrphansEnd
    ServiceRestored
    StopHeard
