\* One gateway after the other, and a second one tried beside it.
SPECIFICATION FairSpec
CONSTANTS
    g1 = g1
    g2 = g2
    m1 = m1
    m2 = m2
    Gateways <- MCGateways
    Masters <- MCMasters
    None = None
    Overlapping = FALSE
INVARIANTS
    TypeOK
    EndpointOwned
    SurvivorKept
    MastersAccounted
    StoppedClean
PROPERTY StopEnds
