\* A gateway that starts while the one before is still ending.
SPECIFICATION Spec
CONSTANTS
    g1 = g1
    g2 = g2
    m1 = m1
    m2 = m2
    Gateways <- MCGateways
    Masters <- MCMasters
    None = None
    Overlapping = TRUE
INVARIANT EndpointKept
