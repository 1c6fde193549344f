\* Both budgets, two gateways one after the other, three operations, two bridges, two probes.
SPECIFICATION FairSpec
CONSTANTS
    o1 = o1
    o2 = o2
    o3 = o3
    b1 = b1
    b2 = b2
    r1 = r1
    r2 = r2
    Ops <- MC_Ops
    Bridges <- MC_Bridges
    Probers <- MC_Probers
    Limits <- MC_Limits
    MaxStarts = 2
INVARIANTS
    TypeOK
    SessionsWithinBudget
    BridgesLeaveRoom
    ProbesWaitForProbesOnly
PROPERTIES
    ArrivalOrder
    OperationAdmitted
