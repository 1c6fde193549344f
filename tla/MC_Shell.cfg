\* Losses, changing states of the gateway, and stops, at any moment.
SPECIFICATION FairSpec
INVARIANTS
    TypeOK
    GoodNewsTold
PROPERTIES
    Reattaches
    StopEnds
