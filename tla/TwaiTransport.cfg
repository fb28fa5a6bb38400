CONSTANTS
    Depth = 3
    MaxFrames = 5
    MaxBusOff = 2
SPECIFICATION Spec
CHECK_DEADLOCK FALSE
INVARIANTS
    SlotsConserved
    BusCarriesAccepted
PROPERTIES
    ImplementsChannel
    BusOffIsRecovered
    AcceptedAreCompleted
    ServiceEnds
