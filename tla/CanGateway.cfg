CONSTANTS
    RxDepth = 1
    IngressDepth = 2
    MonitorDepth = 2
    MaxBus = 1
    MaxWireless = 3
SPECIFICATION Spec
INVARIANTS
    ReplyFollowsCause
    HandledInOrder
PROPERTIES
    ImplementsChannel
    AcceptedIsHandled
