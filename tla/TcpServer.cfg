CONSTANTS
    MaxClients = 2
    Connections = {1, 2}
    KeyHolders = {1}
    ClientTxDepth = 2
    OutboundDepth = 1
    IngressDepth = 1
    MaxSends = 3
    MaxFrames = 1
SPECIFICATION Spec
INVARIANTS
    OnlyKeyHoldersServed
PROPERTIES
    LateIsClosed
    OutboundDrains
