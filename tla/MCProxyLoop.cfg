SPECIFICATION LoopSpec
CONSTANTS
    Burst = 3
    HostBatch = 2
    MaxQueue = 3
INVARIANTS
    DisconnectIsClean
PROPERTIES
    NoBranchStarves
    DisconnectNoticed
