SPECIFICATION HostFairSpec
CONSTANTS
    read_max_packets = 2
    MaxArrivals = 5
INVARIANTS
    OneTokenPerCallback
PROPERTIES
    PacketsAreRead
    FinalizeTerminates
