SPECIFICATION FairSpec
CONSTANTS
    MAX_VMS = 2
    MaxFrames = 2
INVARIANTS
    ForwardingIsActivated
    InterfacesOwned
    CleanExit
    SendNeverWaits
    FailureReported
    ActivationFailureHeard
PROPERTIES
    ShutdownTerminates
    ExitsAfterLastVm
    CallsComplete
