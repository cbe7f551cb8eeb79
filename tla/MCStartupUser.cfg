SPECIFICATION StartupSpec
CONSTANTS
    Process = {p1, p2}
    Users <- MCUsers
    LeaseBits = 4
    Leases <- MCLeases
INVARIANTS
    UserArgumentAccepted
