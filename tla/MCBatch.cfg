SPECIFICATION Spec
CONSTANTS
    AddrBits = 6
    U16_MAX = 3
    Process = {p1, p2}
    private_subnets <- MCPrivate
    SUBNET_PREFIX_LEN = 3
    MAX_VMS = 5
    DHCP_SERVER_MAC = 0
    Foreign <- MCForeign
    Requests <- MCRequests
INVARIANTS
    OverlapIsRace
    AddressesSeparate
    NamesResolve
    ViewsAgree
