SPECIFICATION Spec
CONSTANTS
    AddrBits = 2
    U16_MAX = 3
    MAX_RULES = 3
    gateway_ip = 1
    peer_ips = {2}
INVARIANTS
    DocumentedPrecedence
    UnknownPortsEvadeNothing
    DefaultDeny
    ReadBackUnchanged
CHECK_DEADLOCK FALSE
