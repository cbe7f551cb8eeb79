SPECIFICATION Spec
CONSTANTS
    AddrBits = 3
    U16_MAX = 5
    MAX_FLOWS = 2
    SWEEP_INTERVAL = 2
    SYN_TIMEOUT = 1
    TCP_TIMEOUT = 2
    UDP_TIMEOUT = 1
    ECHO_TIMEOUT = 1
    vm_ip <- MCvm_ip
    gateway_ip <- MCgateway_ip
    peer_ips <- MCpeer_ips
    vm_mac_address = "vm"
    GlobalAddrs <- MCGlobalAddrs
    HasDns = TRUE
    SERVER_PORT = 3
    CLIENT_PORT = 4
    DNS_PORT = 5
    VmFrames <- MCVmFrames
    HostFrames <- MCHostFrames
    Policies <- MCPolicies
    MaxTime = 3
INVARIANTS
    FlowsAuthorised
    GarbageBounded
    RequestsAnswerable
    DhcpStaysLocal
PROPERTY
    ImplementsPermits
