SPECIFICATION DhcpSpec
CONSTANTS
    vm_mac = mac
    vm_ip = vm_ip
    gateway_ip = gateway_ip
    UNSPECIFIED = unspecified
    BROADCAST = broadcast
    old_ip = old_ip
    other_server = other_server
    MaxAbandoned = 3
INVARIANTS
    RefusedOnlyIfObsolete
PROPERTIES
    EventuallyLeased
