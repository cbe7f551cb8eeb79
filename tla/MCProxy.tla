------------------------------ MODULE MCProxy ------------------------------
(***************************************************************************)
(* Model checking of the packet filter: a VM with one private peer         *)
(* network, one global address and its gateway, and a handful of policies  *)
(* that differ in what they say of the two directions.                     *)
(***************************************************************************)
EXTENDS Proxy

MCvm_ip == 2
MCgateway_ip == 1
MCpeer_ips == {3}
MCGlobalAddrs == {6}

Private == 4
Global == 6

P(addr, len) == PrefixTarget([addr |-> addr, len |-> len])
F(protocol, start, end) ==
    [protocol |-> protocol, destination_port_range |-> [start |-> start, end |-> end]]
PolicyOf(a, b) == [allow |-> a, block |-> b]

All == P(0, 0)

\* Bare policies, a policy that opens both directions, and policies that open
\* one direction and close the other.
\* The last two are one policy: <<5, 2>> and <<4, 2>> are the same prefix.
MCPolicies ==
    { PolicyOf({}, {}),
      PolicyOf({Stateless(HostTarget)}, {Everywhere}),
      PolicyOf({Stateful("In", P(4, 2), DefaultFilter), Stateful("Out", P(4, 2), DefaultFilter)}, {}),
      PolicyOf({Stateful("In", P(4, 2), F("Udp", 2, 2)), Stateful("In", P(4, 2), F("Tcp", 2, 2))},
             {Stateful("Out", All, DefaultFilter)}),
      PolicyOf({}, {Stateful("In", P(6, 2), DefaultFilter), Stateful("Out", P(4, 2), F("Udp", 1, 1)),
                  Stateful("Out", P(4, 2), F("Tcp", 1, 1)), Stateful("Out", P(4, 2), F("Icmp", 0, 0))}),
      PolicyOf({Stateful("Out", P(4, 2), DefaultFilter)},
             {Stateful("In", All, DefaultFilter)}),
      PolicyOf({Stateful("Out", P(5, 2), DefaultFilter)},
             {Stateful("In", All, DefaultFilter)}) }

Packet(src, dst, protocol, sport, dport, kind, app) ==
    [src |-> src, dst |-> dst, next_header |-> protocol, frag |-> "Whole", header |-> "Ok",
     src_port |-> sport, dst_port |-> dport, ident |-> 0, kind |-> kind, app |-> app]
Fragment(pkt) == [pkt EXCEPT !.frag = "First"]

Ipv4(pkt) == [ethertype |-> "Ipv4", src_mac |-> "vm", valid |-> TRUE, options |-> FALSE, pkt |-> pkt]
Arp(spa) == [ethertype |-> "Arp", src_mac |-> "vm", valid |-> TRUE, operation |-> "Request",
             source_hardware_addr |-> "vm", source_protocol_addr |-> spa]

\* Traffic between the VM's port 2 and port 1 of the others, in both directions
UdpOut(dst) == Packet(MCvm_ip, dst, "Udp", 2, 1, "Plain", "Data")
UdpIn(src) == Packet(src, MCvm_ip, "Udp", 1, 2, "Plain", "Data")
TcpOut(kind) == Packet(MCvm_ip, Private, "Tcp", 2, 1, kind, "Data")
TcpIn(kind) == Packet(Private, MCvm_ip, "Tcp", 1, 2, kind, "Data")
EchoOut(kind) == Packet(MCvm_ip, Private, "Icmp", 0, 0, kind, "Data")
EchoIn(kind) == Packet(Private, MCvm_ip, "Icmp", 0, 0, kind, "Data")

\* Packets that open flows and packets that answer them, frames that never reach
\* the flow table, and malformed ones that do
MCVmFrames ==
    {Ipv4(UdpOut(dst)) : dst \in {Private, Global}}
    \cup {Ipv4(TcpOut(kind)) : kind \in {"Syn", "Plain"}}
    \cup {Ipv4(EchoOut(kind)) : kind \in {"EchoRequest", "EchoReply"}}
    \cup { Arp(MCvm_ip), Arp(3), [ethertype |-> "Other", src_mac |-> "vm"],
      [Ipv4(UdpOut(Global)) EXCEPT !.src_mac = "other"], [Ipv4(UdpOut(Global)) EXCEPT !.valid = FALSE],
      [Ipv4(UdpOut(Global)) EXCEPT !.options = TRUE],
      Ipv4([UdpOut(Global) EXCEPT !.src = 3]), Ipv4(Fragment(UdpOut(Private))),
      Ipv4([UdpOut(Global) EXCEPT !.header = "Truncated"]),
      Ipv4([TcpOut("Syn") EXCEPT !.src_port = 0]), Ipv4(EchoOut("Plain")),
      Ipv4(Packet(UNSPECIFIED, BROADCAST, "Udp", 4, 3, "Plain", "Dhcp")),
      Ipv4(Fragment(Packet(MCvm_ip, Global, "Udp", 4, 3, "Plain", "Data"))),
      Ipv4(Packet(MCvm_ip, MCgateway_ip, "Udp", 2, 5, "Plain", "Dns")),
      Ipv4(Packet(MCvm_ip, MCgateway_ip, "Udp", 2, 5, "Plain", "Data")) }
MCHostFrames ==
    {Ipv4(UdpIn(src)) : src \in {Private, Global}}
    \cup {Ipv4(TcpIn(kind)) : kind \in {"Syn", "Plain"}}
    \cup {Ipv4(EchoIn(kind)) : kind \in {"EchoRequest", "EchoReply"}}
    \cup { Arp(Private), [ethertype |-> "Other", src_mac |-> "host"],
      [Ipv4(UdpIn(Global)) EXCEPT !.valid = FALSE],
      Ipv4([UdpIn(Private) EXCEPT !.dst = BROADCAST]), Ipv4(Fragment(UdpIn(Private))),
      Ipv4(Packet(MCgateway_ip, MCvm_ip, "Udp", 3, 4, "Plain", "Data")) }

=============================================================================
