------------------------------ MODULE Packets ------------------------------
(***************************************************************************)
(* The packets the filter sees, abstracted to what its code tells apart.   *)
(*                                                                         *)
(* An address is a number of AddrBits bits (IPv4: 32) and a prefix a pair  *)
(* of an address and a length, so that covering prefixes and the longest   *)
(* one mean what they mean in the code.  A port is a number up to U16_MAX. *)
(* Bytes are not modelled: a packet records the outcome of the checks that *)
(* smoltcp runs on them.                                                   *)
(***************************************************************************)
EXTENDS Integers

CONSTANTS
    AddrBits,        \* width of an address
    U16_MAX          \* largest port

ASSUME PacketsAssumption == AddrBits \in Nat /\ U16_MAX \in Nat \ {0}

Addr == 0 .. 2^AddrBits - 1

\* Ipv4Addr::UNSPECIFIED and Ipv4Addr::BROADCAST
UNSPECIFIED == 0
BROADCAST == 2^AddrBits - 1

\* Option<u16>: the port of a packet that has none the filter can read
NoPort == -1

Port == 0 .. U16_MAX

(***************************************************************************)
(* frag    "Whole", "First" (more_frags, offset 0) or "Later" (offset # 0) *)
(* header  "Ok" if new_checked (and, for ICMP, verify_checksum) accepts    *)
(*         the transport header; "Truncated" if it does not but the first  *)
(*         four bytes, the ports, are there; "Short" if they are not       *)
(* kind    TCP: "Syn" for a bare SYN; ICMP: "EchoRequest" or "EchoReply"   *)
(*         with code 0; "Plain" for every other message                    *)
(* app     what the two servers inside the proxy make of the checksums and *)
(*         the payload: "Dhcp" a message that DhcpServer::receive replies  *)
(*         to, "Dns" a query inside Softnet's zone, "Data" anything else   *)
(***************************************************************************)
Protocol == {"Tcp", "Udp", "Icmp", "Other"}

Ipv4Packet ==
    [src: Addr, dst: Addr, next_header: Protocol,
     frag: {"Whole", "First", "Later"}, header: {"Ok", "Truncated", "Short"},
     src_port: Port, dst_port: Port, ident: Port,
     kind: {"Syn", "EchoRequest", "EchoReply", "Plain"},
     app: {"Dhcp", "Dns", "Data"}]

IsFragment(pkt) == pkt.frag # "Whole"

\* The first fragment or a whole packet whose two port fields are present
HasPortFields(pkt) == pkt.frag # "Later" /\ pkt.header # "Short"

(***************************************************************************)
(* packet_ports: a fragment or a malformed header has no transport tuple.  *)
(***************************************************************************)
PortsKnown(pkt) ==
    /\ ~ IsFragment(pkt)
    /\ pkt.next_header \in {"Tcp", "Udp"}
    /\ pkt.header = "Ok"

packet_ports(pkt) ==
    IF PortsKnown(pkt) THEN [source |-> pkt.src_port, destination |-> pkt.dst_port]
                       ELSE [source |-> NoPort, destination |-> NoPort]

=============================================================================
