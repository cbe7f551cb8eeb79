----------------------------- MODULE DhcpServer -----------------------------
(***************************************************************************)
(* lib/dhcp_server/mod.rs: the server of one VM, which knows one address   *)
(* and has no state.                                                       *)
(***************************************************************************)
EXTENDS Integers

CONSTANTS vm_mac, vm_ip, gateway_ip, UNSPECIFIED, BROADCAST

ASSUME DhcpAssumption ==
    /\ vm_ip \notin {UNSPECIFIED, BROADCAST, gateway_ip}
    /\ gateway_ip \notin {UNSPECIFIED, BROADCAST}

\* An option that a message does not have
None == "None"

\* What receive_vm returns for a datagram that it does not answer
NoReply == [msg_type |-> None]

reply(request, msg_type) ==
    [msg_type |-> msg_type, xid |-> request.xid, chaddr |-> request.chaddr,
     server_id |-> gateway_ip, yiaddr |-> UNSPECIFIED, lease |-> None]

\* The lease time is u32::MAX, which means forever
address_reply(request, msg_type) ==
    [reply(request, msg_type) EXCEPT !.yiaddr = vm_ip, !.lease = "Infinite"]

\* Mutant: ciaddr in every state
Mut_ValidatedAddress(request) == request.ciaddr

\* Option 50 in SELECTING and INIT-REBOOT, ciaddr in RENEWING and REBINDING
ValidatedAddress(request) ==
    IF request.requested_ip # None /\ request.ciaddr = UNSPECIFIED THEN request.requested_ip
    ELSE IF request.server_id = None /\ request.requested_ip = None
            /\ request.ciaddr # UNSPECIFIED THEN request.ciaddr
    ELSE None

\* The REQUEST arm of receive
receive_request(request) ==
    LET address == ValidatedAddress(request)
    IN  IF address = None THEN NoReply
        ELSE IF address # vm_ip THEN reply(request, "Nak")
        ELSE address_reply(request, "Ack")

\* A client on this link that has not selected another server.  A message that is no
\* BOOTREQUEST, not over Ethernet or relayed (opcode, htype, hlen, giaddr) is ignored
\* like one with a foreign chaddr, which stands for them all.
receive(request) ==
    IF request.chaddr # vm_mac \/ request.server_id \notin {None, gateway_ip} THEN NoReply
    ELSE IF request.msg_type = "Discover" /\ request.ciaddr = UNSPECIFIED
            /\ request.server_id = None THEN address_reply(request, "Offer")
    ELSE IF request.msg_type = "Request" THEN receive_request(request)
    ELSE NoReply

\* NAKs and requested broadcasts are broadcast; the rest goes to the client's address
Destination(request, message) ==
    IF message.msg_type = "Nak" \/ request.broadcast = "Yes" THEN BROADCAST
    ELSE IF request.ciaddr # UNSPECIFIED THEN request.ciaddr
    ELSE message.yiaddr

\* Mutant: only the reserved address may send requests
Mut_AcceptedSource(datagram) == datagram.src \in {UNSPECIFIED, vm_ip}

\* A REQUEST may come from an obsolete address, so that the VM can get a NAK
AcceptedSource(datagram) ==
    datagram.message.msg_type = "Request" \/ datagram.src \in {UNSPECIFIED, vm_ip}

\* A datagram whose checksums are wrong, which is a fragment or does not decode, is
\* not intact
receive_vm(datagram) ==
    LET message == receive(datagram.message)
    IN  IF /\ datagram.intact = "Yes"
           /\ datagram.dst \in {BROADCAST, gateway_ip}
           /\ AcceptedSource(datagram)
           /\ message # NoReply
        THEN {[dst |-> Destination(datagram.message, message), message |-> message]}
        ELSE {}
=============================================================================
