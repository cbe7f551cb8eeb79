------------------------------- MODULE Proxy -------------------------------
(***************************************************************************)
(* The packet filter of one VM (proxy/mod.rs, proxy/vm.rs, proxy/host.rs): *)
(* frames from the VM and frames from the host against the packet policy   *)
(* and the flow table, and replacement of the policy while traffic flows.  *)
(*                                                                         *)
(* run() serves one event at a time, and between inspecting a packet and   *)
(* committing its flow it does not await: a frame or a command is one step.*)
(***************************************************************************)
EXTENDS Policy, FlowTable

CONSTANTS
    vm_ip, vm_mac_address,          \* reserved on the shared subnet
    GlobalAddrs,                    \* ip_network's is_global
    HasDns,                         \* a DNS server is configured
    SERVER_PORT, CLIENT_PORT, DNS_PORT,
    VmFrames, HostFrames,           \* frames that may arrive
    Policies,                       \* [allow, block] that a client may set
    MaxTime                         \* bound of the clock

\* What the servers inside the proxy write, told apart from frames that arrive
DhcpReply == [ethertype |-> "Ipv4", server |-> "Dhcp"]
DnsReply == [ethertype |-> "Ipv4", server |-> "Dns"]

ASSUME ProxyAssumption ==
    /\ vm_ip \in Addr /\ gateway_ip \in Addr
    /\ {DhcpReply, DnsReply} \cap (VmFrames \cup HostFrames) = {}
    /\ \A frame \in VmFrames \cup HostFrames :
          frame.ethertype = "Ipv4" => frame.pkt \in Ipv4Packet
    /\ \A policy \in Policies : policy.allow \cup policy.block \subseteq Rule

VARIABLES
    tracking,         \* flows.is_some()
    flows, next_sweep,
    recent,           \* coarsetime's clock, in units of the timeouts
    out               \* what the last event made the proxy write

vars == <<allow, block, rules, tracking, flows, next_sweep, recent, out>>

Nothing == [to |-> "Nobody"]
ToHost(frame) == [to |-> "Host", frame |-> frame]
ToVm(frame) == [to |-> "Vm", frame |-> frame]

-----------------------------------------------------------------------------
(***************************************************************************)
(* Admission.  The outcome of a packet is whether it is admitted, and the  *)
(* flows it leaves behind.  A match that is not a candidate is the None of *)
(* the code's Option<PendingFlow>.                                         *)
(***************************************************************************)
Drop(f) == [admitted |-> FALSE, flows |-> f]
Admit(f) == [admitted |-> TRUE, flows |-> f]

admit_with_tracking(f, match) ==
    IF match.type = "Candidate" /\ HasRoom(f, match.key)
    THEN Admit(insert(f, match.key, match.flow))
    ELSE Drop(f)

admit_with_tracking_if_trackable(f, match) ==
    IF match.type = "Candidate" THEN admit_with_tracking(f, match) ELSE Admit(f)

admit_with_tracking_if_stateful(f, match, pkt, return_direction) ==
    IF is_stateful(rules, pkt, return_direction)
    THEN admit_with_tracking_if_trackable(f, match)
    ELSE Admit(f)

\* The table as inspect leaves it, and the match it returns
Swept == sweep_if_due(flows, next_sweep, recent)
FlowMatch(pkt, direction) == inspect(Swept.flows, pkt, direction, recent)

-----------------------------------------------------------------------------
(***************************************************************************)
(* From the VM.                                                            *)
(***************************************************************************)
\* Mutant: only whole, well-formed requests are consumed
Mut_IsDhcp(pkt) == PortsKnown(pkt) /\ pkt.next_header = "Udp" /\ pkt.dst_port = SERVER_PORT

\* consume_dhcp: also for truncated packets and first fragments
IsDhcp(pkt) ==
    /\ pkt.next_header = "Udp"
    /\ HasPortFields(pkt)
    /\ pkt.dst_port = SERVER_PORT

\* DhcpServer::receive_vm has something to say
DhcpAnswers(pkt) ==
    /\ pkt.frag = "Whole" /\ pkt.header = "Ok"
    /\ pkt.src_port = CLIENT_PORT
    /\ pkt.dst \in {BROADCAST, gateway_ip}
    /\ pkt.app = "Dhcp"

\* consume_dns, when the server answers: queries outside its zone go on
IsLocalDns(pkt) ==
    /\ HasDns
    /\ pkt.dst = gateway_ip
    /\ pkt.next_header = "Udp"
    /\ pkt.frag = "Whole" /\ pkt.header = "Ok"
    /\ pkt.dst_port = DNS_PORT
    /\ pkt.app = "Dns"

\* The fallbacks when no outbound rule matches: global addresses and the host
BuiltInDestination(address) == address \in GlobalAddrs \/ address = gateway_ip

\* allowed_from_vm_ipv4 past the flow table: outbound policy and the fallbacks
OutboundPolicy(f, match, pkt) ==
    LET decision == policy_decision(rules, pkt, "Out") IN
    IF decision = "Block" THEN Drop(f)
    ELSE IF decision = "AllowStateless" THEN admit_with_tracking_if_stateful(f, match, pkt, "In")
    ELSE IF decision = "AllowStateful" THEN admit_with_tracking(f, match)
    ELSE IF BuiltInDestination(pkt.dst) THEN admit_with_tracking_if_trackable(f, match)
    ELSE Drop(f)

\* allowed_from_vm_ipv4 for a packet that is not consumed
AdmissionFromVm(pkt) ==
    LET match == IF tracking THEN FlowMatch(pkt, "FromVm") ELSE Untracked
        f == IF tracking THEN Swept.flows ELSE flows
    IN  IF match.type = "Allowed" THEN Admit(f)
        ELSE IF match.type = "Denied" THEN Drop(f)
        ELSE OutboundPolicy(f, match, pkt)

vm_arp_allowed(frame) ==
    /\ frame.ethertype = "Arp"
    /\ frame.src_mac = vm_mac_address
    /\ frame.valid
    /\ frame.operation \in {"Request", "Reply"}
    /\ frame.source_hardware_addr = vm_mac_address
    /\ frame.source_protocol_addr \in {vm_ip, UNSPECIFIED}

\* The IPv4 frames that reach allowed_from_vm_ipv4: sent from the VM's own
\* hardware address, well formed, and without IPv4 options
ReachesIpv4(frame) ==
    /\ frame.ethertype = "Ipv4"
    /\ frame.src_mac = vm_mac_address
    /\ frame.valid
    /\ ~ frame.options

Unfiltered == UNCHANGED <<allow, block, rules, tracking, recent>>
TableUnchanged == UNCHANGED <<flows, next_sweep>>

\* write_to_vm: a full socket buffer (ENOBUFS) loses the frame
write_to_vm(frame) == out' \in {ToVm(frame), Nothing}

\* Frames that leave the table alone
VmFrameUntracked(frame) ==
    /\ TableUnchanged
    /\ \/ vm_arp_allowed(frame) /\ out' = ToHost(frame)
       \/ /\ ReachesIpv4(frame) /\ IsDhcp(frame.pkt)
          /\ IF DhcpAnswers(frame.pkt) THEN write_to_vm(DhcpReply) ELSE out' = Nothing
       \/ /\ ReachesIpv4(frame) /\ ~ IsDhcp(frame.pkt)
          /\ frame.pkt.src = vm_ip /\ IsLocalDns(frame.pkt)
          /\ write_to_vm(DnsReply)
       \/ /\ ~ vm_arp_allowed(frame)
          /\ ~ (ReachesIpv4(frame) /\ (IsDhcp(frame.pkt) \/ frame.pkt.src = vm_ip))
          /\ out' = Nothing

\* Frames that flow inspection and outbound policy decide
VmFrameInspected(frame) ==
    /\ ReachesIpv4(frame)
    /\ ~ IsDhcp(frame.pkt)
    /\ frame.pkt.src = vm_ip
    /\ ~ IsLocalDns(frame.pkt)
    /\ LET outcome == AdmissionFromVm(frame.pkt) IN
       /\ flows' = outcome.flows
       /\ next_sweep' = IF tracking THEN Swept.next_sweep ELSE next_sweep
       /\ out' = IF outcome.admitted THEN ToHost(frame) ELSE Nothing

process_frame_from_vm(frame) ==
    /\ VmFrameUntracked(frame) \/ VmFrameInspected(frame)
    /\ Unfiltered

-----------------------------------------------------------------------------
(***************************************************************************)
(* From the host.                                                          *)
(***************************************************************************)
\* An external DHCP server's reply, even malformed or a first fragment
IsDhcpReply(pkt) ==
    /\ pkt.next_header = "Udp"
    /\ HasPortFields(pkt)
    /\ pkt.src_port = SERVER_PORT
    /\ pkt.dst_port = CLIENT_PORT

\* allowed_from_host_ipv4 past the flow table: inbound policy, allowing by default
InboundPolicy(f, match, pkt) ==
    LET decision == policy_decision(rules, pkt, "In") IN
    IF decision \in {"Block", "AllowStateless"} THEN Drop(f)
    ELSE IF decision = "AllowStateful" THEN admit_with_tracking(f, match)
    ELSE admit_with_tracking_if_stateful(f, match, pkt, "Out")

\* allowed_from_host_ipv4; only packets to the VM's own address are inspected
AdmissionFromHost(pkt) ==
    LET inspected == tracking /\ pkt.dst = vm_ip
        match == IF inspected THEN FlowMatch(pkt, "FromHost") ELSE Untracked
        f == IF inspected THEN Swept.flows ELSE flows
    IN  IF IsDhcpReply(pkt) THEN Drop(flows)
        ELSE IF ~ tracking THEN Admit(flows)
        ELSE IF match.type = "Allowed" THEN Admit(f)
        ELSE IF match.type = "Denied" THEN Drop(f)
        ELSE InboundPolicy(f, match, pkt)

process_frame_from_host(frame) ==
    /\ Unfiltered
    /\ \/ /\ frame.ethertype = "Arp"
          /\ TableUnchanged
          /\ write_to_vm(frame)
       \/ /\ frame.ethertype = "Ipv4" /\ frame.valid
          /\ LET outcome == AdmissionFromHost(frame.pkt) IN
             /\ flows' = outcome.flows
             /\ next_sweep' = IF tracking /\ frame.pkt.dst = vm_ip /\ ~ IsDhcpReply(frame.pkt)
                              THEN Swept.next_sweep ELSE next_sweep
             /\ IF outcome.admitted THEN write_to_vm(frame) ELSE out' = Nothing
       \/ /\ frame.ethertype = "Other" \/ (frame.ethertype = "Ipv4" /\ ~ frame.valid)
          /\ TableUnchanged
          /\ out' = Nothing

-----------------------------------------------------------------------------
(***************************************************************************)
(* Policy commands and the clock.                                          *)
(***************************************************************************)
\* Rules::new for this VM, and FlowTable::new when the policy is stateful
Compile(a, b) ==
    /\ rules' = RulesNew(gateway_ip, peer_ips, a, b)
    /\ allow' = a /\ block' = b
    /\ tracking' = has_stateful(rules')
    /\ flows' = NoFlows
    /\ next_sweep' = IF tracking' THEN recent + SWEEP_INTERVAL ELSE 0

policy_get == [to |-> "Control", allow |-> allow, block |-> block,
               rule_count |-> Cardinality(rules.inbound) + Cardinality(rules.outbound)]

PolicyGet ==
    /\ out' = policy_get
    /\ Unfiltered /\ TableUnchanged

\* Mutant: a new policy keeps the flows that the old one admitted
Mut_policy_set(policy) ==
    LET a == normalize_rules(policy.allow)
        b == normalize_rules(policy.block)
    IN  /\ rules' = RulesNew(gateway_ip, peer_ips, a, b)
        /\ allow' = a /\ block' = b
        /\ tracking' = has_stateful(rules')
        /\ flows' = IF tracking' THEN flows ELSE NoFlows
        /\ out' = policy_get'
        /\ UNCHANGED <<next_sweep, recent>>

policy_set(policy) ==
    LET a == normalize_rules(policy.allow)
        b == normalize_rules(policy.block)
    IN  /\ IF allow # a \/ block # b
           THEN Compile(a, b)
           ELSE UNCHANGED <<allow, block, rules, tracking, flows, next_sweep>>
        /\ out' = policy_get'
        /\ UNCHANGED recent

\* Instant::update, by this proxy or by the proxy of another VM
Tick ==
    /\ recent < MaxTime
    /\ recent' = recent + 1
    /\ out' = Nothing
    /\ UNCHANGED <<allow, block, rules, tracking, flows, next_sweep>>

\* Proxy::new with the policy of the initialize request
Init ==
    \E policy \in Policies :
        /\ allow = normalize_rules(policy.allow)
        /\ block = normalize_rules(policy.block)
        /\ rules = RulesNew(gateway_ip, peer_ips, allow, block)
        /\ tracking = has_stateful(rules)
        /\ flows = NoFlows
        /\ recent = 0
        /\ next_sweep = (IF tracking THEN recent + SWEEP_INTERVAL ELSE 0)
        /\ out = Nothing

Next ==
    \/ \E frame \in VmFrames : process_frame_from_vm(frame)
    \/ \E frame \in HostFrames : process_frame_from_host(frame)
    \/ \E policy \in Policies : policy_set(policy)
    \/ PolicyGet
    \/ Tick

Spec == Init /\ [][Next]_vars

-----------------------------------------------------------------------------
(***************************************************************************)
(* Invariants.                                                             *)
(***************************************************************************)
\* Types, and flows.is_some() exactly when the compiled policy is stateful
TypeOK ==
    /\ rules = RulesNew(gateway_ip, peer_ips, allow, block)
    /\ tracking = has_stateful(rules)
    /\ flows \in [DOMAIN flows -> Flow]
    /\ DOMAIN flows \subseteq FlowKey
    /\ next_sweep \in Nat
    /\ recent \in Nat

\* What policy and the fallbacks say of the packets that open a flow
OpeningDecision(compiled, key, direction) ==
    Decision(compiled, IF direction = "FromVm" THEN "Out" ELSE "In", key.host_addr, key.protocol,
             IF key.protocol = "Icmp" THEN NoPort
             ELSE IF direction = "FromVm" THEN key.host_port ELSE key.vm_port)

\* A decision that lets a packet to or from address pass in a stateful policy
Lets(decision, address, direction) ==
    IF direction = "FromVm"
    THEN \/ decision \in {"AllowStateless", "AllowStateful"}
         \/ decision # "Block" /\ BuiltInDestination(address)
    ELSE decision \notin {"Block", "AllowStateless"}

Authorised(compiled, key, direction) ==
    Lets(OpeningDecision(compiled, key, direction), key.host_addr, direction)

(***************************************************************************)
(* No permission outlives its policy: whatever the sequence of packets,    *)
(* policy updates and timeouts, every flow in the table is one that the    *)
(* policy in force lets its initiator open (policy_set, commit).           *)
(***************************************************************************)
FlowsAuthorised ==
    \A key \in DOMAIN flows : Authorised(rules, key, flows[key].initiating_direction)

(***************************************************************************)
(* The table never holds more than MAX_FLOWS flows, although updates of    *)
(* existing flows are accepted when it is full (commit).                   *)
(***************************************************************************)
WithinCapacity == Cardinality(DOMAIN flows) <= MAX_FLOWS

(***************************************************************************)
(* Lazy collection is bounded: the flows that commit counts against the    *)
(* limit, those left by the sweep of the same inspection, contain none     *)
(* that expired a whole SWEEP_INTERVAL ago or earlier (sweep_if_due).      *)
(***************************************************************************)
GarbageBounded ==
    tracking => \A key \in DOMAIN Swept.flows : recent < flows[key].expires_at + SWEEP_INTERVAL

(***************************************************************************)
(* The VM's DHCP traffic ends at the proxy: nothing the host could take    *)
(* for a DHCP request leaves, and nothing the VM could take for another    *)
(* server's reply arrives, whole, truncated or as the first fragment that  *)
(* a reassembling receiver starts from (consume_dhcp,                      *)
(* allowed_from_host_ipv4).                                                *)
(***************************************************************************)
DhcpStaysLocal ==
    (out.to \in {"Host", "Vm"} /\ out.frame \in VmFrames \cup HostFrames
        /\ out.frame.ethertype = "Ipv4") =>
        LET pkt == out.frame.pkt IN
        (pkt.next_header = "Udp" /\ pkt.frag # "Later" /\ pkt.header # "Short") =>
            /\ out.to = "Host" => pkt.dst_port # SERVER_PORT
            /\ out.to = "Vm" => <<pkt.src_port, pkt.dst_port>> # <<SERVER_PORT, CLIENT_PORT>>

-----------------------------------------------------------------------------
(***************************************************************************)
(* Requests and their replies.                                             *)
(***************************************************************************)
\* Packets that flow inspection can turn into a new flow
Opens(pkt) ==
    /\ ~ IsFragment(pkt) /\ pkt.header = "Ok"
    /\ \/ pkt.next_header = "Udp" /\ ~ PortZero(pkt)
       \/ pkt.next_header = "Tcp" /\ ~ PortZero(pkt) /\ pkt.kind = "Syn"
       \/ pkt.next_header = "Icmp" /\ pkt.kind = "EchoRequest"

ReplyTo(pkt) ==
    [pkt EXCEPT !.src = pkt.dst, !.dst = pkt.src,
                !.src_port = pkt.dst_port, !.dst_port = pkt.src_port,
                !.kind = IF @ = "EchoRequest" THEN "EchoReply" ELSE "Plain"]

\* Some rule is about a request from the host or about the reply to it
RuleDecides(pkt) ==
    \/ policy_decision(rules, pkt, "In") # "None"
    \/ policy_decision(rules, ReplyTo(pkt), "Out") # "None"

(***************************************************************************)
(* A request that got through can be answered: right after a tracking      *)
(* proxy forwards a packet that opens a flow, the reply is admitted too,   *)
(* whatever the policy says of the reply's direction.  A request from the  *)
(* host that no rule mentions is admitted by default and tracked only if a *)
(* rule decides its reply (admit_with_tracking_if_stateful); where no rule *)
(* mentions either of them, nothing is promised.                           *)
(***************************************************************************)
RequestsAnswerable ==
    (tracking /\ out.to \in {"Host", "Vm"} /\ out.frame \notin {DhcpReply, DnsReply}
              /\ out.frame.ethertype = "Ipv4") =>
        LET pkt == out.frame.pkt IN
        /\ (out.to = "Host" /\ Opens(pkt)) => AdmissionFromHost(ReplyTo(pkt)).admitted
        /\ (out.to = "Vm" /\ Opens(pkt) /\ pkt.dst = vm_ip /\ RuleDecides(pkt))
               => AdmissionFromVm(ReplyTo(pkt)).admitted

-----------------------------------------------------------------------------
(***************************************************************************)
(* The proxy implements ReturnPermits.  The permits are the flows that     *)
(* have not expired; sweeping them is invisible.                           *)
(***************************************************************************)
PacketDecision(compiled, way, pkt) ==
    policy_decision(compiled, pkt, IF way = "FromVm" THEN "Out" ELSE "In")

FrameApproved(policy, way, frame) ==
    IF way = "FromVm"
    THEN \/ vm_arp_allowed(frame)
         \/ /\ ReachesIpv4(frame)
            /\ ~ IsDhcp(frame.pkt)
            /\ frame.pkt.src = vm_ip
            /\ Lets(PacketDecision(policy.rules, way, frame.pkt), frame.pkt.dst, way)
    ELSE \/ frame.ethertype = "Arp"
         \/ /\ frame.ethertype = "Ipv4" /\ frame.valid
            /\ ~ IsDhcpReply(frame.pkt)
            /\ \/ ~ has_stateful(policy.rules)
               \/ Lets(PacketDecision(policy.rules, way, frame.pkt), frame.pkt.src, way)

FrameMustBeTracked(policy, way, frame) ==
    /\ has_stateful(policy.rules)
    /\ frame.ethertype = "Ipv4"
    /\ PacketDecision(policy.rules, way, frame.pkt) = "AllowStateful"

NoTuple == [protocol |-> "None"]

FrameTuple(frame, way) ==
    IF frame.ethertype # "Ipv4" THEN NoTuple
    ELSE LET pkt == frame.pkt IN
         IF IsFragment(pkt) \/ pkt.header # "Ok" THEN NoTuple
         ELSE IF pkt.next_header \in {"Tcp", "Udp"} /\ ~ PortZero(pkt)
              THEN PortKey(pkt.next_header, way, pkt)
         ELSE IF pkt.next_header = "Icmp" /\ pkt.kind = "EchoRequest" THEN EchoKey(way, way, pkt)
         ELSE IF pkt.next_header = "Icmp" /\ pkt.kind = "EchoReply"
              THEN EchoKey(way, opposite(way), pkt)
         ELSE NoTuple

FrameLifetime(frame) ==
    IF frame.pkt.next_header = "Tcp"
    THEN IF frame.pkt.kind = "Syn" THEN SYN_TIMEOUT ELSE TCP_TIMEOUT
    ELSE IF frame.pkt.next_header = "Udp" THEN UDP_TIMEOUT ELSE ECHO_TIMEOUT

LivePermits ==
    {[tuple |-> k, opener |-> flows[k].initiating_direction, until |-> flows[k].expires_at] :
        k \in {k \in DOMAIN flows : recent < flows[k].expires_at}}

LastForwarded ==
    IF out.to = "Host" THEN [frame |-> out.frame, way |-> "FromVm"]
    ELSE IF out.to = "Vm" /\ out.frame \notin {DhcpReply, DnsReply}
         THEN [frame |-> out.frame, way |-> "FromHost"]
    ELSE Nothing

Promise == INSTANCE ReturnPermits WITH
    Frame <- VmFrames \cup HostFrames,
    Approved <- FrameApproved, MustTrack <- FrameMustBeTracked,
    Tuple <- FrameTuple, NoTuple <- NoTuple, Lifetime <- FrameLifetime, Silence <- Nothing,
    policy <- [allow |-> allow, block |-> block, rules |-> rules],
    permits <- LivePermits, now <- recent, forwarded <- LastForwarded

(***************************************************************************)
(* The README's account of stateful flow authorization: a frame passes by  *)
(* the policy in force or as the answer to a live, policy-approved tuple;  *)
(* only approved initiator traffic grants or renews a permit; explicit     *)
(* stateful rules never pass what cannot be tracked; a change of policy    *)
(* withdraws all permits (process_frame_from_vm, process_frame_from_host,  *)
(* policy_set against ReturnPermits).                                      *)
(***************************************************************************)
ImplementsPermits == Promise!PSpec

=============================================================================
