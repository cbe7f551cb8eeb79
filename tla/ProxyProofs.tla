---------------------------- MODULE ProxyProofs ----------------------------
(***************************************************************************)
(* The flow table, for every policy, all traffic and every capacity.       *)
(*                                                                         *)
(* The inductive invariant IInv says that the compiled rules are those of  *)
(* the policy, that tracking is on exactly when they are stateful, and     *)
(* that the table is in order (TableOK): typed, within capacity, every     *)
(* flow authorised by the rules in force, and none that expires more than  *)
(* an interval before the next sweep.                                      *)
(***************************************************************************)
EXTENDS Proxy, FiniteSetTheorems, TLAPS

\* What flows.retain keeps: the flows that have not expired, unchanged (sweep_if_due)
LEMMA RetainedFacts ==
    ASSUME NEW f, NEW now
    PROVE  /\ DOMAIN Retained(f, now) = {k \in DOMAIN f : now < f[k].expires_at}
           /\ \A k \in DOMAIN Retained(f, now) : Retained(f, now)[k] = f[k]
BY DEF Retained, Restrict

\* A match in an existing flow is pending only as a renewal in the packet's own
\* direction (match_existing_flow)
LEMMA MatchFacts ==
    ASSUME NEW f, NEW key, NEW direction, NEW now, NEW timeout, NEW missing,
           match_existing_flow(f, key, direction, now, timeout, missing).type = "Candidate"
    PROVE  \/ match_existing_flow(f, key, direction, now, timeout, missing) = missing
           \/ match_existing_flow(f, key, direction, now, timeout, missing)
                  = candidate(key, direction, now, timeout)
BY DEF match_existing_flow, Allowed

\* A pending flow comes from a TCP or UDP packet with known ports or from an ICMP
\* echo, and its direction is the packet's (inspect_tcp, inspect_udp, inspect_icmp)
LEMMA CandidateShape ==
    ASSUME NEW f, NEW pkt, NEW direction \in FlowDirection, NEW now,
           inspect(f, pkt, direction, now).type = "Candidate"
    PROVE  \E timeout \in Nat \ {0} :
              \/ /\ pkt.next_header \in {"Tcp", "Udp"}
                 /\ PortsKnown(pkt)
                 /\ inspect(f, pkt, direction, now)
                        = candidate(PortKey(pkt.next_header, direction, pkt), direction, now, timeout)
              \/ /\ pkt.next_header = "Icmp"
                 /\ \E d \in FlowDirection :
                       inspect(f, pkt, direction, now)
                           = candidate(EchoKey(direction, d, pkt), direction, now, timeout)
<1> DEFINE m == inspect(f, pkt, direction, now)
<1>1. ~ IsFragment(pkt)
  BY DEF inspect, Untracked
<1>2. CASE pkt.next_header = "Tcp"
  <2> DEFINE key == PortKey("Tcp", direction, pkt)
  <2>1. m = inspect_tcp(f, pkt, direction, now)
    BY <1>1, <1>2 DEF inspect
  <2>2. pkt.header = "Ok"
    BY <2>1 DEF inspect_tcp, Denied
  <2>3. \/ m = candidate(key, direction, now, SYN_TIMEOUT)
        \/ m = candidate(key, direction, now, TCP_TIMEOUT)
    <3>1. CASE m = candidate(key, direction, now, SYN_TIMEOUT)
      BY <3>1
    <3>2. CASE m = match_existing_flow(f, key, direction, now, TCP_TIMEOUT, Untracked)
      BY <3>2, MatchFacts DEF Untracked
    <3>3. m = Denied \/ m = candidate(key, direction, now, SYN_TIMEOUT)
             \/ m = match_existing_flow(f, key, direction, now, TCP_TIMEOUT, Untracked)
      BY <2>1 DEF inspect_tcp
    <3> QED
      BY <3>1, <3>2, <3>3 DEF Denied
  <2>4. PortsKnown(pkt)
    BY <1>1, <1>2, <2>2 DEF PortsKnown
  <2> QED
    BY <1>2, <2>3, <2>4, FlowTableAssumption
<1>3. CASE pkt.next_header = "Udp"
  <2> DEFINE key == PortKey("Udp", direction, pkt)
  <2>1. m = inspect_udp(f, pkt, direction, now)
    BY <1>1, <1>3 DEF inspect
  <2>2. pkt.header = "Ok"
    BY <2>1 DEF inspect_udp, Denied
  <2>3. m = candidate(key, direction, now, UDP_TIMEOUT)
    <3>1. m = Denied \/ m = match_existing_flow(f, key, direction, now, UDP_TIMEOUT,
                                candidate(key, direction, now, UDP_TIMEOUT))
      BY <2>1 DEF inspect_udp
    <3> QED
      BY <3>1, MatchFacts DEF Denied
  <2>4. PortsKnown(pkt)
    BY <1>1, <1>3, <2>2 DEF PortsKnown
  <2> QED
    BY <1>3, <2>3, <2>4, FlowTableAssumption
<1>4. CASE pkt.next_header = "Icmp"
  <2>1. m = inspect_icmp(f, pkt, direction, now)
    BY <1>1, <1>4 DEF inspect
  <2>2. m = inspect_echo(f, pkt, direction, pkt.kind = "EchoRequest", now)
    BY <2>1 DEF inspect_icmp, Denied, Untracked
  <2>3. CASE pkt.kind = "EchoRequest"
    <3>1. m = match_existing_flow(f, EchoKey(direction, direction, pkt), direction, now, ECHO_TIMEOUT,
                  candidate(EchoKey(direction, direction, pkt), direction, now, ECHO_TIMEOUT))
      BY <2>2, <2>3 DEF inspect_echo
    <3> QED
      BY <1>4, <3>1, MatchFacts, FlowTableAssumption
  <2>4. CASE pkt.kind # "EchoRequest"
    <3>1. m = match_existing_flow(f, EchoKey(direction, opposite(direction), pkt), direction, now,
                                  ECHO_TIMEOUT, Untracked)
      BY <2>2, <2>4 DEF inspect_echo
    <3>2. m = candidate(EchoKey(direction, opposite(direction), pkt), direction, now, ECHO_TIMEOUT)
      BY <3>1, MatchFacts DEF Untracked
    <3>3. opposite(direction) \in FlowDirection
      BY DEF opposite, FlowDirection
    <3> QED
      BY <1>4, <3>2, <3>3, FlowTableAssumption
  <2> QED
    BY <2>3, <2>4
<1>5. CASE pkt.next_header \notin {"Tcp", "Udp", "Icmp"}
  BY <1>1, <1>5 DEF inspect, Untracked
<1> QED
  BY <1>2, <1>3, <1>4, <1>5

\* A pending flow is well typed, expires in the future, and asks policy exactly what
\* policy_decision is asked about the packet (the keys of tcp.rs, udp.rs and icmp.rs)
LEMMA CandidateFacts ==
    ASSUME NEW f, NEW pkt \in Ipv4Packet, NEW direction \in FlowDirection, NEW now \in Nat,
           NEW compiled, NEW m, m = inspect(f, pkt, direction, now), m.type = "Candidate"
    PROVE  /\ m.key \in FlowKey
           /\ m.flow \in Flow
           /\ m.flow.initiating_direction = direction
           /\ now < m.flow.expires_at
           /\ direction = "FromVm" =>
                 /\ m.key.host_addr = pkt.dst
                 /\ OpeningDecision(compiled, m.key, "FromVm") = policy_decision(compiled, pkt, "Out")
           /\ direction = "FromHost" =>
                 /\ m.key.host_addr = pkt.src
                 /\ OpeningDecision(compiled, m.key, "FromHost") = policy_decision(compiled, pkt, "In")
<1>1. PICK timeout \in Nat \ {0} :
          \/ /\ pkt.next_header \in {"Tcp", "Udp"}
             /\ PortsKnown(pkt)
             /\ m = candidate(PortKey(pkt.next_header, direction, pkt), direction, now, timeout)
          \/ /\ pkt.next_header = "Icmp"
             /\ \E d \in FlowDirection :
                   m = candidate(EchoKey(direction, d, pkt), direction, now, timeout)
  BY CandidateShape
<1>2. /\ m.flow \in Flow
      /\ m.flow.initiating_direction = direction
      /\ now < m.flow.expires_at
  BY <1>1 DEF candidate, Flow
<1>3. CASE /\ pkt.next_header \in {"Tcp", "Udp"}
           /\ PortsKnown(pkt)
           /\ m = candidate(PortKey(pkt.next_header, direction, pkt), direction, now, timeout)
  <2> DEFINE key == PortKey(pkt.next_header, direction, pkt)
  <2>1. m.key = key
    BY <1>3 DEF candidate
  <2>2. key = [protocol |-> pkt.next_header,
               host_addr |-> IF direction = "FromVm" THEN pkt.dst ELSE pkt.src,
               host_port |-> IF direction = "FromVm" THEN pkt.dst_port ELSE pkt.src_port,
               vm_addr |-> IF direction = "FromVm" THEN pkt.src ELSE pkt.dst,
               vm_port |-> IF direction = "FromVm" THEN pkt.src_port ELSE pkt.dst_port]
    BY DEF PortKey, host_vm_pair, FlowDirection
  <2>3. key \in FlowKey
    BY <1>3, <2>2 DEF FlowKey, Ipv4Packet
  <2>4. packet_ports(pkt).destination = pkt.dst_port
    BY <1>3 DEF packet_ports
  <2>5. /\ direction = "FromVm" =>
              OpeningDecision(compiled, key, "FromVm") = policy_decision(compiled, pkt, "Out")
        /\ direction = "FromHost" =>
              OpeningDecision(compiled, key, "FromHost") = policy_decision(compiled, pkt, "In")
    BY <1>3, <2>2, <2>4 DEF OpeningDecision, policy_decision, FlowDirection
  <2> QED
    BY <1>2, <2>1, <2>2, <2>3, <2>5
<1>4. CASE /\ pkt.next_header = "Icmp"
           /\ \E d \in FlowDirection :
                 m = candidate(EchoKey(direction, d, pkt), direction, now, timeout)
  <2>1. PICK d \in FlowDirection : m = candidate(EchoKey(direction, d, pkt), direction, now, timeout)
    BY <1>4
  <2> DEFINE key == EchoKey(direction, d, pkt)
  <2>2. m.key = key
    BY <2>1 DEF candidate
  <2>3. key = [protocol |-> "Icmp",
               host_addr |-> IF direction = "FromVm" THEN pkt.dst ELSE pkt.src,
               vm_addr |-> IF direction = "FromVm" THEN pkt.src ELSE pkt.dst,
               ident |-> pkt.ident, initiating_direction |-> d]
    BY DEF EchoKey, host_vm_pair, FlowDirection
  <2>4. key \in FlowKey
    BY <2>3 DEF FlowKey, Ipv4Packet
  <2>5. packet_ports(pkt).destination = NoPort
    BY <1>4 DEF packet_ports, PortsKnown
  <2>6. /\ direction = "FromVm" =>
              OpeningDecision(compiled, key, "FromVm") = policy_decision(compiled, pkt, "Out")
        /\ direction = "FromHost" =>
              OpeningDecision(compiled, key, "FromHost") = policy_decision(compiled, pkt, "In")
    BY <1>4, <2>3, <2>5 DEF OpeningDecision, policy_decision, FlowDirection
  <2> QED
    BY <1>2, <2>2, <2>3, <2>4, <2>6
<1> QED
  BY <1>1, <1>3, <1>4

-----------------------------------------------------------------------------
(***************************************************************************)
(* The inductive invariant.  TableOK says of a table what the invariants   *)
(* say of flows and next_sweep; the sweep time is never further ahead than *)
(* one interval, and no flow had expired one interval before it.           *)
(***************************************************************************)
TableOK(f, sweep) ==
    /\ f \in [DOMAIN f -> Flow]
    /\ DOMAIN f \subseteq FlowKey
    /\ \A key \in DOMAIN f : Authorised(rules, key, f[key].initiating_direction)
    /\ IsFiniteSet(DOMAIN f)
    /\ Cardinality(DOMAIN f) <= MAX_FLOWS
    /\ sweep \in Nat
    /\ sweep <= recent + SWEEP_INTERVAL
    /\ \A key \in DOMAIN f : sweep < f[key].expires_at + SWEEP_INTERVAL

IInv ==
    /\ rules = RulesNew(gateway_ip, peer_ips, allow, block)
    /\ tracking = has_stateful(rules)
    /\ recent \in Nat
    /\ TableOK(flows, next_sweep)

\* A new flow table is in order, whatever the policy (FlowTable::new)
LEMMA NoFlowsFacts ==
    /\ DOMAIN NoFlows = {}
    /\ NoFlows \in [DOMAIN NoFlows -> Flow]
    /\ IsFiniteSet(DOMAIN NoFlows)
    /\ Cardinality(DOMAIN NoFlows) <= MAX_FLOWS
<1>1. DOMAIN NoFlows = {} /\ NoFlows \in [DOMAIN NoFlows -> Flow]
  BY DEF NoFlows
<1>2. IsFiniteSet(DOMAIN NoFlows) /\ Cardinality(DOMAIN NoFlows) = 0
  BY <1>1, FS_EmptySet
<1> QED
  BY <1>1, <1>2, FlowTableAssumption

\* Sweeping keeps the table in order (sweep_if_due)
LEMMA SweepOK ==
    ASSUME IInv
    PROVE  TableOK(Swept.flows, Swept.next_sweep)
<1>1. CASE recent < next_sweep
  BY <1>1 DEF Swept, sweep_if_due, IInv
<1>2. CASE ~ (recent < next_sweep)
  <2> DEFINE f == Retained(flows, recent)
  <2>1. Swept.flows = f /\ Swept.next_sweep = recent + SWEEP_INTERVAL
    BY <1>2 DEF Swept, sweep_if_due
  <2>2. /\ DOMAIN f = {k \in DOMAIN flows : recent < flows[k].expires_at}
        /\ \A k \in DOMAIN f : f[k] = flows[k]
    BY RetainedFacts
  <2>3. f \in [DOMAIN f -> Flow]
    BY DEF Retained, Restrict, IInv, TableOK
  <2>4. IsFiniteSet(DOMAIN f) /\ Cardinality(DOMAIN f) <= Cardinality(DOMAIN flows)
    BY <2>2, FS_Subset DEF IInv, TableOK
  <2>5. Cardinality(DOMAIN f) \in Nat /\ Cardinality(DOMAIN flows) \in Nat
    BY <2>4, FS_CardinalityType DEF IInv, TableOK
  <2>6. Cardinality(DOMAIN f) <= MAX_FLOWS
    BY <2>4, <2>5, FlowTableAssumption DEF IInv, TableOK
  <2>7. \A k \in DOMAIN f : recent + SWEEP_INTERVAL < f[k].expires_at + SWEEP_INTERVAL
    BY <2>2, <2>3, FlowTableAssumption DEF IInv, TableOK, Flow
  <2>8. \A k \in DOMAIN f : Authorised(rules, k, f[k].initiating_direction)
    BY <2>2 DEF IInv, TableOK
  <2> HIDE DEF f
  <2> QED
    BY <2>1, <2>2, <2>3, <2>4, <2>6, <2>7, <2>8, FlowTableAssumption DEF IInv, TableOK
<1> QED
  BY <1>1, <1>2

\* Committing an authorised flow keeps the table in order and within MAX_FLOWS (commit)
LEMMA CommitOK ==
    ASSUME NEW f, NEW sweep, TableOK(f, sweep), recent \in Nat,
           NEW key \in FlowKey, NEW flow \in Flow,
           recent < flow.expires_at,
           Authorised(rules, key, flow.initiating_direction),
           HasRoom(f, key)
    PROVE  TableOK(insert(f, key, flow), sweep)
<1> DEFINE g == insert(f, key, flow)
<1>1. /\ DOMAIN g = DOMAIN f \cup {key}
      /\ g[key] = flow
      /\ \A k \in DOMAIN f : k # key => g[k] = f[k]
  BY DEF insert
<1>2. g \in [DOMAIN g -> Flow]
  <2>1. \A k \in DOMAIN f : f[k] \in Flow
    BY DEF TableOK
  <2>2. \A k \in DOMAIN f \cup {key} : (IF k = key THEN flow ELSE f[k]) \in Flow
    BY <2>1
  <2>3. g \in [DOMAIN f \cup {key} -> Flow]
    BY <2>2 DEF insert
  <2> QED
    BY <1>1, <2>3
<1>3. IsFiniteSet(DOMAIN g) /\ Cardinality(DOMAIN g) <= MAX_FLOWS
  <2>1. CASE key \in DOMAIN f
    <3>1. DOMAIN g = DOMAIN f
      BY <1>1, <2>1
    <3> QED
      BY <3>1 DEF TableOK
  <2>2. CASE key \notin DOMAIN f
    <3>1. Cardinality(DOMAIN f) < MAX_FLOWS
      BY <2>2 DEF HasRoom
    <3>2. IsFiniteSet(DOMAIN f) /\ Cardinality(DOMAIN f) \in Nat
      BY FS_CardinalityType DEF TableOK
    <3>3. IsFiniteSet(DOMAIN g) /\ Cardinality(DOMAIN g) = Cardinality(DOMAIN f) + 1
      BY <1>1, <2>2, <3>2, FS_AddElement
    <3> QED
      BY <3>1, <3>2, <3>3, FlowTableAssumption
  <2> QED
    BY <2>1, <2>2
<1>4. \A k \in DOMAIN g : sweep < g[k].expires_at + SWEEP_INTERVAL
  <2>1. sweep < flow.expires_at + SWEEP_INTERVAL
    BY FlowTableAssumption DEF TableOK, Flow
  <2> HIDE DEF g
  <2> QED
    BY <1>1, <2>1 DEF TableOK
<1> HIDE DEF g
<1>5. \A k \in DOMAIN g : Authorised(rules, k, g[k].initiating_direction)
  BY <1>1 DEF TableOK
<1>6. DOMAIN g \subseteq FlowKey
  BY <1>1 DEF TableOK
<1> QED
  BY <1>2, <1>3, <1>4, <1>5, <1>6 DEF TableOK, g

\* The three admissions commit nothing but the pending flow (admit_with_tracking,
\* admit_with_tracking_if_trackable, admit_with_tracking_if_stateful)
LEMMA TrackingOK ==
    ASSUME NEW f, NEW sweep, TableOK(f, sweep), recent \in Nat, NEW match, NEW pkt, NEW way,
           match.type = "Candidate" =>
               /\ match.key \in FlowKey
               /\ match.flow \in Flow
               /\ recent < match.flow.expires_at
               /\ Authorised(rules, match.key, match.flow.initiating_direction)
    PROVE  /\ TableOK(admit_with_tracking(f, match).flows, sweep)
           /\ TableOK(admit_with_tracking_if_trackable(f, match).flows, sweep)
           /\ TableOK(admit_with_tracking_if_stateful(f, match, pkt, way).flows, sweep)
<1>1. TableOK(admit_with_tracking(f, match).flows, sweep)
  <2>1. CASE match.type = "Candidate" /\ HasRoom(f, match.key)
    BY <2>1, CommitOK DEF admit_with_tracking, Admit
  <2>2. CASE ~ (match.type = "Candidate" /\ HasRoom(f, match.key))
    BY <2>2 DEF admit_with_tracking, Drop
  <2> QED
    BY <2>1, <2>2
<1>2. TableOK(admit_with_tracking_if_trackable(f, match).flows, sweep)
  BY <1>1 DEF admit_with_tracking_if_trackable, Admit
<1>3. TableOK(admit_with_tracking_if_stateful(f, match, pkt, way).flows, sweep)
  BY <1>2 DEF admit_with_tracking_if_stateful, Admit
<1> QED
  BY <1>1, <1>2, <1>3

\* A packet from the VM leaves the table in order (allowed_from_vm_ipv4)
LEMMA AdmissionFromVmOK ==
    ASSUME IInv, NEW pkt \in Ipv4Packet
    PROVE  LET sweep == IF tracking THEN Swept.next_sweep ELSE next_sweep
           IN  TableOK(AdmissionFromVm(pkt).flows, sweep)
<1> DEFINE sweep == IF tracking THEN Swept.next_sweep ELSE next_sweep
           match == IF tracking THEN FlowMatch(pkt, "FromVm") ELSE Untracked
           f == IF tracking THEN Swept.flows ELSE flows
           decision == policy_decision(rules, pkt, "Out")
<1>1. TableOK(f, sweep)
  BY SweepOK DEF IInv
<1>2. recent \in Nat
  BY DEF IInv
<1>3. ASSUME match.type = "Candidate"
      PROVE  /\ match.key \in FlowKey
             /\ match.flow \in Flow
             /\ recent < match.flow.expires_at
             /\ Authorised(rules, match.key, match.flow.initiating_direction)
                   <=> Lets(decision, pkt.dst, "FromVm")
  <2>1. match = inspect(Swept.flows, pkt, "FromVm", recent)
    BY <1>3 DEF Untracked, FlowMatch
  <2>2. "FromVm" \in FlowDirection
    BY DEF FlowDirection
  <2> HIDE DEF match
  <2>3. /\ match.key \in FlowKey
        /\ match.flow \in Flow
        /\ match.flow.initiating_direction = "FromVm"
        /\ recent < match.flow.expires_at
        /\ match.key.host_addr = pkt.dst
        /\ OpeningDecision(rules, match.key, "FromVm") = decision
    BY <1>2, <1>3, <2>1, <2>2, CandidateFacts
  <2> QED
    BY <2>3 DEF Authorised
<1> DEFINE r == OutboundPolicy(f, match, pkt)
<1>4. TableOK(r.flows, sweep)
  <2> HIDE DEF match, f, sweep, decision
  <2>1. CASE Lets(decision, pkt.dst, "FromVm")
    <3>1. /\ TableOK(admit_with_tracking(f, match).flows, sweep)
          /\ TableOK(admit_with_tracking_if_trackable(f, match).flows, sweep)
          /\ TableOK(admit_with_tracking_if_stateful(f, match, pkt, "In").flows, sweep)
      BY <1>1, <1>2, <1>3, <2>1, TrackingOK
    <3> QED
      BY <1>1, <3>1 DEF OutboundPolicy, Drop
  <2>2. CASE ~ Lets(decision, pkt.dst, "FromVm")
    <3>1. decision \notin {"AllowStateless", "AllowStateful"}
      BY <2>2 DEF Lets
    <3>2. decision # "Block" => ~ BuiltInDestination(pkt.dst)
      BY <2>2 DEF Lets
    <3>3. r = Drop(f)
      BY <3>1, <3>2 DEF OutboundPolicy, decision
    <3> QED
      BY <1>1, <3>3 DEF Drop
  <2> QED
    BY <2>1, <2>2
<1>5. AdmissionFromVm(pkt) \in {Admit(f), Drop(f), r}
  BY DEF AdmissionFromVm
<1> HIDE DEF match, f, sweep, r
<1>6. TableOK(AdmissionFromVm(pkt).flows, sweep)
  BY <1>1, <1>4, <1>5 DEF Admit, Drop
<1> QED
  BY <1>6 DEF sweep

\* A packet from the host leaves the table in order (allowed_from_host_ipv4)
LEMMA AdmissionFromHostOK ==
    ASSUME IInv, NEW pkt \in Ipv4Packet
    PROVE  LET sweep == IF tracking /\ pkt.dst = vm_ip /\ ~ IsDhcpReply(pkt)
                        THEN Swept.next_sweep ELSE next_sweep
           IN  TableOK(AdmissionFromHost(pkt).flows, sweep)
<1> DEFINE inspected == tracking /\ pkt.dst = vm_ip
           sweep == IF inspected /\ ~ IsDhcpReply(pkt) THEN Swept.next_sweep ELSE next_sweep
           match == IF inspected THEN FlowMatch(pkt, "FromHost") ELSE Untracked
           f == IF inspected THEN Swept.flows ELSE flows
           decision == policy_decision(rules, pkt, "In")
<1>1. ~ IsDhcpReply(pkt) => TableOK(f, sweep)
  BY SweepOK DEF IInv
<1>2. recent \in Nat
  BY DEF IInv
<1>3. ASSUME match.type = "Candidate"
      PROVE  /\ match.key \in FlowKey
             /\ match.flow \in Flow
             /\ recent < match.flow.expires_at
             /\ Authorised(rules, match.key, match.flow.initiating_direction)
                   <=> Lets(decision, pkt.src, "FromHost")
  <2>1. match = inspect(Swept.flows, pkt, "FromHost", recent)
    BY <1>3 DEF Untracked, FlowMatch
  <2>2. "FromHost" \in FlowDirection
    BY DEF FlowDirection
  <2> HIDE DEF match
  <2>3. /\ match.key \in FlowKey
        /\ match.flow \in Flow
        /\ match.flow.initiating_direction = "FromHost"
        /\ recent < match.flow.expires_at
        /\ match.key.host_addr = pkt.src
        /\ OpeningDecision(rules, match.key, "FromHost") = decision
    BY <1>2, <1>3, <2>1, <2>2, CandidateFacts
  <2> QED
    BY <2>3 DEF Authorised
<1> DEFINE r == InboundPolicy(f, match, pkt)
<1>4. ~ IsDhcpReply(pkt) => TableOK(r.flows, sweep)
  <2> SUFFICES ASSUME ~ IsDhcpReply(pkt) PROVE TableOK(r.flows, sweep)
    OBVIOUS
  <2> HIDE DEF match, f, sweep, decision
  <2>1. CASE Lets(decision, pkt.src, "FromHost")
    <3>1. /\ TableOK(admit_with_tracking(f, match).flows, sweep)
          /\ TableOK(admit_with_tracking_if_stateful(f, match, pkt, "Out").flows, sweep)
      BY <1>1, <1>2, <1>3, <2>1, TrackingOK
    <3> QED
      BY <1>1, <3>1 DEF InboundPolicy, Drop
  <2>2. CASE ~ Lets(decision, pkt.src, "FromHost")
    <3>1. r = Drop(f)
      BY <2>2 DEF Lets, InboundPolicy, decision
    <3> QED
      BY <1>1, <3>1 DEF Drop
  <2> QED
    BY <2>1, <2>2
<1>5. CASE IsDhcpReply(pkt)
  BY <1>5 DEF AdmissionFromHost, Drop, IInv
<1>6. CASE ~ IsDhcpReply(pkt) /\ ~ tracking
  BY <1>6 DEF AdmissionFromHost, Admit, IInv
<1>7. CASE ~ IsDhcpReply(pkt) /\ tracking
  <2>1. AdmissionFromHost(pkt) \in {Admit(f), Drop(f), r}
    BY <1>7 DEF AdmissionFromHost
  <2> HIDE DEF match, f, sweep, r
  <2>2. TableOK(AdmissionFromHost(pkt).flows, sweep)
    BY <1>1, <1>4, <1>7, <2>1 DEF Admit, Drop
  <2> QED
    BY <2>2 DEF sweep
<1> QED
  BY <1>5, <1>6, <1>7

-----------------------------------------------------------------------------
\* Compiling a policy establishes the invariant afresh (policy_set)
LEMMA CompileOK ==
    ASSUME recent \in Nat, NEW a, NEW b, Compile(a, b), recent' = recent
    PROVE  IInv'
<1>1. next_sweep' \in Nat /\ next_sweep' <= recent' + SWEEP_INTERVAL
  BY FlowTableAssumption DEF Compile
<1>2. TableOK(NoFlows, next_sweep)'
  BY <1>1, NoFlowsFacts DEF TableOK
<1> QED
  BY <1>2 DEF Compile, IInv

\* The invariant holds initially (Proxy::new)
LEMMA InitOK == Init => IInv
<1> SUFFICES ASSUME Init PROVE IInv
  OBVIOUS
<1>1. recent \in Nat /\ next_sweep \in Nat /\ next_sweep <= recent + SWEEP_INTERVAL
  BY FlowTableAssumption DEF Init
<1>2. TableOK(NoFlows, next_sweep)
  BY <1>1, NoFlowsFacts DEF TableOK
<1> QED
  BY <1>1, <1>2 DEF Init, IInv

\* The table is judged by the compiled rules and the clock, which traffic leaves alone
LEMMA TrafficOK ==
    ASSUME IInv, Unfiltered, TableOK(flows', next_sweep')
    PROVE  IInv'
<1>1. TableOK(flows', next_sweep') => TableOK(flows, next_sweep)'
  BY DEF Unfiltered, TableOK
<1> QED
  BY <1>1 DEF IInv, Unfiltered

\* Frames, commands and the clock preserve the invariant (Proxy::run)
LEMMA NextOK == IInv /\ [Next]_vars => IInv'
<1> SUFFICES ASSUME IInv, [Next]_vars PROVE IInv'
  OBVIOUS
<1>1. ASSUME NEW frame \in VmFrames, process_frame_from_vm(frame)
      PROVE  IInv'
  <2>1. CASE VmFrameUntracked(frame)
    BY <1>1, <2>1, TrafficOK DEF process_frame_from_vm, VmFrameUntracked, TableUnchanged, IInv
  <2>2. CASE VmFrameInspected(frame)
    <3>1. frame.pkt \in Ipv4Packet
      BY <2>2, ProxyAssumption DEF VmFrameInspected, ReachesIpv4
    <3>2. TableOK(flows', next_sweep')
      BY <2>2, <3>1, AdmissionFromVmOK DEF VmFrameInspected
    <3> QED
      BY <1>1, <3>2, TrafficOK DEF process_frame_from_vm
  <2> QED
    BY <1>1, <2>1, <2>2 DEF process_frame_from_vm
<1>2. ASSUME NEW frame \in HostFrames, process_frame_from_host(frame)
      PROVE  IInv'
  <2>1. CASE TableUnchanged
    BY <1>2, <2>1, TrafficOK DEF process_frame_from_host, TableUnchanged, IInv
  <2>2. CASE /\ frame.ethertype = "Ipv4"
             /\ flows' = AdmissionFromHost(frame.pkt).flows
             /\ next_sweep' = IF tracking /\ frame.pkt.dst = vm_ip /\ ~ IsDhcpReply(frame.pkt)
                              THEN Swept.next_sweep ELSE next_sweep
    <3>1. frame.pkt \in Ipv4Packet
      BY <2>2, ProxyAssumption
    <3>2. TableOK(flows', next_sweep')
      BY <2>2, <3>1, AdmissionFromHostOK
    <3> QED
      BY <1>2, <3>2, TrafficOK DEF process_frame_from_host
  <2> QED
    BY <1>2, <2>1, <2>2 DEF process_frame_from_host
<1>3. ASSUME NEW policy \in Policies, policy_set(policy)
      PROVE  IInv'
  <2>1. CASE UNCHANGED <<allow, block, rules, tracking, flows, next_sweep>>
    BY <1>3, <2>1, TrafficOK DEF policy_set, Unfiltered, IInv
  <2>2. CASE Compile(normalize_rules(policy.allow), normalize_rules(policy.block))
    BY <1>3, <2>2, CompileOK DEF policy_set, IInv
  <2> QED
    BY <1>3, <2>1, <2>2 DEF policy_set
<1>4. CASE PolicyGet
  BY <1>4, TrafficOK DEF PolicyGet, TableUnchanged, IInv
<1>5. CASE Tick
  <2>1. TableOK(flows, next_sweep)'
    BY <1>5, FlowTableAssumption DEF Tick, IInv, TableOK
  <2> QED
    BY <1>5, <2>1 DEF Tick, IInv
<1>6. CASE UNCHANGED vars
  BY <1>6, TrafficOK DEF vars, Unfiltered, IInv
<1> QED
  BY <1>1, <1>2, <1>3, <1>4, <1>5, <1>6 DEF Next

\* The inductive invariant holds in every reachable state (Proxy::run)
THEOREM Invariance == Spec => []IInv
BY InitOK, NextOK, PTL DEF Spec

(***************************************************************************)
(* For every policy, every packet and every sequence of events: the        *)
(* compiled policy is the one compiled from the lists, and the flow table  *)
(* exists exactly when that policy is stateful (Proxy::new, policy_set).   *)
(***************************************************************************)
THEOREM TypeCorrect == Spec => []TypeOK
<1>1. IInv => TypeOK
  BY DEF IInv, TableOK, TypeOK
<1> QED
  BY <1>1, Invariance, PTL

(***************************************************************************)
(* No flow outlives the policy that authorised it (policy_set, commit).    *)
(***************************************************************************)
THEOREM NoStalePermission == Spec => []FlowsAuthorised
<1>1. IInv => FlowsAuthorised
  BY DEF IInv, TableOK, FlowsAuthorised
<1> QED
  BY <1>1, Invariance, PTL

(***************************************************************************)
(* The flow table never exceeds MAX_FLOWS (commit).                        *)
(***************************************************************************)
THEOREM CapacityRespected == Spec => []WithinCapacity
<1>1. IInv => WithinCapacity
  BY DEF IInv, TableOK, WithinCapacity
<1> QED
  BY <1>1, Invariance, PTL

(***************************************************************************)
(* What is left after the sweep of an inspection expired less than one     *)
(* SWEEP_INTERVAL ago, if at all (sweep_if_due).                           *)
(***************************************************************************)
THEOREM CollectionBounded == Spec => []GarbageBounded
<1>1. IInv => GarbageBounded
  <2> SUFFICES ASSUME IInv, tracking, NEW key \in DOMAIN Swept.flows
               PROVE  recent < flows[key].expires_at + SWEEP_INTERVAL
    BY DEF GarbageBounded
  <2>1. CASE recent < next_sweep
    <3>1. Swept.flows = flows
      BY <2>1 DEF Swept, sweep_if_due
    <3>2. next_sweep < flows[key].expires_at + SWEEP_INTERVAL /\ flows[key].expires_at \in Nat
      BY <3>1 DEF IInv, TableOK, Flow
    <3> QED
      BY <2>1, <3>2, FlowTableAssumption DEF IInv, TableOK
  <2>2. CASE ~ (recent < next_sweep)
    <3>1. Swept.flows = Retained(flows, recent)
      BY <2>2 DEF Swept, sweep_if_due
    <3>2. DOMAIN Swept.flows = {k \in DOMAIN flows : recent < flows[k].expires_at}
      BY <3>1 DEF Retained, Restrict
    <3>3. recent < flows[key].expires_at /\ flows[key].expires_at \in Nat
      BY <3>2 DEF IInv, TableOK, Flow
    <3> QED
      BY <3>3, FlowTableAssumption DEF IInv
  <2> QED
    BY <2>1, <2>2
<1> QED
  BY <1>1, Invariance, PTL

(***************************************************************************)
(* Whatever the policy and the flows, nothing that the host could take for *)
(* a DHCP request leaves, and nothing that the VM could take for another   *)
(* server's reply arrives (consume_dhcp, allowed_from_host_ipv4).          *)
(***************************************************************************)
THEOREM DhcpIsLocal == Spec => []DhcpStaysLocal
<1>1. Init => DhcpStaysLocal
  BY DEF Init, Nothing, DhcpStaysLocal
<1>2. ASSUME out' = Nothing \/ out'.to = "Control" \/ write_to_vm(DhcpReply) \/ write_to_vm(DnsReply)
      PROVE  DhcpStaysLocal'
  BY <1>2, ProxyAssumption DEF write_to_vm, ToVm, Nothing, DhcpStaysLocal
<1>3. DhcpStaysLocal /\ [Next]_vars => DhcpStaysLocal'
  <2> SUFFICES ASSUME DhcpStaysLocal, [Next]_vars PROVE DhcpStaysLocal'
    OBVIOUS
  <2>1. ASSUME NEW frame \in VmFrames, process_frame_from_vm(frame) PROVE DhcpStaysLocal'
    <3>1. CASE out' = ToHost(frame)
      <4>1. frame.ethertype = "Ipv4" => ~ IsDhcp(frame.pkt)
        BY <2>1, <3>1, ProxyAssumption
           DEF process_frame_from_vm, VmFrameUntracked, VmFrameInspected, vm_arp_allowed, write_to_vm,
               ToHost, ToVm, Nothing
      <4> QED
        BY <3>1, <4>1 DEF ToHost, IsDhcp, HasPortFields, DhcpStaysLocal
    <3>2. CASE out' # ToHost(frame)
      BY <1>2, <2>1, <3>2 DEF process_frame_from_vm, VmFrameUntracked, VmFrameInspected
    <3> QED
      BY <3>1, <3>2
  <2>2. ASSUME NEW frame \in HostFrames, process_frame_from_host(frame) PROVE DhcpStaysLocal'
    <3>1. CASE out' = ToVm(frame)
      <4>1. frame.ethertype = "Ipv4" => ~ IsDhcpReply(frame.pkt)
        BY <2>2, <3>1 DEF process_frame_from_host, AdmissionFromHost, Drop, ToVm, Nothing
      <4> QED
        BY <3>1, <4>1 DEF ToVm, IsDhcpReply, HasPortFields, DhcpStaysLocal
    <3>2. CASE out' # ToVm(frame)
      BY <1>2, <2>2, <3>2 DEF process_frame_from_host, write_to_vm
    <3> QED
      BY <3>1, <3>2
  <2>3. CASE \E policy \in Policies : policy_set(policy)
    BY <1>2, <2>3 DEF policy_set, policy_get
  <2>4. CASE PolicyGet
    BY <1>2, <2>4 DEF PolicyGet, policy_get
  <2>5. CASE Tick
    BY <1>2, <2>5 DEF Tick
  <2>6. CASE UNCHANGED vars
    BY <2>6 DEF vars, DhcpStaysLocal
  <2> QED
    BY <2>1, <2>2, <2>3, <2>4, <2>5, <2>6 DEF Next
<1> QED
  BY <1>1, <1>3, PTL DEF Spec
=============================================================================
