---------------------------- MODULE AnswerProofs ----------------------------
(***************************************************************************)
(* What users of the filter can count on, for every policy, all traffic    *)
(* and every capacity.                                                     *)
(*                                                                         *)
(* Policy: the compiled tables are those of the two lists in every state   *)
(* (PolicyOK), so what PolicyProofs shows of tables holds of a running     *)
(* proxy.  Answers: the reply to a packet has the packet's key, so it      *)
(* meets the flow that the packet opened; and the flow of the packet that  *)
(* was forwarded last is live, which is what the inductive invariant adds  *)
(* (LastOpenerLive).                                                       *)
(***************************************************************************)
EXTENDS ProxyProofs, PolicyProofs

(* normalize_rules on what a client may send stays among the rules.        *)
LEMMA PoliciesNormal ==
    ASSUME NEW policy \in Policies
    PROVE  normalize_rules(policy.allow) \cup normalize_rules(policy.block) \subseteq normalize_rules(Rule)
<1>1. policy.allow \subseteq Rule /\ policy.block \subseteq Rule
  BY ProxyAssumption
<1> QED BY <1>1 DEF normalize_rules

(* The compiled tables are always those of the two lists, and the lists    *)
(* normalised (Proxy::new, policy_set).                                    *)
LEMMA PolicyInvariant == Spec => []PolicyOK
<1>1. Init => PolicyOK
  BY PoliciesNormal DEF Init, PolicyOK
<1>2. PolicyOK /\ [Next]_vars => PolicyOK'
  <2> SUFFICES ASSUME PolicyOK, [Next]_vars PROVE PolicyOK'
    OBVIOUS
  <2>1. CASE UNCHANGED <<allow, block, rules>>
    BY <2>1 DEF PolicyOK
  <2>2. ASSUME NEW policy \in Policies, policy_set(policy) PROVE PolicyOK'
    <3>1. CASE UNCHANGED <<allow, block, rules, tracking, flows, next_sweep>>
      BY <2>1, <3>1
    <3>2. CASE Compile(normalize_rules(policy.allow), normalize_rules(policy.block))
      BY <3>2, PoliciesNormal DEF Compile, PolicyOK
    <3> QED BY <2>2, <3>1, <3>2 DEF policy_set
  <2>3. Next => \/ UNCHANGED <<allow, block, rules>>
                \/ \E policy \in Policies : policy_set(policy)
    BY DEF Next, process_frame_from_vm, process_frame_from_host, PolicyGet, Tick, Unfiltered
  <2>4. UNCHANGED vars => UNCHANGED <<allow, block, rules>>
    BY DEF vars
  <2> QED BY <2>1, <2>2, <2>3, <2>4
<1> QED BY <1>1, <1>2, PTL DEF Spec

(***************************************************************************)
(* The tables decide every packet as the help text says, whatever the      *)
(* lists and however often they are replaced (Rules::new, select).         *)
(***************************************************************************)
THEOREM HelpTextHolds == Spec => []DocumentedPrecedence
BY PolicyInvariant, PrecedenceHolds, PTL

(***************************************************************************)
(* A packet without readable ports gets no further than one with ports: it *)
(* is blocked wherever some port would be (filter_action).                 *)
(***************************************************************************)
THEOREM NoPortNoEvasion == Spec => []UnknownPortsEvadeNothing
BY PolicyInvariant, UnknownPortsHold, PTL

(***************************************************************************)
(* A block of everything is a default: of every policy with it, only the   *)
(* explicit allows pass (Rules::new, rule_priority).                       *)
(***************************************************************************)
THEOREM BlockAllIsDefault == Spec => []DefaultDeny
BY PolicyInvariant, DefaultDenyHolds, PTL

-----------------------------------------------------------------------------
\* The key under which a packet opens a flow
OpenedKey(pkt, direction) ==
    IF pkt.next_header = "Icmp" THEN EchoKey(direction, direction, pkt)
    ELSE PortKey(pkt.next_header, direction, pkt)

\* What a reply changes of a packet
LEMMA ReplyFields ==
    ASSUME NEW pkt \in Ipv4Packet
    PROVE  LET reply == ReplyTo(pkt)
           IN  /\ reply \in Ipv4Packet
               /\ reply.src = pkt.dst /\ reply.dst = pkt.src
               /\ reply.src_port = pkt.dst_port /\ reply.dst_port = pkt.src_port
               /\ reply.kind = (IF pkt.kind = "EchoRequest" THEN "EchoReply" ELSE "Plain")
               /\ reply.frag = pkt.frag /\ reply.header = pkt.header /\ reply.ident = pkt.ident
               /\ reply.next_header = pkt.next_header
<1> USE DEF Ipv4Packet, ReplyTo
<1> QED OBVIOUS

\* A packet that opens a flow is a candidate, or the answer to a flow of the other side
LEMMA OpenerMatch ==
    ASSUME NEW f, NEW pkt \in Ipv4Packet, Opens(pkt), NEW direction \in FlowDirection, NEW now
    PROVE  LET m == inspect(f, pkt, direction, now)
               key == OpenedKey(pkt, direction)
           IN  \/ \E timeout \in Nat \ {0} : m = candidate(key, direction, now, timeout)
               \/ m = Allowed /\ IsLive(f, key, now)
<1> DEFINE m == inspect(f, pkt, direction, now)
           key == OpenedKey(pkt, direction)
<1>1. ~ IsFragment(pkt) /\ pkt.header = "Ok"
  BY DEF Opens
<1>2. ASSUME NEW timeout \in Nat \ {0},
             m = match_existing_flow(f, key, direction, now, timeout,
                                     candidate(key, direction, now, timeout))
      PROVE  m = candidate(key, direction, now, timeout) \/ (m = Allowed /\ IsLive(f, key, now))
  BY <1>2 DEF match_existing_flow
<1>3. CASE pkt.next_header = "Udp" /\ ~ PortZero(pkt)
  <2>1. m = match_existing_flow(f, key, direction, now, UDP_TIMEOUT,
                                candidate(key, direction, now, UDP_TIMEOUT))
    BY <1>1, <1>3 DEF inspect, inspect_udp, OpenedKey
  <2> QED BY <1>2, <2>1, FlowTableAssumption
<1>4. CASE pkt.next_header = "Tcp" /\ ~ PortZero(pkt) /\ pkt.kind = "Syn"
  <2>1. m = candidate(key, direction, now, SYN_TIMEOUT)
    BY <1>1, <1>4 DEF inspect, inspect_tcp, OpenedKey
  <2> QED BY <2>1, FlowTableAssumption
<1>5. CASE pkt.next_header = "Icmp" /\ pkt.kind = "EchoRequest"
  <2>1. m = match_existing_flow(f, key, direction, now, ECHO_TIMEOUT,
                                candidate(key, direction, now, ECHO_TIMEOUT))
    BY <1>1, <1>5 DEF inspect, inspect_icmp, inspect_echo, OpenedKey
  <2> QED BY <1>2, <2>1, FlowTableAssumption
<1> QED BY <1>3, <1>4, <1>5 DEF Opens

\* The reply meets the live flow of the packet's key: it passes as return traffic,
\* or renews the flow if that is the replier's own
LEMMA ReplyMatch ==
    ASSUME NEW f, NEW pkt \in Ipv4Packet, Opens(pkt), NEW direction \in FlowDirection, NEW now,
           NEW other, other = opposite(direction), NEW key, key = OpenedKey(pkt, direction),
           IsLive(f, key, now), NEW m, m = inspect(f, ReplyTo(pkt), other, now)
    PROVE  \/ m = Allowed
           \/ /\ f[key].initiating_direction = other
              /\ \E timeout \in Nat \ {0} : m = candidate(key, other, now, timeout)
<1> DEFINE reply == ReplyTo(pkt)
<1>1. /\ reply.src = pkt.dst /\ reply.dst = pkt.src
      /\ reply.src_port = pkt.dst_port /\ reply.dst_port = pkt.src_port
      /\ reply.kind = (IF pkt.kind = "EchoRequest" THEN "EchoReply" ELSE "Plain")
      /\ reply.frag = pkt.frag /\ reply.header = pkt.header /\ reply.ident = pkt.ident
      /\ reply.next_header = pkt.next_header
  BY ReplyFields
<1>2. ~ IsFragment(reply) /\ reply.header = "Ok"
  BY <1>1 DEF Opens, IsFragment
<1>3. opposite(other) = direction
  BY DEF opposite, FlowDirection
<1>4. /\ host_vm_pair(other, reply.src, reply.dst) = host_vm_pair(direction, pkt.src, pkt.dst)
      /\ host_vm_pair(other, reply.src_port, reply.dst_port)
            = host_vm_pair(direction, pkt.src_port, pkt.dst_port)
  BY <1>1 DEF host_vm_pair, opposite, FlowDirection
<1>10. m = inspect(f, reply, other, now)
  OBVIOUS
<1> HIDE DEF reply
<1>5. ASSUME NEW timeout \in Nat \ {0},
             m = match_existing_flow(f, key, other, now, timeout, Untracked)
      PROVE  \/ m = Allowed
             \/ f[key].initiating_direction = other /\ m = candidate(key, other, now, timeout)
  BY <1>5 DEF match_existing_flow
<1>6. ASSUME NEW timeout \in Nat \ {0},
             m = match_existing_flow(f, key, other, now, timeout, candidate(key, other, now, timeout))
      PROVE  \/ m = Allowed
             \/ f[key].initiating_direction = other /\ m = candidate(key, other, now, timeout)
  BY <1>6 DEF match_existing_flow
<1>7. CASE pkt.next_header = "Udp" /\ ~ PortZero(pkt)
  <2>1. PortKey("Udp", other, reply) = key
    BY <1>4, <1>7 DEF PortKey, OpenedKey
  <2>2. ~ PortZero(reply) /\ reply.next_header = "Udp"
    BY <1>1, <1>7 DEF PortZero
  <2>3. m = match_existing_flow(f, key, other, now, UDP_TIMEOUT,
                                candidate(key, other, now, UDP_TIMEOUT))
    BY <1>2, <1>10, <2>1, <2>2 DEF inspect, inspect_udp
  <2> QED BY <1>6, <2>3, FlowTableAssumption DEF reply
<1>8. CASE pkt.next_header = "Tcp" /\ ~ PortZero(pkt) /\ pkt.kind = "Syn"
  <2>1. PortKey("Tcp", other, reply) = key
    BY <1>4, <1>8 DEF PortKey, OpenedKey
  <2>2. ~ PortZero(reply) /\ reply.next_header = "Tcp" /\ reply.kind # "Syn"
    BY <1>1, <1>8 DEF PortZero
  <2>3. m = match_existing_flow(f, key, other, now, TCP_TIMEOUT, Untracked)
    BY <1>2, <1>10, <2>1, <2>2 DEF inspect, inspect_tcp
  <2> QED BY <1>5, <2>3, FlowTableAssumption DEF reply
<1>9. CASE pkt.next_header = "Icmp" /\ pkt.kind = "EchoRequest"
  <2>1. EchoKey(other, direction, reply) = key
    BY <1>1, <1>4, <1>9 DEF EchoKey, OpenedKey
  <2>2. reply.kind = "EchoReply" /\ reply.next_header = "Icmp"
    BY <1>1, <1>9
  <2>3. m = match_existing_flow(f, key, other, now, ECHO_TIMEOUT, Untracked)
    BY <1>2, <1>3, <1>10, <2>1, <2>2 DEF inspect, inspect_icmp, inspect_echo
  <2> QED BY <1>5, <2>3, FlowTableAssumption DEF reply
<1> QED BY <1>7, <1>8, <1>9 DEF Opens, reply

\* Sweeping removes no live flow (sweep_if_due)
LEMMA SweptLive ==
    ASSUME NEW key
    PROVE  /\ IsLive(Swept.flows, key, recent) <=> IsLive(flows, key, recent)
           /\ IsLive(flows, key, recent) => Swept.flows[key] = flows[key]
<1>1. CASE recent < next_sweep
  BY <1>1 DEF Swept, sweep_if_due
<1>2. CASE ~ (recent < next_sweep)
  <2> DEFINE f == Retained(flows, recent)
  <2>1. Swept.flows = f
    BY <1>2 DEF Swept, sweep_if_due
  <2>2. /\ DOMAIN f = {k \in DOMAIN flows : recent < flows[k].expires_at}
        /\ \A k \in DOMAIN f : f[k] = flows[k]
    BY RetainedFacts
  <2> HIDE DEF f
  <2> QED BY <2>1, <2>2 DEF IsLive
<1> QED BY <1>1, <1>2

\* In a stateful policy every explicit allow is stateful (policy_decision)
LEMMA StatefulDecisions ==
    ASSUME PolicyOK, has_stateful(rules), NEW pkt, NEW direction \in Direction
    PROVE  policy_decision(rules, pkt, direction) \in {"None", "Block", "AllowStateful"}
<1> DEFINE address == IF direction = "In" THEN pkt.src ELSE pkt.dst
           protocol == pkt.next_header
           port == packet_ports(pkt).destination
           decision == Decision(rules, direction, address, protocol, port)
           C == {e \in Entries(rules, direction) : Fits(e, address, protocol, port)}
<1>1. policy_decision(rules, pkt, direction) = decision
  BY DEF policy_decision
<1> HIDE DEF address, protocol, port
<1>2. /\ C = {} => decision = "None"
      /\ C # {} => \E e \in C : decision = IF e.action = "Block" THEN "Block"
                                           ELSE IF rules.mode = "Legacy" THEN "AllowStateless"
                                           ELSE "AllowStateful"
  BY DecisionFacts
<1>3. rules.mode # "Legacy"
  BY DEF has_stateful
<1> HIDE DEF C, decision
<1> QED BY <1>1, <1>2, <1>3

\* A pending flow that is admitted with tracking is live afterwards (commit)
LEMMA CommittedIsLive ==
    ASSUME recent \in Nat, NEW f, NEW key, NEW direction, NEW timeout \in Nat \ {0},
           admit_with_tracking(f, candidate(key, direction, recent, timeout)).admitted
    PROVE  IsLive(admit_with_tracking(f, candidate(key, direction, recent, timeout)).flows, key, recent)
<1> DEFINE c == candidate(key, direction, recent, timeout)
           g == insert(f, key, c.flow)
<1>1. c.type = "Candidate" /\ c.key = key /\ c.flow.expires_at = recent + timeout
  BY DEF candidate
<1>2. admit_with_tracking(f, c) = Admit(g)
  BY <1>1 DEF admit_with_tracking, Drop
<1>3. key \in DOMAIN g /\ g[key] = c.flow
  BY DEF insert
<1>4. recent < g[key].expires_at
  BY <1>1, <1>3
<1> HIDE DEF g
<1> QED BY <1>2, <1>3, <1>4 DEF Admit, IsLive

\* The flow of a packet from the VM that opens one and gets through is live
LEMMA VmOpenerLive ==
    ASSUME IInv, PolicyOK, tracking, NEW pkt \in Ipv4Packet, Opens(pkt),
           AdmissionFromVm(pkt).admitted
    PROVE  IsLive(AdmissionFromVm(pkt).flows, OpenedKey(pkt, "FromVm"), recent)
<1> DEFINE f == Swept.flows
           m == inspect(f, pkt, "FromVm", recent)
           key == OpenedKey(pkt, "FromVm")
           decision == policy_decision(rules, pkt, "Out")
<1>1. recent \in Nat /\ has_stateful(rules)
  BY DEF IInv
<1>2. \/ \E timeout \in Nat \ {0} : m = candidate(key, "FromVm", recent, timeout)
      \/ m = Allowed /\ IsLive(f, key, recent)
  <2>1. "FromVm" \in FlowDirection
    BY DEF FlowDirection
  <2> QED BY <2>1, OpenerMatch
<1>3. AdmissionFromVm(pkt) = IF m.type = "Allowed" THEN Admit(f)
                             ELSE IF m.type = "Denied" THEN Drop(f)
                             ELSE OutboundPolicy(f, m, pkt)
  BY DEF AdmissionFromVm, FlowMatch
<1>4. decision \in {"None", "Block", "AllowStateful"}
  BY <1>1, StatefulDecisions DEF Direction
<1> HIDE DEF f, m, key
<1>5. CASE m = Allowed /\ IsLive(f, key, recent)
  BY <1>3, <1>5 DEF Allowed, Admit, key
<1>6. ASSUME NEW timeout \in Nat \ {0}, m = candidate(key, "FromVm", recent, timeout)
      PROVE  IsLive(AdmissionFromVm(pkt).flows, key, recent)
  <2>1. m.type = "Candidate"
    BY <1>6 DEF candidate
  <2>2. AdmissionFromVm(pkt) = OutboundPolicy(f, m, pkt)
    BY <1>3, <2>1
  <2>3. OutboundPolicy(f, m, pkt) \in {Drop(f), admit_with_tracking(f, m)}
    BY <1>4, <2>1 DEF OutboundPolicy, admit_with_tracking_if_trackable
  <2>4. AdmissionFromVm(pkt) = admit_with_tracking(f, m)
    BY <2>2, <2>3 DEF Drop
  <2> QED BY <1>1, <1>6, <2>4, CommittedIsLive
<1> QED BY <1>2, <1>5, <1>6 DEF key

\* Whether a request is tracked for the sake of its reply is asked of the rule that
\* decides the reply (is_stateful)
LEMMA ReplyForeseen ==
    ASSUME has_stateful(rules), NEW pkt \in Ipv4Packet
    PROVE  is_stateful(rules, pkt, "Out") <=> policy_decision(rules, ReplyTo(pkt), "Out") # "None"
<1> DEFINE reply == ReplyTo(pkt)
           action == select(Entries(rules, "Out"), pkt.src, pkt.next_header, packet_ports(pkt).source)
<1>1. /\ reply.dst = pkt.src /\ reply.next_header = pkt.next_header
      /\ reply.src_port = pkt.dst_port /\ reply.dst_port = pkt.src_port
      /\ reply.frag = pkt.frag /\ reply.header = pkt.header
  BY ReplyFields
<1> HIDE DEF reply
<1>2. packet_ports(reply).destination = packet_ports(pkt).source
  BY <1>1 DEF packet_ports, PortsKnown, IsFragment
<1> HIDE DEF action
<1>3. policy_decision(rules, reply, "Out") = IF action # "Allow" THEN action
                                             ELSE IF rules.mode = "Legacy" THEN "AllowStateless"
                                             ELSE "AllowStateful"
  BY <1>1, <1>2 DEF policy_decision, Decision, action
<1>4. is_stateful(rules, pkt, "Out") <=> action # "None"
  BY DEF is_stateful, has_stateful, action
<1> QED BY <1>3, <1>4 DEF reply

\* So is the flow of one from the host, if some rule is about it or its reply
LEMMA HostOpenerLive ==
    ASSUME IInv, PolicyOK, tracking, NEW pkt \in Ipv4Packet, Opens(pkt),
           pkt.dst = vm_ip, RuleDecides(pkt), AdmissionFromHost(pkt).admitted
    PROVE  IsLive(AdmissionFromHost(pkt).flows, OpenedKey(pkt, "FromHost"), recent)
<1> DEFINE f == Swept.flows
           m == inspect(f, pkt, "FromHost", recent)
           key == OpenedKey(pkt, "FromHost")
           decision == policy_decision(rules, pkt, "In")
<1>1. recent \in Nat /\ has_stateful(rules)
  BY DEF IInv
<1>2. \/ \E timeout \in Nat \ {0} : m = candidate(key, "FromHost", recent, timeout)
      \/ m = Allowed /\ IsLive(f, key, recent)
  <2>1. "FromHost" \in FlowDirection
    BY DEF FlowDirection
  <2> QED BY <2>1, OpenerMatch
<1>3. decision \in {"None", "Block", "AllowStateful"}
  BY <1>1, StatefulDecisions DEF Direction
<1>4. AdmissionFromHost(pkt) = IF m.type = "Allowed" THEN Admit(f)
                               ELSE IF m.type = "Denied" THEN Drop(f)
                               ELSE InboundPolicy(f, m, pkt)
  BY DEF AdmissionFromHost, FlowMatch, Drop
<1>7. decision = "None" => is_stateful(rules, pkt, "Out")
  BY <1>1, ReplyForeseen DEF RuleDecides
<1> HIDE DEF f, m, key, decision
<1>5. CASE m = Allowed /\ IsLive(f, key, recent)
  BY <1>4, <1>5 DEF Allowed, Admit, key
<1>6. ASSUME NEW timeout \in Nat \ {0}, m = candidate(key, "FromHost", recent, timeout)
      PROVE  IsLive(AdmissionFromHost(pkt).flows, key, recent)
  <2>1. m.type = "Candidate"
    BY <1>6 DEF candidate
  <2>2. AdmissionFromHost(pkt) = InboundPolicy(f, m, pkt)
    BY <1>4, <2>1
  <2>3. InboundPolicy(f, m, pkt) \in {Drop(f), admit_with_tracking(f, m)}
    BY <1>3, <1>7, <2>1
       DEF InboundPolicy, decision, admit_with_tracking_if_stateful, admit_with_tracking_if_trackable
  <2>4. AdmissionFromHost(pkt) = admit_with_tracking(f, m)
    BY <2>2, <2>3 DEF Drop
  <2> QED BY <1>1, <1>6, <2>4, CommittedIsLive
<1> QED BY <1>2, <1>5, <1>6 DEF key

\* A flow that is in the table can be renewed even when the table is full (commit)
LEMMA RenewalAdmitted ==
    ASSUME NEW f, NEW key \in DOMAIN f, NEW direction, NEW timeout, NEW pkt, NEW way, NEW m,
           m = candidate(key, direction, recent, timeout)
    PROVE  /\ admit_with_tracking(f, m).admitted
           /\ admit_with_tracking_if_trackable(f, m).admitted
           /\ admit_with_tracking_if_stateful(f, m, pkt, way).admitted
<1>1. m.type = "Candidate" /\ m.key = key
  BY DEF candidate
<1>2. admit_with_tracking(f, m).admitted
  BY <1>1 DEF admit_with_tracking, HasRoom, Admit
<1>3. admit_with_tracking_if_trackable(f, m).admitted
  BY <1>1, <1>2 DEF admit_with_tracking_if_trackable
<1> QED BY <1>2, <1>3 DEF admit_with_tracking_if_stateful, Admit

\* The question that a candidate's key puts to the policy is the packet's own (candidate)
LEMMA CandidateDecision ==
    ASSUME NEW f, NEW pkt, pkt \in Ipv4Packet, NEW now, now \in Nat
    PROVE  /\ inspect(f, pkt, "FromHost", now).type = "Candidate" =>
                 OpeningDecision(rules, inspect(f, pkt, "FromHost", now).key, "FromHost")
                     = policy_decision(rules, pkt, "In")
           /\ inspect(f, pkt, "FromVm", now).type = "Candidate" =>
                 /\ inspect(f, pkt, "FromVm", now).key.host_addr = pkt.dst
                 /\ OpeningDecision(rules, inspect(f, pkt, "FromVm", now).key, "FromVm")
                        = policy_decision(rules, pkt, "Out")
<1>1. "FromVm" \in FlowDirection /\ "FromHost" \in FlowDirection
  BY DEF FlowDirection
<1>2. ASSUME NEW m, m = inspect(f, pkt, "FromHost", now), m.type = "Candidate"
      PROVE  /\ m.key.host_addr = pkt.src
             /\ OpeningDecision(rules, m.key, "FromHost") = policy_decision(rules, pkt, "In")
  BY <1>1, <1>2, CandidateFacts
<1>3. ASSUME NEW m, m = inspect(f, pkt, "FromVm", now), m.type = "Candidate"
      PROVE  /\ m.key.host_addr = pkt.dst
             /\ OpeningDecision(rules, m.key, "FromVm") = policy_decision(rules, pkt, "Out")
  BY <1>1, <1>3, CandidateFacts
<1> QED
  BY <1>2, <1>3, Zenon

\* The host's reply to a live flow's packet is admitted (allowed_from_host_ipv4)
LEMMA ReplyToVmAdmitted ==
    ASSUME IInv, tracking, NEW pkt \in Ipv4Packet, Opens(pkt), pkt.src = vm_ip, ~ IsDhcp(pkt),
           IsLive(flows, OpenedKey(pkt, "FromVm"), recent)
    PROVE  AdmissionFromHost(ReplyTo(pkt)).admitted
<1> DEFINE reply == ReplyTo(pkt)
           f == Swept.flows
           m == inspect(f, reply, "FromHost", recent)
           key == OpenedKey(pkt, "FromVm")
           decision == policy_decision(rules, reply, "In")
<1>1. reply \in Ipv4Packet /\ reply.dst = vm_ip /\ ~ IsDhcpReply(reply)
  BY ReplyFields DEF IsDhcp, IsDhcpReply, HasPortFields
<1>2. "FromVm" \in FlowDirection /\ "FromHost" \in FlowDirection /\ opposite("FromVm") = "FromHost"
  BY DEF FlowDirection, opposite
<1>3. IsLive(f, key, recent)
  BY SweptLive
<1>4. AdmissionFromHost(reply) = IF m.type = "Allowed" THEN Admit(f)
                                 ELSE IF m.type = "Denied" THEN Drop(f)
                                 ELSE InboundPolicy(f, m, reply)
  BY <1>1 DEF AdmissionFromHost, FlowMatch
<1>5. TableOK(f, Swept.next_sweep) /\ recent \in Nat
  BY SweepOK DEF IInv
<1>6. key = OpenedKey(pkt, "FromVm") /\ m = inspect(f, reply, "FromHost", recent)
  OBVIOUS
<1> HIDE DEF f, m, key, decision
<1>7. \/ m = Allowed
      \/ /\ f[key].initiating_direction = "FromHost"
         /\ \E timeout \in Nat \ {0} : m = candidate(key, "FromHost", recent, timeout)
  BY <1>2, <1>3, <1>6, ReplyMatch, SMTT(30) DEF reply
<1> HIDE DEF reply
<1>10. m.type = "Candidate" => OpeningDecision(rules, m.key, "FromHost") = decision
  BY <1>1, <1>5, <1>6, CandidateDecision, Zenon DEF decision
<1>8. CASE m = Allowed
  BY <1>4, <1>8 DEF Allowed, Admit, reply
<1>9. ASSUME f[key].initiating_direction = "FromHost",
             NEW timeout \in Nat \ {0}, m = candidate(key, "FromHost", recent, timeout)
      PROVE  AdmissionFromHost(reply).admitted
  <2>1. key \in DOMAIN f /\ m.type = "Candidate" /\ m.key = key
    BY <1>3, <1>9 DEF IsLive, candidate
  <2>2. Lets(OpeningDecision(rules, key, "FromHost"), key.host_addr, "FromHost")
    BY <1>5, <1>9, <2>1 DEF TableOK, Authorised
  <2>3. decision \notin {"Block", "AllowStateless"}
    BY <1>10, <2>1, <2>2 DEF Lets
  <2>4. AdmissionFromHost(reply) = InboundPolicy(f, m, reply)
    BY <1>4, <2>1
  <2>5. InboundPolicy(f, m, reply) \in {admit_with_tracking(f, m),
                                       admit_with_tracking_if_stateful(f, m, reply, "Out")}
    BY <2>3 DEF InboundPolicy, decision
  <2>6. /\ admit_with_tracking(f, m).admitted
        /\ admit_with_tracking_if_stateful(f, m, reply, "Out").admitted
    BY <1>9, <2>1, RenewalAdmitted
  <2> QED BY <2>4, <2>5, <2>6
<1> QED BY <1>7, <1>8, <1>9 DEF reply

\* So is the VM's (allowed_from_vm_ipv4)
LEMMA ReplyToHostAdmitted ==
    ASSUME IInv, tracking, NEW pkt \in Ipv4Packet, Opens(pkt),
           IsLive(flows, OpenedKey(pkt, "FromHost"), recent)
    PROVE  AdmissionFromVm(ReplyTo(pkt)).admitted
<1> DEFINE reply == ReplyTo(pkt)
           f == Swept.flows
           m == inspect(f, reply, "FromVm", recent)
           key == OpenedKey(pkt, "FromHost")
           decision == policy_decision(rules, reply, "Out")
<1>1. reply \in Ipv4Packet
  BY ReplyFields
<1>2. "FromVm" \in FlowDirection /\ "FromHost" \in FlowDirection /\ opposite("FromHost") = "FromVm"
  BY DEF FlowDirection, opposite
<1>3. IsLive(f, key, recent)
  BY SweptLive
<1>4. AdmissionFromVm(reply) = IF m.type = "Allowed" THEN Admit(f)
                               ELSE IF m.type = "Denied" THEN Drop(f)
                               ELSE OutboundPolicy(f, m, reply)
  BY DEF AdmissionFromVm, FlowMatch
<1>5. TableOK(f, Swept.next_sweep) /\ recent \in Nat
  BY SweepOK DEF IInv
<1>6. key = OpenedKey(pkt, "FromHost") /\ m = inspect(f, reply, "FromVm", recent)
  OBVIOUS
<1> HIDE DEF f, m, key, decision
<1>7. \/ m = Allowed
      \/ /\ f[key].initiating_direction = "FromVm"
         /\ \E timeout \in Nat \ {0} : m = candidate(key, "FromVm", recent, timeout)
  BY <1>2, <1>3, <1>6, ReplyMatch, SMTT(30) DEF reply
<1> HIDE DEF reply
<1>10. m.type = "Candidate" => /\ m.key.host_addr = reply.dst
                               /\ OpeningDecision(rules, m.key, "FromVm") = decision
  BY <1>1, <1>5, <1>6, CandidateDecision, Zenon DEF decision
<1>8. CASE m = Allowed
  BY <1>4, <1>8 DEF Allowed, Admit, reply
<1>9. ASSUME f[key].initiating_direction = "FromVm",
             NEW timeout \in Nat \ {0}, m = candidate(key, "FromVm", recent, timeout)
      PROVE  AdmissionFromVm(reply).admitted
  <2>1. key \in DOMAIN f /\ m.type = "Candidate" /\ m.key = key
    BY <1>3, <1>9 DEF IsLive, candidate
  <2>2. Lets(OpeningDecision(rules, key, "FromVm"), key.host_addr, "FromVm")
    BY <1>5, <1>9, <2>1 DEF TableOK, Authorised
  <2>3. decision \in {"AllowStateless", "AllowStateful"}
           \/ (decision # "Block" /\ BuiltInDestination(reply.dst))
    BY <1>10, <2>1, <2>2 DEF Lets
  <2>4. AdmissionFromVm(reply) = OutboundPolicy(f, m, reply)
    BY <1>4, <2>1
  <2>5. OutboundPolicy(f, m, reply) \in {admit_with_tracking(f, m),
                                        admit_with_tracking_if_trackable(f, m),
                                        admit_with_tracking_if_stateful(f, m, reply, "In")}
    BY <2>3 DEF OutboundPolicy, decision
  <2>6. /\ admit_with_tracking(f, m).admitted
        /\ admit_with_tracking_if_trackable(f, m).admitted
        /\ admit_with_tracking_if_stateful(f, m, reply, "In").admitted
    BY <1>9, <2>1, RenewalAdmitted
  <2> QED BY <2>4, <2>5, <2>6
<1> QED BY <1>7, <1>8, <1>9 DEF reply

(***************************************************************************)
(* The strengthening for RequestsAnswerable: the flow of the packet that   *)
(* was just forwarded is live, be it a new one or one of the other side.   *)
(***************************************************************************)
LastOpenerLive ==
    (tracking /\ out.to \in {"Host", "Vm"} /\ out.frame \notin {DhcpReply, DnsReply}
              /\ out.frame.ethertype = "Ipv4") =>
        LET pkt == out.frame.pkt IN
        /\ pkt \in Ipv4Packet
        /\ (out.to = "Host" /\ Opens(pkt)) =>
              /\ pkt.src = vm_ip /\ ~ IsDhcp(pkt)
              /\ IsLive(flows, OpenedKey(pkt, "FromVm"), recent)
        /\ (out.to = "Vm" /\ Opens(pkt) /\ pkt.dst = vm_ip /\ RuleDecides(pkt)) =>
              IsLive(flows, OpenedKey(pkt, "FromHost"), recent)

\* Every event leaves it so (process_frame_from_vm, process_frame_from_host)
LEMMA OpenerStep ==
    ASSUME IInv, PolicyOK, LastOpenerLive, [Next]_vars
    PROVE  LastOpenerLive'
<1>1. ASSUME out' = Nothing \/ out'.to = "Control" \/ write_to_vm(DhcpReply) \/ write_to_vm(DnsReply)
      PROVE  LastOpenerLive'
  <2>1. out'.to \in {"Host", "Vm"} => out'.frame \in {DhcpReply, DnsReply}
    BY <1>1 DEF write_to_vm, ToVm, Nothing
  <2> QED BY <2>1 DEF LastOpenerLive
<1>2. ASSUME NEW frame \in VmFrames, process_frame_from_vm(frame) PROVE LastOpenerLive'
  <2>1. CASE out' # ToHost(frame)
    BY <1>1, <1>2, <2>1 DEF process_frame_from_vm, VmFrameUntracked, VmFrameInspected
  <2>2. CASE out' = ToHost(frame) /\ frame.ethertype # "Ipv4"
    BY <2>2 DEF ToHost, LastOpenerLive
  <2>3. CASE out' = ToHost(frame) /\ frame.ethertype = "Ipv4"
    <3> DEFINE pkt == frame.pkt
    <3>1. pkt \in Ipv4Packet
      BY <2>3, ProxyAssumption
    <3>2. VmFrameInspected(frame)
      BY <1>2, <2>3, ProxyAssumption
         DEF process_frame_from_vm, VmFrameUntracked, vm_arp_allowed, write_to_vm, ToHost, ToVm, Nothing
    <3>3. /\ pkt.src = vm_ip /\ ~ IsDhcp(pkt)
          /\ flows' = AdmissionFromVm(pkt).flows
          /\ out' = IF AdmissionFromVm(pkt).admitted THEN ToHost(frame) ELSE Nothing
      BY <3>2 DEF VmFrameInspected
    <3>4. AdmissionFromVm(pkt).admitted
      <4>1. ToHost(frame).to # Nothing.to
        BY DEF ToHost, Nothing
      <4> QED BY <2>3, <3>3, <4>1
    <3>5. tracking' = tracking /\ recent' = recent
      BY <1>2 DEF process_frame_from_vm, Unfiltered
    <3>6. tracking /\ Opens(pkt) => IsLive(flows', OpenedKey(pkt, "FromVm"), recent')
      BY <3>1, <3>3, <3>4, <3>5, VmOpenerLive
    <3>7. out'.to = "Host" /\ out'.frame = frame
      BY <2>3 DEF ToHost
    <3> QED BY <3>1, <3>3, <3>5, <3>6, <3>7 DEF LastOpenerLive
  <2> QED BY <2>1, <2>2, <2>3
<1>3. ASSUME NEW frame \in HostFrames, process_frame_from_host(frame) PROVE LastOpenerLive'
  <2>1. CASE out' # ToVm(frame)
    BY <1>1, <1>3, <2>1 DEF process_frame_from_host, write_to_vm
  <2>2. CASE out' = ToVm(frame) /\ frame.ethertype # "Ipv4"
    BY <2>2 DEF ToVm, LastOpenerLive
  <2>3. CASE out' = ToVm(frame) /\ frame.ethertype = "Ipv4"
    <3> DEFINE pkt == frame.pkt
    <3>1. pkt \in Ipv4Packet
      BY <2>3, ProxyAssumption
    <3>2. AdmissionFromHost(pkt).admitted /\ flows' = AdmissionFromHost(pkt).flows
      BY <1>3, <2>3 DEF process_frame_from_host, ToVm, Nothing
    <3>3. tracking' = tracking /\ recent' = recent /\ rules' = rules
      BY <1>3 DEF process_frame_from_host, Unfiltered
    <3>4. tracking /\ Opens(pkt) /\ pkt.dst = vm_ip /\ RuleDecides(pkt)
             => IsLive(flows', OpenedKey(pkt, "FromHost"), recent')
      BY <3>1, <3>2, <3>3, HostOpenerLive
    <3>5. out'.to = "Vm" /\ out'.frame = frame
      BY <2>3 DEF ToVm
    <3> QED BY <3>1, <3>3, <3>4, <3>5 DEF LastOpenerLive, RuleDecides
  <2> QED BY <2>1, <2>2, <2>3
<1>4. CASE (\E policy \in Policies : policy_set(policy)) \/ PolicyGet
  <2>1. out' \in {policy_get', policy_get}
    BY <1>4 DEF policy_set, PolicyGet
  <2>2. out'.to = "Control"
    BY <2>1 DEF policy_get
  <2> QED BY <1>1, <2>2
<1>5. CASE Tick
  BY <1>1, <1>5 DEF Tick
<1>6. CASE UNCHANGED vars
  BY <1>6 DEF vars, LastOpenerLive, RuleDecides
<1> QED BY <1>2, <1>3, <1>4, <1>5, <1>6 DEF Next

(***************************************************************************)
(* A request that got through can be answered, for every policy, all       *)
(* traffic and a table of any size, full or not (allowed_from_vm_ipv4,     *)
(* allowed_from_host_ipv4, commit).                                        *)
(***************************************************************************)
THEOREM RepliesPass == Spec => []RequestsAnswerable
<1>1. Init => LastOpenerLive
  <2>1. Init => out.to = "Nobody"
    BY DEF Init, Nothing
  <2> QED BY <2>1 DEF LastOpenerLive
<1>2. IInv /\ PolicyOK /\ LastOpenerLive /\ [Next]_vars => LastOpenerLive'
  BY OpenerStep
<1>3. IInv /\ LastOpenerLive => RequestsAnswerable
  BY ReplyToVmAdmitted, ReplyToHostAdmitted DEF LastOpenerLive, RequestsAnswerable
<1> QED BY <1>1, <1>2, <1>3, Invariance, PolicyInvariant, PTL DEF Spec
=============================================================================
