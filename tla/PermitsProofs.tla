---------------------------- MODULE PermitsProofs ----------------------------
(***************************************************************************)
(* The packet filter implements ReturnPermits, for every policy, all       *)
(* traffic, every capacity and all timeouts.                               *)
(*                                                                         *)
(* The permits are the flows that have not expired (LivePermits).  The     *)
(* argument has three parts: sweeping a table and refusing a flow change   *)
(* no permit; the key and the lifetime of a pending flow are those of the  *)
(* frame that it came with, whichever inspection built it; and whatever    *)
(* admission does with the flow, the frame passes for a reason that the    *)
(* promise knows.                                                          *)
(***************************************************************************)
EXTENDS ProxyProofs

\* The permits of a table at the present time
Permits(f) ==
    {[tuple |-> k, opener |-> f[k].initiating_direction, until |-> f[k].expires_at] :
        k \in {k \in DOMAIN f : recent < f[k].expires_at}}

PolicyInForce == [allow |-> allow, block |-> block, rules |-> rules]

\* Reasons for an outcome that the promise knows: refusal, policy, a permit
Refused(o) == ~ o.admitted /\ Permits(o.flows) = LivePermits

PassesByPolicy(frame, way, o) ==
    /\ o.admitted
    /\ FrameApproved(PolicyInForce, way, frame)
    /\ \/ FrameTuple(frame, way) # NoTuple /\ Permits(o.flows) = Promise!Granted(frame, way)
       \/ Permits(o.flows) = LivePermits /\ ~ FrameMustBeTracked(PolicyInForce, way, frame)

PassesByPermit(frame, way, o) ==
    /\ o.admitted
    /\ Permits(o.flows) = LivePermits
    /\ \E p \in LivePermits : p.tuple = FrameTuple(frame, way) /\ p.opener # way

Explained(frame, way, o) ==
    Refused(o) \/ PassesByPolicy(frame, way, o) \/ PassesByPermit(frame, way, o)

-----------------------------------------------------------------------------
\* A sweep changes no permit, since it drops what has expired (sweep_if_due)
LEMMA SweepInvisible == Permits(Swept.flows) = LivePermits
<1>1. CASE recent < next_sweep
  BY <1>1 DEF Swept, sweep_if_due, Permits, LivePermits
<1>2. CASE ~ (recent < next_sweep)
  <2> DEFINE f == Retained(flows, recent)
  <2>1. Swept.flows = f
    BY <1>2 DEF Swept, sweep_if_due
  <2>2. /\ DOMAIN f = {k \in DOMAIN flows : recent < flows[k].expires_at}
        /\ \A k \in DOMAIN f : f[k] = flows[k]
    BY RetainedFacts
  <2> HIDE DEF f
  <2>3. {k \in DOMAIN f : recent < f[k].expires_at} = {k \in DOMAIN flows : recent < flows[k].expires_at}
    BY <2>2
  <2> QED
    BY <2>1, <2>2, <2>3 DEF Permits, LivePermits
<1> QED
  BY <1>1, <1>2

\* A commit grants one permit and replaces the one of the same tuple (commit)
LEMMA CommitGrants ==
    ASSUME NEW f, NEW key, NEW flow, recent < flow.expires_at
    PROVE  Permits(insert(f, key, flow)) =
               {p \in Permits(f) : p.tuple # key}
               \cup {[tuple |-> key, opener |-> flow.initiating_direction, until |-> flow.expires_at]}
<1> DEFINE g == insert(f, key, flow)
           permit(h, k) == [tuple |-> k, opener |-> h[k].initiating_direction, until |-> h[k].expires_at]
<1>1. /\ DOMAIN g = DOMAIN f \cup {key}
      /\ g[key] = flow
      /\ \A k \in DOMAIN f : k # key => g[k] = f[k]
  BY DEF insert
<1> HIDE DEF g
<1>2. ASSUME NEW p \in Permits(g)
      PROVE  p \in {q \in Permits(f) : q.tuple # key} \cup {permit(g, key)}
  <2>1. PICK k \in DOMAIN g : recent < g[k].expires_at /\ p = permit(g, k)
    BY <1>2 DEF Permits
  <2>2. CASE k = key
    BY <2>1, <2>2
  <2>3. CASE k # key
    <3>1. k \in DOMAIN f /\ g[k] = f[k]
      BY <1>1, <2>1, <2>3
    <3>2. p = permit(f, k) /\ recent < f[k].expires_at
      BY <2>1, <3>1
    <3>3. p \in Permits(f)
      BY <3>1, <3>2 DEF Permits
    <3>4. p.tuple # key
      BY <2>3, <3>2
    <3> QED
      BY <3>3, <3>4
  <2> QED
    BY <2>2, <2>3
<1>3. ASSUME NEW p \in Permits(f), p.tuple # key
      PROVE  p \in Permits(g)
  <2>1. PICK k \in DOMAIN f : recent < f[k].expires_at /\ p = permit(f, k)
    BY <1>3 DEF Permits
  <2>2. k # key
    BY <1>3, <2>1
  <2>3. k \in DOMAIN g /\ g[k] = f[k]
    BY <1>1, <2>1, <2>2
  <2> QED
    BY <2>1, <2>3 DEF Permits
<1>4. permit(g, key) \in Permits(g)
  BY <1>1 DEF Permits
<1>5. permit(g, key)
          = [tuple |-> key, opener |-> flow.initiating_direction, until |-> flow.expires_at]
  BY <1>1
<1> HIDE DEF permit
<1> QED
  BY <1>2, <1>3, <1>4, <1>5 DEF g

-----------------------------------------------------------------------------
\* What the table has to say of a packet (match_existing_flow)
LEMMA MatchCases ==
    ASSUME NEW f, NEW key, NEW direction, NEW now, NEW timeout, NEW missing, NEW m,
           m = match_existing_flow(f, key, direction, now, timeout, missing)
    PROVE  \/ m = missing
           \/ m = candidate(key, direction, now, timeout)
           \/ /\ m = Allowed
              /\ IsLive(f, key, now) /\ f[key].initiating_direction # direction
BY DEF match_existing_flow

\* What inspection returns of a packet is about the tuple of its frame: a pending flow
\* has the frame's tuple and lifetime, and a packet is allowed only as the answer to a
\* live flow of that tuple (inspect_tcp, inspect_udp, inspect_icmp)
LEMMA InspectionOfFrame ==
    ASSUME NEW f, NEW frame, NEW way \in FlowDirection, NEW now, NEW m,
           frame.ethertype = "Ipv4", frame.pkt \in Ipv4Packet,
           m = inspect(f, frame.pkt, way, now)
    PROVE  /\ m.type = "Candidate" =>
                 /\ m = candidate(FrameTuple(frame, way), way, now, FrameLifetime(frame))
                 /\ FrameTuple(frame, way) # NoTuple
           /\ m.type = "Allowed" =>
                 /\ IsLive(f, FrameTuple(frame, way), now)
                 /\ f[FrameTuple(frame, way)].initiating_direction # way
<1> DEFINE pkt == frame.pkt
           tuple == FrameTuple(frame, way)
<1>1. CASE m.type \notin {"Candidate", "Allowed"}
  BY <1>1
<1>2. ASSUME m.type \in {"Candidate", "Allowed"} PROVE ~ IsFragment(pkt)
  BY <1>2 DEF inspect, Untracked
<1>3. CASE m.type \in {"Candidate", "Allowed"} /\ pkt.next_header \in {"Tcp", "Udp"}
  <2> DEFINE key == PortKey(pkt.next_header, way, pkt)
  <2>1. pkt.header = "Ok" /\ ~ PortZero(pkt)
    <3>1. m = IF pkt.next_header = "Tcp" THEN inspect_tcp(f, pkt, way, now)
                                         ELSE inspect_udp(f, pkt, way, now)
      BY <1>2, <1>3 DEF inspect
    <3> QED
      BY <1>3, <3>1 DEF inspect_tcp, inspect_udp, Denied
  <2>2. tuple = key
    BY <1>2, <1>3, <2>1 DEF FrameTuple
  <2>3. key # NoTuple
    <3>1. key.protocol = pkt.next_header /\ NoTuple.protocol = "None"
      BY DEF PortKey, NoTuple
    <3> QED
      BY <1>3, <3>1
  <2>4. \/ m = candidate(key, way, now, FrameLifetime(frame))
        \/ m = Allowed /\ IsLive(f, key, now) /\ f[key].initiating_direction # way
    <3>1. CASE pkt.next_header = "Tcp"
      <4>1. m = inspect_tcp(f, pkt, way, now)
        BY <1>2, <1>3, <3>1 DEF inspect
      <4>2. CASE pkt.kind = "Syn"
        BY <2>1, <3>1, <4>1, <4>2 DEF inspect_tcp, FrameLifetime
      <4>3. CASE pkt.kind # "Syn"
        <5>1. m = match_existing_flow(f, key, way, now, TCP_TIMEOUT, Untracked)
          BY <2>1, <3>1, <4>1, <4>3 DEF inspect_tcp
        <5>2. FrameLifetime(frame) = TCP_TIMEOUT
          BY <3>1, <4>3 DEF FrameLifetime
        <5> QED
          BY <1>3, <5>1, <5>2, MatchCases DEF Untracked
      <4> QED
        BY <4>2, <4>3
    <3>2. CASE pkt.next_header = "Udp"
      <4>1. m = inspect_udp(f, pkt, way, now)
        BY <1>2, <1>3, <3>2 DEF inspect
      <4>2. m = match_existing_flow(f, key, way, now, UDP_TIMEOUT,
                                    candidate(key, way, now, UDP_TIMEOUT))
        BY <2>1, <3>2, <4>1 DEF inspect_udp
      <4>3. FrameLifetime(frame) = UDP_TIMEOUT
        BY <3>2 DEF FrameLifetime
      <4> QED
        BY <4>2, <4>3, MatchCases
    <3> QED
      BY <1>3, <3>1, <3>2
  <2> QED
    BY <2>2, <2>3, <2>4 DEF candidate, Allowed
<1>4. CASE m.type \in {"Candidate", "Allowed"} /\ pkt.next_header = "Icmp"
  <2>1. m = inspect_icmp(f, pkt, way, now)
    BY <1>2, <1>4 DEF inspect
  <2>2. pkt.header = "Ok" /\ pkt.kind \in {"EchoRequest", "EchoReply"}
    BY <1>4, <2>1 DEF inspect_icmp, Denied, Untracked
  <2>3. m = inspect_echo(f, pkt, way, pkt.kind = "EchoRequest", now)
    BY <2>1, <2>2 DEF inspect_icmp
  <2> DEFINE initiating == IF pkt.kind = "EchoRequest" THEN way ELSE opposite(way)
             key == EchoKey(way, initiating, pkt)
  <2>4. tuple = key
    BY <1>2, <1>4, <2>2 DEF FrameTuple
  <2>5. key # NoTuple
    <3>1. key.protocol = "Icmp" /\ NoTuple.protocol = "None"
      BY DEF EchoKey, NoTuple
    <3> QED
      BY <3>1
  <2>6. FrameLifetime(frame) = ECHO_TIMEOUT
    BY <1>4 DEF FrameLifetime
  <2>7. \/ m = candidate(key, way, now, ECHO_TIMEOUT)
        \/ m = Allowed /\ IsLive(f, key, now) /\ f[key].initiating_direction # way
    <3>1. CASE pkt.kind = "EchoRequest"
      <4>1. m = match_existing_flow(f, key, way, now, ECHO_TIMEOUT,
                                    candidate(key, way, now, ECHO_TIMEOUT))
        BY <2>3, <3>1 DEF inspect_echo
      <4> QED
        BY <4>1, MatchCases
    <3>2. CASE pkt.kind = "EchoReply"
      <4>1. m = match_existing_flow(f, key, way, now, ECHO_TIMEOUT, Untracked)
        BY <2>3, <3>2 DEF inspect_echo
      <4> QED
        BY <1>4, <4>1, MatchCases DEF Untracked
    <3> QED
      BY <2>2, <3>1, <3>2
  <2> QED
    BY <2>4, <2>5, <2>6, <2>7 DEF candidate, Allowed
<1>5. CASE m.type \in {"Candidate", "Allowed"} /\ pkt.next_header = "Other"
  BY <1>2, <1>5 DEF inspect, Untracked
<1>6. pkt.next_header \in {"Tcp", "Udp", "Icmp", "Other"}
  BY DEF Ipv4Packet, Protocol
<1> QED
  BY <1>1, <1>3, <1>4, <1>5, <1>6

-----------------------------------------------------------------------------
\* A match that flow inspection can give for a frame
MatchOf(f, frame, way, match) ==
    /\ match.type = "Candidate" =>
          /\ match = candidate(FrameTuple(frame, way), way, recent, FrameLifetime(frame))
          /\ FrameTuple(frame, way) # NoTuple
    /\ match.type = "Allowed" =>
          /\ IsLive(f, FrameTuple(frame, way), recent)
          /\ f[FrameTuple(frame, way)].initiating_direction # way

\* Lifetimes are positive (the timeouts of flows/mod.rs)
LEMMA LifetimePositive ==
    ASSUME NEW frame
    PROVE  FrameLifetime(frame) \in Nat \ {0}
BY FlowTableAssumption DEF FrameLifetime

\* The three admissions of a frame that the policy approves are explained; only the
\* first is fit for a frame that must be tracked (admit_with_tracking,
\* admit_with_tracking_if_trackable, admit_with_tracking_if_stateful)
LEMMA AdmissionExplained ==
    ASSUME recent \in Nat, NEW f, NEW frame, NEW way, NEW match, NEW pkt, NEW back,
           Permits(f) = LivePermits, MatchOf(f, frame, way, match),
           FrameApproved(PolicyInForce, way, frame)
    PROVE  /\ Explained(frame, way, admit_with_tracking(f, match))
           /\ ~ FrameMustBeTracked(PolicyInForce, way, frame) =>
                 /\ Explained(frame, way, admit_with_tracking_if_trackable(f, match))
                 /\ Explained(frame, way, admit_with_tracking_if_stateful(f, match, pkt, back))
<1>1. Explained(frame, way, admit_with_tracking(f, match))
  <2>1. CASE match.type = "Candidate" /\ HasRoom(f, match.key)
    <3> DEFINE key == FrameTuple(frame, way)
               flow == [initiating_direction |-> way, expires_at |-> recent + FrameLifetime(frame)]
               o == admit_with_tracking(f, match)
    <3>1. match.key = key /\ match.flow = flow /\ key # NoTuple
      BY <2>1 DEF MatchOf, candidate
    <3>2. o = Admit(insert(f, key, flow))
      BY <2>1, <3>1 DEF admit_with_tracking
    <3>3. recent < flow.expires_at
      BY LifetimePositive
    <3>4. Permits(insert(f, key, flow)) =
              {p \in LivePermits : p.tuple # key}
              \cup {[tuple |-> key, opener |-> way, until |-> recent + FrameLifetime(frame)]}
      BY <3>3, CommitGrants
    <3>5. Permits(o.flows) = Promise!Granted(frame, way) /\ o.admitted
      BY <3>2, <3>4 DEF Promise!Granted, Admit
    <3> QED
      BY <3>1, <3>5 DEF Explained, PassesByPolicy
  <2>2. CASE ~ (match.type = "Candidate" /\ HasRoom(f, match.key))
    BY <2>2 DEF admit_with_tracking, Drop, Explained, Refused
  <2> QED
    BY <2>1, <2>2
<1>2. ~ FrameMustBeTracked(PolicyInForce, way, frame) => Explained(frame, way, Admit(f))
  BY DEF Explained, PassesByPolicy, Admit
<1>3. ~ FrameMustBeTracked(PolicyInForce, way, frame) =>
          Explained(frame, way, admit_with_tracking_if_trackable(f, match))
  BY <1>1, <1>2 DEF admit_with_tracking_if_trackable
<1>4. ~ FrameMustBeTracked(PolicyInForce, way, frame) =>
          Explained(frame, way, admit_with_tracking_if_stateful(f, match, pkt, back))
  BY <1>2, <1>3 DEF admit_with_tracking_if_stateful
<1> QED
  BY <1>1, <1>3, <1>4

\* An answer to a live flow is explained by the permit of that flow
LEMMA AnswerExplained ==
    ASSUME NEW f, NEW frame, NEW way, NEW match,
           Permits(f) = LivePermits, MatchOf(f, frame, way, match), match.type = "Allowed"
    PROVE  Explained(frame, way, Admit(f))
<1> DEFINE key == FrameTuple(frame, way)
           permit == [tuple |-> key, opener |-> f[key].initiating_direction, until |-> f[key].expires_at]
<1>1. key \in DOMAIN f /\ recent < f[key].expires_at /\ f[key].initiating_direction # way
  BY DEF MatchOf, IsLive
<1>2. permit \in LivePermits
  BY <1>1 DEF Permits
<1>3. permit.tuple = key /\ permit.opener # way
  BY <1>1
<1> QED
  BY <1>2, <1>3 DEF Explained, PassesByPermit, Admit

\* What becomes of a frame from the VM is explained (allowed_from_vm_ipv4)
LEMMA VmFrameExplained ==
    ASSUME IInv, NEW frame, frame.pkt \in Ipv4Packet,
           ReachesIpv4(frame), ~ IsDhcp(frame.pkt), frame.pkt.src = vm_ip
    PROVE  Explained(frame, "FromVm", AdmissionFromVm(frame.pkt))
<1> DEFINE pkt == frame.pkt
           match == IF tracking THEN FlowMatch(pkt, "FromVm") ELSE Untracked
           f == IF tracking THEN Swept.flows ELSE flows
           decision == policy_decision(rules, pkt, "Out")
<1>1. Permits(f) = LivePermits
  BY SweepInvisible DEF Permits, LivePermits
<1>2. recent \in Nat
  BY DEF IInv
<1>3. MatchOf(f, frame, "FromVm", match)
  <2>1. CASE tracking
    <3>1. frame.ethertype = "Ipv4" /\ "FromVm" \in FlowDirection
      BY DEF ReachesIpv4, FlowDirection
    <3>2. match = inspect(f, pkt, "FromVm", recent)
      BY <2>1 DEF FlowMatch
    <3> HIDE DEF match, f
    <3> QED
      BY <3>1, <3>2, InspectionOfFrame DEF MatchOf
  <2>2. CASE ~ tracking
    BY <2>2 DEF MatchOf, Untracked
  <2> QED
    BY <2>1, <2>2
<1>4. /\ Lets(decision, pkt.dst, "FromVm") => FrameApproved(PolicyInForce, "FromVm", frame)
      /\ decision # "AllowStateful" => ~ FrameMustBeTracked(PolicyInForce, "FromVm", frame)
  BY DEF FrameApproved, FrameMustBeTracked, PacketDecision, PolicyInForce
<1>5. AdmissionFromVm(pkt) = IF match.type = "Allowed" THEN Admit(f)
                             ELSE IF match.type = "Denied" THEN Drop(f)
                             ELSE OutboundPolicy(f, match, pkt)
  BY DEF AdmissionFromVm
<1> HIDE DEF match, f, decision
<1>6. Explained(frame, "FromVm", Drop(f))
  BY <1>1 DEF Explained, Refused, Drop
<1>7. Explained(frame, "FromVm", OutboundPolicy(f, match, pkt))
  <2>1. CASE Lets(decision, pkt.dst, "FromVm")
    <3>1. FrameApproved(PolicyInForce, "FromVm", frame)
      BY <1>4, <2>1
    <3>2. /\ Explained(frame, "FromVm", admit_with_tracking(f, match))
          /\ decision # "AllowStateful" =>
                /\ Explained(frame, "FromVm", admit_with_tracking_if_trackable(f, match))
                /\ Explained(frame, "FromVm", admit_with_tracking_if_stateful(f, match, pkt, "In"))
      BY <1>1, <1>2, <1>3, <1>4, <3>1, AdmissionExplained
    <3> QED
      BY <1>6, <3>2 DEF OutboundPolicy, decision
  <2>2. CASE ~ Lets(decision, pkt.dst, "FromVm")
    <3>1. OutboundPolicy(f, match, pkt) = Drop(f)
      BY <2>2 DEF Lets, OutboundPolicy, decision
    <3> QED
      BY <1>6, <3>1
  <2> QED
    BY <2>1, <2>2
<1>8. match.type = "Allowed" => Explained(frame, "FromVm", Admit(f))
  BY <1>1, <1>3, AnswerExplained
<1> QED
  BY <1>5, <1>6, <1>7, <1>8

\* What becomes of a frame from the host is explained (allowed_from_host_ipv4)
LEMMA HostFrameExplained ==
    ASSUME IInv, NEW frame, frame.pkt \in Ipv4Packet, frame.ethertype = "Ipv4", frame.valid
    PROVE  Explained(frame, "FromHost", AdmissionFromHost(frame.pkt))
<1> DEFINE pkt == frame.pkt
           inspected == tracking /\ pkt.dst = vm_ip
           match == IF inspected THEN FlowMatch(pkt, "FromHost") ELSE Untracked
           f == IF inspected THEN Swept.flows ELSE flows
           decision == policy_decision(rules, pkt, "In")
<1>1. Permits(f) = LivePermits /\ Permits(flows) = LivePermits
  BY SweepInvisible DEF Permits, LivePermits
<1>2. recent \in Nat
  BY DEF IInv
<1>3. MatchOf(f, frame, "FromHost", match)
  <2>1. CASE inspected
    <3>1. "FromHost" \in FlowDirection
      BY DEF FlowDirection
    <3>2. match = inspect(f, pkt, "FromHost", recent)
      BY <2>1 DEF FlowMatch
    <3> HIDE DEF match, f
    <3> QED
      BY <3>1, <3>2, InspectionOfFrame DEF MatchOf
  <2>2. CASE ~ inspected
    BY <2>2 DEF MatchOf, Untracked
  <2> QED
    BY <2>1, <2>2
<1>4. CASE IsDhcpReply(pkt)
  BY <1>1, <1>4 DEF AdmissionFromHost, Drop, Explained, Refused
<1>5. CASE ~ IsDhcpReply(pkt) /\ ~ tracking
  <2>1. ~ has_stateful(rules)
    BY <1>5 DEF IInv
  <2>2. /\ FrameApproved(PolicyInForce, "FromHost", frame)
        /\ ~ FrameMustBeTracked(PolicyInForce, "FromHost", frame)
    BY <1>5, <2>1 DEF FrameApproved, FrameMustBeTracked, PolicyInForce
  <2>3. AdmissionFromHost(pkt) = Admit(flows)
    BY <1>5 DEF AdmissionFromHost
  <2> QED
    BY <1>1, <2>2, <2>3 DEF Explained, PassesByPolicy, Admit
<1>6. CASE ~ IsDhcpReply(pkt) /\ tracking
  <2>1. /\ Lets(decision, pkt.src, "FromHost") => FrameApproved(PolicyInForce, "FromHost", frame)
        /\ decision # "AllowStateful" => ~ FrameMustBeTracked(PolicyInForce, "FromHost", frame)
    BY <1>6 DEF FrameApproved, FrameMustBeTracked, PacketDecision, PolicyInForce
  <2>2. AdmissionFromHost(pkt) = IF match.type = "Allowed" THEN Admit(f)
                                 ELSE IF match.type = "Denied" THEN Drop(f)
                                 ELSE InboundPolicy(f, match, pkt)
    BY <1>6 DEF AdmissionFromHost
  <2> HIDE DEF match, f, decision
  <2>3. Explained(frame, "FromHost", Drop(f))
    BY <1>1 DEF Explained, Refused, Drop
  <2>4. Explained(frame, "FromHost", InboundPolicy(f, match, pkt))
    <3>1. CASE Lets(decision, pkt.src, "FromHost")
      <4>1. FrameApproved(PolicyInForce, "FromHost", frame)
        BY <2>1, <3>1
      <4>2. /\ Explained(frame, "FromHost", admit_with_tracking(f, match))
            /\ decision # "AllowStateful" =>
                  Explained(frame, "FromHost", admit_with_tracking_if_stateful(f, match, pkt, "Out"))
        BY <1>1, <1>2, <1>3, <2>1, <4>1, AdmissionExplained
      <4> QED
        BY <2>3, <4>2 DEF InboundPolicy, decision
    <3>2. CASE ~ Lets(decision, pkt.src, "FromHost")
      <4>1. InboundPolicy(f, match, pkt) = Drop(f)
        BY <3>2 DEF Lets, InboundPolicy, decision
      <4> QED
        BY <2>3, <4>1
    <3> QED
      BY <3>1, <3>2
  <2>5. match.type = "Allowed" => Explained(frame, "FromHost", Admit(f))
    BY <1>1, <1>3, AnswerExplained
  <2> QED
    BY <2>2, <2>3, <2>4, <2>5
<1> QED
  BY <1>4, <1>5, <1>6

-----------------------------------------------------------------------------
\* Traffic and queries leave policy and clock alone, so the permits are those of
\* the table they leave behind
LEMMA PermitsAfterTraffic ==
    ASSUME Unfiltered
    PROVE  /\ LivePermits' = Permits(flows')
           /\ PolicyInForce' = PolicyInForce
           /\ recent' = recent
BY DEF Unfiltered, LivePermits, Permits, PolicyInForce

\* What the promise hears of each kind of output
LEMMA WhatIsForwarded ==
    /\ out' = Nothing => LastForwarded' = Nothing
    /\ out' = policy_get' => LastForwarded' = Nothing
    /\ out' \in {ToVm(DhcpReply), ToVm(DnsReply)} => LastForwarded' = Nothing
    /\ \A frame : out' = ToHost(frame) => LastForwarded' = Promise!Forwarded(frame, "FromVm")
    /\ \A frame : out' = ToVm(frame) =>
                     LastForwarded' \in {Promise!Forwarded(frame, "FromHost"), Nothing}
BY DEF LastForwarded, Nothing, ToVm, ToHost, policy_get, Promise!Forwarded

\* Nothing is forwarded and no permit changes: a step of the promise
LEMMA RefusalStep ==
    ASSUME Unfiltered, Permits(flows') = LivePermits, LastForwarded' = Nothing
    PROVE  Promise!PNext
<1>1. Promise!Refuse
  BY PermitsAfterTraffic DEF Promise!Refuse, PolicyInForce
<1> QED
  BY <1>1 DEF Promise!PNext

\* An explained outcome is a step of the promise
LEMMA ExplainedStep ==
    ASSUME Unfiltered, NEW frame \in VmFrames \cup HostFrames, NEW way \in {"FromHost", "FromVm"},
           NEW o, Explained(frame, way, o), flows' = o.flows,
           o.admitted => LastForwarded' \in {Promise!Forwarded(frame, way), Nothing},
           ~ o.admitted => LastForwarded' = Nothing
    PROVE  Promise!PNext
<1>1. LivePermits' = Permits(o.flows) /\ PolicyInForce' = PolicyInForce /\ recent' = recent
  BY PermitsAfterTraffic
<1>2. CASE Refused(o)
  BY <1>2, RefusalStep DEF Refused
<1>3. CASE PassesByPolicy(frame, way, o)
  <2>1. Promise!ByPolicy(frame, way)
    BY <1>1, <1>3 DEF PassesByPolicy, Promise!ByPolicy, PolicyInForce
  <2>2. Promise!ForwardFrame
    BY <1>1, <2>1 DEF Promise!ForwardFrame, Promise!Way, PolicyInForce
  <2> QED
    BY <2>2 DEF Promise!PNext
<1>4. CASE PassesByPermit(frame, way, o)
  <2>1. Promise!ByPermit(frame, way)
    BY <1>1, <1>4 DEF PassesByPermit, Promise!ByPermit
  <2>2. Promise!ForwardFrame
    BY <1>1, <2>1 DEF Promise!ForwardFrame, Promise!Way, PolicyInForce
  <2> QED
    BY <2>2 DEF Promise!PNext
<1> QED
  BY <1>2, <1>3, <1>4 DEF Explained

\* A frame that leaves the table alone and passes, passes by policy: ARP
LEMMA ArpStep ==
    ASSUME Unfiltered, TableUnchanged,
           NEW frame \in VmFrames \cup HostFrames, NEW way \in {"FromHost", "FromVm"},
           frame.ethertype = "Arp", FrameApproved(PolicyInForce, way, frame),
           LastForwarded' \in {Promise!Forwarded(frame, way), Nothing}
    PROVE  Promise!PNext
<1>1. Permits(flows) = LivePermits
  BY DEF Permits, LivePermits
<1>2. PassesByPolicy(frame, way, Admit(flows))
  BY <1>1 DEF PassesByPolicy, FrameMustBeTracked, Admit
<1>3. Explained(frame, way, Admit(flows)) /\ flows' = Admit(flows).flows /\ Admit(flows).admitted
  BY <1>2 DEF Explained, Admit, TableUnchanged
<1> QED
  BY <1>3, ExplainedStep

\* Every frame from the VM is a step of the promise (process_frame_from_vm)
LEMMA VmStep ==
    ASSUME IInv, NEW frame \in VmFrames, process_frame_from_vm(frame)
    PROVE  Promise!PNext
<1>1. Unfiltered
  BY DEF process_frame_from_vm
<1>2. CASE VmFrameUntracked(frame)
  <2>1. TableUnchanged
    BY <1>2 DEF VmFrameUntracked
  <2>2. Permits(flows') = LivePermits
    BY <1>1, <2>1 DEF TableUnchanged, Permits, LivePermits
  <2>3. CASE vm_arp_allowed(frame) /\ out' = ToHost(frame)
    <3>1. frame.ethertype = "Arp" /\ FrameApproved(PolicyInForce, "FromVm", frame)
      BY <2>3 DEF vm_arp_allowed, FrameApproved
    <3> QED
      BY <1>1, <2>1, <2>3, <3>1, ArpStep, WhatIsForwarded
  <2>4. CASE out' = Nothing \/ write_to_vm(DhcpReply) \/ write_to_vm(DnsReply)
    BY <1>1, <2>2, <2>4, WhatIsForwarded, RefusalStep DEF write_to_vm
  <2> QED
    BY <1>2, <2>3, <2>4 DEF VmFrameUntracked
<1>3. CASE VmFrameInspected(frame)
  <2> DEFINE o == AdmissionFromVm(frame.pkt)
  <2>1. frame.pkt \in Ipv4Packet
    BY <1>3, ProxyAssumption DEF VmFrameInspected, ReachesIpv4
  <2>2. Explained(frame, "FromVm", o)
    BY <1>3, <2>1, VmFrameExplained DEF VmFrameInspected
  <2>3. flows' = o.flows /\ out' = IF o.admitted THEN ToHost(frame) ELSE Nothing
    BY <1>3 DEF VmFrameInspected
  <2> HIDE DEF o
  <2> QED
    BY <1>1, <2>2, <2>3, WhatIsForwarded, ExplainedStep
<1> QED
  BY <1>2, <1>3 DEF process_frame_from_vm

\* Every frame from the host is a step of the promise (process_frame_from_host)
LEMMA HostStep ==
    ASSUME IInv, NEW frame \in HostFrames, process_frame_from_host(frame)
    PROVE  Promise!PNext
<1>1. Unfiltered
  BY DEF process_frame_from_host
<1>2. CASE frame.ethertype = "Arp" /\ TableUnchanged /\ write_to_vm(frame)
  <2>1. FrameApproved(PolicyInForce, "FromHost", frame)
    BY <1>2 DEF FrameApproved
  <2>2. LastForwarded' \in {Promise!Forwarded(frame, "FromHost"), Nothing}
    BY <1>2, WhatIsForwarded DEF write_to_vm
  <2> QED
    BY <1>1, <1>2, <2>1, <2>2, ArpStep
<1>3. CASE /\ frame.ethertype = "Ipv4" /\ frame.valid
           /\ flows' = AdmissionFromHost(frame.pkt).flows
           /\ IF AdmissionFromHost(frame.pkt).admitted THEN write_to_vm(frame) ELSE out' = Nothing
  <2> DEFINE o == AdmissionFromHost(frame.pkt)
  <2>1. frame.pkt \in Ipv4Packet
    BY <1>3, ProxyAssumption
  <2>2. Explained(frame, "FromHost", o)
    BY <1>3, <2>1, HostFrameExplained
  <2> HIDE DEF o
  <2>3. flows' = o.flows /\ IF o.admitted THEN write_to_vm(frame) ELSE out' = Nothing
    BY <1>3 DEF o
  <2>4. /\ o.admitted => LastForwarded' \in {Promise!Forwarded(frame, "FromHost"), Nothing}
        /\ ~ o.admitted => LastForwarded' = Nothing
    BY <2>3, WhatIsForwarded DEF write_to_vm
  <2> QED
    BY <1>1, <2>2, <2>3, <2>4, ExplainedStep
<1>4. CASE TableUnchanged /\ out' = Nothing
  <2>1. Permits(flows') = LivePermits
    BY <1>1, <1>4 DEF TableUnchanged, Permits, LivePermits
  <2> QED
    BY <1>1, <1>4, <2>1, WhatIsForwarded, RefusalStep
<1> QED
  BY <1>2, <1>3, <1>4 DEF process_frame_from_host

\* Replacing the policy withdraws all permits, and repeating it changes nothing (policy_set)
LEMMA PolicyStep ==
    ASSUME NEW policy, policy_set(policy)
    PROVE  Promise!PNext
<1> DEFINE a == normalize_rules(policy.allow)
           b == normalize_rules(policy.block)
<1>1. recent' = recent /\ LastForwarded' = Nothing
  BY WhatIsForwarded DEF policy_set
<1>2. CASE allow # a \/ block # b
  <2>1. Compile(a, b)
    BY <1>2 DEF policy_set
  <2>2. LivePermits' = {}
    <3>1. DOMAIN flows' = {}
      BY <2>1, NoFlowsFacts DEF Compile
    <3> QED
      BY <3>1 DEF LivePermits
  <2>3. PolicyInForce' # PolicyInForce
    BY <1>2, <2>1 DEF Compile, PolicyInForce
  <2>4. Promise!ReplacePolicy
    BY <1>1, <2>2, <2>3 DEF Promise!ReplacePolicy, PolicyInForce
  <2> QED
    BY <2>4 DEF Promise!PNext
<1>3. CASE ~ (allow # a \/ block # b)
  <2>1. Unfiltered /\ flows' = flows
    BY <1>1, <1>3 DEF policy_set, Unfiltered
  <2>2. Permits(flows') = LivePermits
    BY <2>1 DEF Permits, LivePermits
  <2> QED
    BY <1>1, <2>1, <2>2, RefusalStep
<1> QED
  BY <1>2, <1>3

\* Time ends permits and does nothing else (Instant::update)
LEMMA TimeStep ==
    ASSUME IInv, Tick
    PROVE  Promise!PNext
<1>1. /\ recent' \in Nat /\ recent' > recent /\ recent' = recent + 1
      /\ PolicyInForce' = PolicyInForce /\ flows' = flows
  BY DEF Tick, IInv, PolicyInForce
<1>2. LastForwarded' = Nothing
  BY WhatIsForwarded DEF Tick
<1>3. \A k \in DOMAIN flows : flows[k].expires_at \in Nat
  BY DEF IInv, TableOK, Flow
<1>4. LivePermits' = {p \in LivePermits : recent' < p.until}
  <2> DEFINE permit(k) == [tuple |-> k, opener |-> flows[k].initiating_direction,
                           until |-> flows[k].expires_at]
  <2>1. LivePermits = {permit(k) : k \in {k \in DOMAIN flows : recent < flows[k].expires_at}}
    BY DEF LivePermits
  <2>2. LivePermits' = {permit(k) : k \in {k \in DOMAIN flows : recent' < flows[k].expires_at}}
    BY <1>1 DEF LivePermits
  <2>3. \A k : permit(k).until = flows[k].expires_at
    OBVIOUS
  <2>4. \A k \in DOMAIN flows : recent' < flows[k].expires_at => recent < flows[k].expires_at
    BY <1>1, <1>3 DEF IInv
  <2> HIDE DEF permit
  <2> QED
    BY <2>1, <2>2, <2>3, <2>4
<1>5. Promise!Pass
  BY <1>1, <1>2, <1>4 DEF Promise!Pass, PolicyInForce
<1> QED
  BY <1>5 DEF Promise!PNext

-----------------------------------------------------------------------------
(***************************************************************************)
(* The packet filter implements ReturnPermits for every policy, all        *)
(* traffic, every capacity, every sweep interval and all timeouts: each    *)
(* frame passes by the policy in force or by a live permit, and nothing    *)
(* but approved traffic of the opener grants one (process_frame_from_vm,   *)
(* process_frame_from_host, policy_set).                                   *)
(***************************************************************************)
THEOREM FilterKeepsPromise == Spec => ImplementsPermits
<1>1. Init => Promise!PInit
  <2> SUFFICES ASSUME Init PROVE Promise!PInit
    OBVIOUS
  <2>1. DOMAIN flows = {} /\ out = Nothing /\ recent = 0
    BY NoFlowsFacts DEF Init
  <2>2. LivePermits = {}
    BY <2>1 DEF LivePermits
  <2>3. LastForwarded = Nothing
    BY <2>1 DEF LastForwarded, Nothing
  <2> QED
    BY <2>1, <2>2, <2>3 DEF Promise!PInit
<1>2. IInv /\ [Next]_vars => [Promise!PNext]_(Promise!pvars)
  <2> SUFFICES ASSUME IInv, [Next]_vars PROVE [Promise!PNext]_(Promise!pvars)
    OBVIOUS
  <2>1. CASE PolicyGet
    <3>1. Unfiltered /\ flows' = flows
      BY <2>1 DEF PolicyGet, TableUnchanged
    <3>2. Permits(flows') = LivePermits
      BY <3>1 DEF Permits, LivePermits
    <3>3. policy_get' = policy_get
      BY <3>1 DEF policy_get, Unfiltered
    <3>4. LastForwarded' = Nothing
      BY <2>1, <3>3, WhatIsForwarded DEF PolicyGet
    <3> QED
      BY <3>1, <3>2, <3>4, RefusalStep
  <2>2. CASE UNCHANGED vars
    BY <2>2 DEF vars, Promise!pvars, LivePermits, LastForwarded
  <2> QED
    BY <2>1, <2>2, VmStep, HostStep, PolicyStep, TimeStep DEF Next
<1>3. Spec => Promise!PSpec
  BY <1>1, <1>2, Invariance, PTL DEF Spec, Promise!PSpec
<1> QED
  BY <1>3 DEF ImplementsPermits
=============================================================================
