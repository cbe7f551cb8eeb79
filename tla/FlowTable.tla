----------------------------- MODULE FlowTable -----------------------------
(***************************************************************************)
(* The flow table (proxy/flows): a bounded cache of exact-tuple            *)
(* permissions for return traffic.                                         *)
(*                                                                         *)
(* A table is a function from flow keys to flows and next_sweep, the time  *)
(* of the next garbage collection.  Inspecting a packet sweeps the table   *)
(* if that is due and then only reads it; commit adds the flow once policy *)
(* has authorised it.                                                      *)
(***************************************************************************)
EXTENDS Packets, FiniteSets, Functions

CONSTANTS
    MAX_FLOWS, SWEEP_INTERVAL, SYN_TIMEOUT, TCP_TIMEOUT, UDP_TIMEOUT, ECHO_TIMEOUT

ASSUME FlowTableAssumption ==
    /\ MAX_FLOWS \in Nat
    /\ SWEEP_INTERVAL \in Nat \ {0}
    /\ SYN_TIMEOUT \in Nat \ {0}
    /\ TCP_TIMEOUT \in Nat \ {0}
    /\ UDP_TIMEOUT \in Nat \ {0}
    /\ ECHO_TIMEOUT \in Nat \ {0}

FlowDirection == {"FromHost", "FromVm"}

opposite(direction) == IF direction = "FromHost" THEN "FromVm" ELSE "FromHost"

\* Mutant: the pair is not canonical, each direction gets a key of its own
Mut_host_vm_pair(direction, src, dst) == <<src, dst>>

\* (host, vm) of a packet's source and destination
host_vm_pair(direction, src, dst) ==
    IF direction = "FromHost" THEN <<src, dst>> ELSE <<dst, src>>

(***************************************************************************)
(* FlowKey: IcmpEcho, Tcp and Udp.                                         *)
(***************************************************************************)
PortKey(protocol, direction, pkt) ==
    LET addrs == host_vm_pair(direction, pkt.src, pkt.dst)
        ports == host_vm_pair(direction, pkt.src_port, pkt.dst_port)
    IN  [protocol |-> protocol, host_addr |-> addrs[1], host_port |-> ports[1],
         vm_addr |-> addrs[2], vm_port |-> ports[2]]

EchoKey(direction, initiating_direction, pkt) ==
    LET addrs == host_vm_pair(direction, pkt.src, pkt.dst)
    IN  [protocol |-> "Icmp", host_addr |-> addrs[1], vm_addr |-> addrs[2],
         ident |-> pkt.ident, initiating_direction |-> initiating_direction]

FlowKey ==
    [protocol: {"Tcp", "Udp"}, host_addr: Addr, host_port: Port, vm_addr: Addr, vm_port: Port]
    \cup [protocol: {"Icmp"}, host_addr: Addr, vm_addr: Addr, ident: Port,
          initiating_direction: FlowDirection]

Flow == [initiating_direction: FlowDirection, expires_at: Nat]

(***************************************************************************)
(* FlowMatch.                                                              *)
(***************************************************************************)
Allowed == [type |-> "Allowed"]
Denied == [type |-> "Denied"]
Untracked == [type |-> "Untracked"]
candidate(key, initiating_direction, now, timeout) ==
    [type |-> "Candidate", key |-> key,
     flow |-> [initiating_direction |-> initiating_direction, expires_at |-> now + timeout]]

NoFlows == [key \in {} |-> key]

\* flows.retain in sweep_if_due
Retained(flows, now) == Restrict(flows, {k \in DOMAIN flows : now < flows[k].expires_at})

\* Mutant: the sweep is put off instead of done
Mut_sweep_if_due(flows, next_sweep, now) ==
    IF now < next_sweep THEN [flows |-> flows, next_sweep |-> next_sweep]
    ELSE [flows |-> flows, next_sweep |-> now + SWEEP_INTERVAL]

sweep_if_due(flows, next_sweep, now) ==
    IF now < next_sweep THEN [flows |-> flows, next_sweep |-> next_sweep]
    ELSE [flows |-> Retained(flows, now), next_sweep |-> now + SWEEP_INTERVAL]

\* An expired entry counts as missing even before the next sweep
IsLive(flows, key, now) == key \in DOMAIN flows /\ now < flows[key].expires_at

\* Mutant: return traffic renews the entry
Mut_match_existing_flow(flows, key, direction, now, timeout, missing) ==
    IF ~ IsLive(flows, key, now) THEN missing
    ELSE candidate(key, flows[key].initiating_direction, now, timeout)

\* match_existing_flow(..).unwrap_or(missing)
match_existing_flow(flows, key, direction, now, timeout, missing) ==
    IF ~ IsLive(flows, key, now) THEN missing
    ELSE IF direction = flows[key].initiating_direction
         THEN candidate(key, direction, now, timeout)
         ELSE Allowed

PortZero(pkt) == pkt.src_port = 0 \/ pkt.dst_port = 0

\* A bare SYN always goes to policy, whatever entry there is
inspect_tcp(flows, pkt, direction, now) ==
    LET key == PortKey("Tcp", direction, pkt) IN
    IF pkt.header # "Ok" \/ PortZero(pkt) THEN Denied
    ELSE IF pkt.kind = "Syn" THEN candidate(key, direction, now, SYN_TIMEOUT)
    ELSE match_existing_flow(flows, key, direction, now, TCP_TIMEOUT, Untracked)

inspect_udp(flows, pkt, direction, now) ==
    LET key == PortKey("Udp", direction, pkt) IN
    IF pkt.header # "Ok" \/ PortZero(pkt) THEN Denied
    ELSE match_existing_flow(flows, key, direction, now, UDP_TIMEOUT,
                             candidate(key, direction, now, UDP_TIMEOUT))

inspect_echo(flows, pkt, direction, is_request, now) ==
    LET initiating_direction == IF is_request THEN direction ELSE opposite(direction)
        key == EchoKey(direction, initiating_direction, pkt)
    IN  match_existing_flow(flows, key, direction, now, ECHO_TIMEOUT,
            IF is_request THEN candidate(key, initiating_direction, now, ECHO_TIMEOUT)
                          ELSE Untracked)

inspect_icmp(flows, pkt, direction, now) ==
    IF pkt.header # "Ok" THEN Denied
    ELSE IF pkt.kind \in {"EchoRequest", "EchoReply"}
         THEN inspect_echo(flows, pkt, direction, pkt.kind = "EchoRequest", now)
         ELSE Untracked

\* The match that inspect_at returns; flows has been swept already
inspect(flows, pkt, direction, now) ==
    IF IsFragment(pkt) THEN Untracked
    ELSE IF pkt.next_header = "Icmp" THEN inspect_icmp(flows, pkt, direction, now)
    ELSE IF pkt.next_header = "Tcp" THEN inspect_tcp(flows, pkt, direction, now)
    ELSE IF pkt.next_header = "Udp" THEN inspect_udp(flows, pkt, direction, now)
    ELSE Untracked

\* commit: a full table takes no new key, but existing entries may be updated
HasRoom(flows, key) == key \in DOMAIN flows \/ Cardinality(DOMAIN flows) < MAX_FLOWS

insert(flows, key, flow) ==
    [k \in DOMAIN flows \cup {key} |-> IF k = key THEN flow ELSE flows[k]]

=============================================================================
