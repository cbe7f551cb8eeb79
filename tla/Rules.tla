------------------------------- MODULE Rules -------------------------------
(***************************************************************************)
(* Packet policy: the rules a client writes (proxy/rule.rs) and the tables *)
(* they are compiled to and matched against (proxy/rules.rs).              *)
(*                                                                         *)
(* A rule is "Stateless" (bare: a target only) or "Stateful" (a direction, *)
(* a target and a filter).  A policy is two sets of rules, allow and       *)
(* block: the code keeps them sorted and without duplicates, so sets lose  *)
(* nothing.                                                                *)
(***************************************************************************)
EXTENDS Packets

Direction == {"In", "Out"}

\* PortRange.  The range 0:0 stands for "no range": PortRange::new refuses port 0.
PortRange == {r \in [start: 1 .. U16_MAX, end: 1 .. U16_MAX] : r.start <= r.end}
AnyPort == [start |-> 0, end |-> 0]
contains(range, port) == range.start <= port /\ port <= range.end
width(range) == range.end - range.start

\* Filter.  Rule::parse accepts a port range with tcp or udp only.
Filter == [protocol: {"Tcp", "Udp"}, destination_port_range: PortRange \cup {AnyPort}]
          \cup [protocol: {"Icmp", "Any"}, destination_port_range: {AnyPort}]
DefaultFilter == [protocol |-> "Any", destination_port_range |-> AnyPort]

\* Ipv4Net: contains, trunc and the conversion of an address to a /32
Prefix == [addr: Addr, len: 0 .. AddrBits]
BlockSize(len) == 2^(AddrBits - len)
covers(prefix, address) ==
    address \div BlockSize(prefix.len) = prefix.addr \div BlockSize(prefix.len)
trunc(prefix) ==
    [prefix EXCEPT !.addr = (@ \div BlockSize(prefix.len)) * BlockSize(prefix.len)]
HostPrefix(address) == [addr |-> address, len |-> AddrBits]

\* Target and Rule
PrefixTarget(prefix) == [type |-> "Prefix", prefix |-> prefix]
HostTarget == [type |-> "Host"]
PeersTarget == [type |-> "Peers"]
Stateless(target) == [type |-> "Stateless", target |-> target]
Stateful(direction, target, filter) ==
    [type |-> "Stateful", direction |-> direction, target |-> target, filter |-> filter]

Target == {PrefixTarget(p) : p \in Prefix} \cup {HostTarget, PeersTarget}
Rule == {Stateless(t) : t \in Target}
        \cup {Stateful(d, t, f) : d \in Direction, t \in Target, f \in Filter}

\* Rule::normalized: a prefix target loses its host bits
normalized(rule) ==
    IF rule.target.type = "Prefix"
    THEN [rule EXCEPT !.target = PrefixTarget(trunc(@.prefix))]
    ELSE rule

normalize_rules(rules) == {normalized(r) : r \in rules}

-----------------------------------------------------------------------------
(***************************************************************************)
(* Compilation: Rules::new, insert_filter and compile_rules.               *)
(***************************************************************************)
Mode(allow, block) ==
    IF \E r \in allow \cup block : r.type = "Stateful" THEN "Stateful" ELSE "Legacy"

\* Mutant: bare rules stay outbound-only in stateful mode
Mut_RuleDirections(rule, mode) ==
    IF rule.type = "Stateful" THEN {rule.direction} ELSE {"Out"}

\* Bare rules are outbound; in stateful mode they are inbound as well
RuleDirections(rule, mode) ==
    IF rule.type = "Stateful" THEN {rule.direction}
    ELSE IF mode = "Stateful" THEN Direction ELSE {"Out"}

RuleFilter(rule) == IF rule.type = "Stateful" THEN rule.filter ELSE DefaultFilter

\* insert_filter: the prefixes a target stands for
TargetPrefixes(target, host_address, peer_addresses) ==
    CASE target.type = "Prefix" -> {target.prefix}
      [] target.type = "Host"   -> {HostPrefix(host_address)}
      [] target.type = "Peers"  -> {HostPrefix(a) : a \in peer_addresses}

\* The (prefix, filter) slots that a list of rules writes in one direction
Slots(rules, direction, mode, host_address, peer_addresses) ==
    UNION {{[prefix |-> p, filter |-> RuleFilter(r)] :
                p \in TargetPrefixes(r.target, host_address, peer_addresses)} :
           r \in {r \in rules : direction \in RuleDirections(r, mode)}}

Entry(slot, action) == [prefix |-> slot.prefix, filter |-> slot.filter, action |-> action]

\* Allows are inserted first, so a block on the same slot overwrites them
merged(allowed, blocked) ==
    {Entry(s, "Block") : s \in blocked} \cup {Entry(s, "Allow") : s \in allowed \ blocked}

RulesNew(host_address, peer_addresses, allow, block) ==
    LET mode == Mode(allow, block)
        compiled(direction) ==
            merged(Slots(allow, direction, mode, host_address, peer_addresses),
                   Slots(block, direction, mode, host_address, peer_addresses))
    IN  [mode |-> mode, inbound |-> compiled("In"), outbound |-> compiled("Out")]

has_stateful(rules) == rules.mode = "Stateful"

-----------------------------------------------------------------------------
(***************************************************************************)
(* Matching: rule_priority, filter_action and select.                      *)
(***************************************************************************)
Bit(b) == IF b THEN 1 ELSE 0

\* Mutant: the longest prefix is preferred to a port range
Mut_rule_priority(e) ==
    LET range == e.filter.destination_port_range IN
    << e.prefix.len, Bit(range # AnyPort), Bit(e.filter.protocol # "Any"),
       - (IF range = AnyPort THEN U16_MAX ELSE width(range)), Bit(e.action = "Block") >>

rule_priority(e) ==
    LET range == e.filter.destination_port_range IN
    << Bit(range # AnyPort), e.prefix.len, Bit(e.filter.protocol # "Any"),
       - (IF range = AnyPort THEN U16_MAX ELSE width(range)), Bit(e.action = "Block") >>

\* Rust compares tuples lexicographically
TupleLess(p, q) == \E i \in 1 .. 5 : p[i] < q[i] /\ \A j \in 1 .. i - 1 : p[j] = q[j]
HighestPriority(entries) ==
    CHOOSE e \in entries :
        \A o \in entries : ~ TupleLess(rule_priority(e), rule_priority(o))

\* Mutant: a packet whose port is unknown also satisfies service allows
Mut_compatible(e, protocol, destination_port) ==
    LET range == e.filter.destination_port_range IN
    /\ e.filter.protocol \in {"Any", protocol}
    /\ \/ range = AnyPort
       \/ destination_port # NoPort /\ contains(range, destination_port)
       \/ destination_port = NoPort /\ protocol \in {"Tcp", "Udp"}

\* The closure of filter_action.  Unknown TCP/UDP ports can match service
\* blocks, but never service allows.
compatible(e, protocol, destination_port) ==
    LET range == e.filter.destination_port_range IN
    /\ e.filter.protocol \in {"Any", protocol}
    /\ \/ range = AnyPort
       \/ destination_port # NoPort /\ contains(range, destination_port)
       \/ /\ destination_port = NoPort
          /\ e.action = "Block"
          /\ protocol \in {"Tcp", "Udp"}

\* filter_action on the filters of one prefix: they are sorted by falling
\* priority, so the first compatible one is the highest.  A set of at most one.
filter_action(entries, prefix, protocol, destination_port) ==
    LET found == {e \in entries : e.prefix = prefix /\ compatible(e, protocol, destination_port)}
    IN  IF found = {} THEN {} ELSE {HighestPriority(found)}

\* The action of the best filter among all covering prefixes, or "None"
select(entries, address, protocol, destination_port) ==
    LET covering == {p \in {e.prefix : e \in entries} : covers(p, address)}
        found == UNION {filter_action(entries, p, protocol, destination_port) : p \in covering}
    IN  IF found = {} THEN "None" ELSE HighestPriority(found).action

Entries(rules, direction) == IF direction = "In" THEN rules.inbound ELSE rules.outbound

\* The part of policy_decision that depends on the peer's address, the
\* protocol and the destination port alone
Decision(rules, direction, address, protocol, destination_port) ==
    LET action == select(Entries(rules, direction), address, protocol, destination_port)
    IN  IF action # "Allow" THEN action
        ELSE IF rules.mode = "Legacy" THEN "AllowStateless" ELSE "AllowStateful"

policy_decision(rules, pkt, direction) ==
    Decision(rules, direction, IF direction = "In" THEN pkt.src ELSE pkt.dst,
             pkt.next_header, packet_ports(pkt).destination)

\* Mutant: the reply is expected at the request's destination port
Mut_is_stateful(rules, pkt, direction) ==
    /\ rules.mode = "Stateful"
    /\ select(Entries(rules, direction), IF direction = "In" THEN pkt.dst ELSE pkt.src,
              pkt.next_header, packet_ports(pkt).destination) # "None"

\* Whether an explicit rule decides the reply to pkt, which travels in direction
is_stateful(rules, pkt, direction) ==
    /\ rules.mode = "Stateful"
    /\ select(Entries(rules, direction), IF direction = "In" THEN pkt.dst ELSE pkt.src,
              pkt.next_header, packet_ports(pkt).source) # "None"

=============================================================================
