------------------------------- MODULE Policy -------------------------------
(***************************************************************************)
(* The packet policy of one proxy: the rules that its client set, the      *)
(* tables they are compiled to, and what the command-line help says of the *)
(* decisions.  Proxy enforces the policy in force; RuleSyntax gives rules  *)
(* their text.                                                             *)
(***************************************************************************)
EXTENDS Rules

CONSTANTS
    gateway_ip, peer_ips            \* what @host and @peers stand for

VARIABLES
    allow, block,     \* the normalized policy
    rules             \* the policy compiled

(***************************************************************************)
(* The help text's reading of a policy: the rules that match, narrowed by  *)
(* one preference after the other.  Unknown ports are NoPort.              *)
(***************************************************************************)
Readings(rs, action) ==
    UNION {{[prefix |-> p, filter |-> RuleFilter(r), rule |-> r, action |-> action] :
                p \in TargetPrefixes(r.target, gateway_ip, peer_ips)} : r \in rs}

PortsOf(m) == m.filter.destination_port_range

Matching(direction, address, protocol, port) ==
    {m \in Readings(allow, "Allow") \cup Readings(block, "Block") :
        /\ direction \in RuleDirections(m.rule, rules.mode)
        /\ covers(m.prefix, address)
        /\ m.filter.protocol \in {"Any", protocol}
        /\ \/ PortsOf(m) = AnyPort
           \/ IF port = NoPort THEN m.action = "Block" ELSE contains(PortsOf(m), port)}

\* Those of S that satisfy a preference, or all of S when none does
Preferring(S, T) == IF S \cap T = {} THEN S ELSE S \cap T

\* With a port, then of the longest prefix, then with a protocol, then narrowest
Ported(S) == Preferring(S, {m \in S : PortsOf(m) # AnyPort})
Longest(S) == {m \in S : \A o \in S : o.prefix.len <= m.prefix.len}
Typed(S) == Preferring(S, {m \in S : m.filter.protocol # "Any"})
Narrowest(S) == {m \in S : \A o \in S : width(PortsOf(m)) <= width(PortsOf(o))}

Documented(direction, address, protocol, port) ==
    LET best == Narrowest(Typed(Longest(Ported(Matching(direction, address, protocol, port)))))
    IN  CASE best = {} -> "None"
          [] \E m \in best : m.action = "Block" -> "Block"
          [] OTHER -> IF rules.mode = "Legacy" THEN "AllowStateless" ELSE "AllowStateful"

(***************************************************************************)
(* The slots are sorted per prefix and the best one of every covering      *)
(* prefix is compared by rule_priority; the outcome is the precedence of   *)
(* the help text: a port, then the longest prefix, then a protocol, then   *)
(* the narrowest range, and a block on a tie (rules.rs, select).           *)
(***************************************************************************)
DocumentedPrecedence ==
    \A direction \in Direction, address \in Addr, protocol \in Protocol, port \in Port \cup {NoPort} :
        Decision(rules, direction, address, protocol, port)
            = Documented(direction, address, protocol, port)

(***************************************************************************)
(* Hiding the ports never helps: a packet that is not blocked when its     *)
(* ports are unknown is not blocked under any ports it could have          *)
(* (filter_action on fragments and malformed headers).                     *)
(***************************************************************************)
UnknownPortsEvadeNothing ==
    \A direction \in Direction, address \in Addr, protocol \in Protocol, port \in Port :
        Decision(rules, direction, address, protocol, port) = "Block"
            => Decision(rules, direction, address, protocol, NoPort) = "Block"

(***************************************************************************)
(* Default deny: once a bare block covers every address, no outbound       *)
(* packet (and in stateful mode no inbound one) is left to the built-in    *)
(* fallbacks, and what still passes matches one of the allow rules.        *)
(***************************************************************************)
Everywhere == Stateless(PrefixTarget([addr |-> 0, len |-> 0]))

DefaultDeny ==
    Everywhere \in block =>
        \A direction \in Direction, address \in Addr, protocol \in Protocol,
           port \in Port \cup {NoPort} :
            (direction = "Out" \/ has_stateful(rules)) =>
                LET decision == Decision(rules, direction, address, protocol, port)
                IN  /\ decision # "None"
                    /\ decision # "Block" =>
                          \E m \in Matching(direction, address, protocol, port) : m.action = "Allow"
=============================================================================
