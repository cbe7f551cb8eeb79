------------------------------ MODULE MCRules ------------------------------
(***************************************************************************)
(* Model checking of packet policy, from the text of rules to decisions.   *)
(* A client replaces a proxy's policy by texts (parse_policy in            *)
(* control.rs, policy_set) and reads it back (policy_get).  It builds      *)
(* policies one rule at a time, tries the text of every rule with one word *)
(* changed, and repeats rules in other words.  After every request the     *)
(* compiled rules must decide every packet the way the command-line help   *)
(* describes.                                                              *)
(***************************************************************************)
EXTENDS Policy, RuleSyntax

CONSTANT MAX_RULES   \* rules in a policy, allows and blocks together

VARIABLES allow_list, block_list    \* allow and block as the code keeps them

vars == <<allow, block, rules, allow_list, block_list>>

P(addr, len) == PrefixTarget([addr |-> addr, len |-> len])
F(protocol, start, end) ==
    [protocol |-> protocol, destination_port_range |-> [start |-> start, end |-> end]]

\* The rules a client may write.  <<3, 1>> and <<2, 1>> are one prefix, the
\* ranges 1:2 and 2:3 overlap and are equally wide, 1:3 is the widest range.
RulePool ==
    { Everywhere, Stateless(HostTarget), Stateless(P(2, 1)),
      Stateful("Out", P(0, 0), F("Tcp", 1, 1)), Stateful("Out", P(3, 1), F("Tcp", 1, 2)),
      Stateful("Out", P(2, 1), F("Tcp", 2, 3)), Stateful("Out", P(3, 2), F("Tcp", 0, 0)),
      Stateful("Out", PeersTarget, DefaultFilter), Stateful("In", P(0, 0), DefaultFilter),
      Stateful("In", PeersTarget, F("Udp", 1, 3)), Stateful("In", P(2, 1), F("Icmp", 0, 0)) }

Words ==
    {Word(Keywords[i]) : i \in DOMAIN Keywords} \cup {[kind |-> "Junk"]}
    \cup {[kind |-> "Net", addr |-> a, len |-> l] : a \in Addr, l \in 0 .. AddrBits + 1}
    \cup {Ports("Single", n, 0, z) : n \in 0 .. U16_MAX + 1, z \in {0, 1}}
    \cup {Ports("Range", m, n, 0) : m, n \in 0 .. U16_MAX + 1}

Edits(text) ==
    {text} \cup {ReplaceAt(text, i, w) : i \in DOMAIN text, w \in Words}
    \cup {InsertAt(text, i, w) : i \in 1 .. Len(text) + 1, w \in Words}
    \cup {RemoveAt(text, i) : i \in DOMAIN text}

\* Different texts of one rule, texts of nested and of equal prefixes, and a wrong one
Similar ==
    LET tcp == <<Word("in"), Word("proto"), Word("tcp")>>
        everywhere == Net([addr |-> 0, len |-> 0])
        elsewhere == Net([addr |-> 1, len |-> 0])
    IN  { <<Word("in")>>, <<Word("in"), everywhere>>, <<Word("in"), elsewhere>>, <<elsewhere>>,
          tcp \o <<Word("port"), Ports("Single", 1, 0, 1)>>,
          tcp \o <<everywhere, Word("port"), Ports("Range", 1, 1, 0)>>,
          tcp \o <<elsewhere, Word("port"), Ports("Range", 1, 2, 0)>>,
          <<Word("in"), Word("port"), Ports("Single", 1, 0, 0)>> }

-----------------------------------------------------------------------------
Lists(a, b) ==
    /\ allow_list' = a /\ block_list' = b
    /\ allow' = Range(a) /\ block' = Range(b)
    /\ rules' = RulesNew(gateway_ip, peer_ips, allow', block')

\* One wrong text, or one too many, refuses the whole request
set_policy(allow_texts, block_texts) ==
    /\ Len(allow_texts) + Len(block_texts) <= MAX_RULES
    /\ \A text \in Range(allow_texts) \cup Range(block_texts) : parse(text) # Error
    /\ Lists(normalize_list([i \in DOMAIN allow_texts |-> parse(allow_texts[i])]),
             normalize_list([i \in DOMAIN block_texts |-> parse(block_texts[i])]))

\* What get_policy returns of a list
Texts(list) == [i \in DOMAIN list |-> display(list[i])]

Init ==
    /\ allow_list = <<>> /\ block_list = <<>>
    /\ allow = {} /\ block = {}
    /\ rules = RulesNew(gateway_ip, peer_ips, allow, block)

\* The client reads the policy and sends it back with one rule more
AddRule ==
    /\ allow \cup block \subseteq normalize_rules(RulePool)
    /\ \E r \in RulePool :
          \/ set_policy(Append(Texts(allow_list), display(r)), Texts(block_list))
          \/ set_policy(Texts(allow_list), Append(Texts(block_list), display(r)))

WriteRule ==
    /\ allow = {} /\ block = {}
    /\ \E rule \in Rule : \E text \in Edits(display(rule)) : set_policy(<<text>>, <<>>)

WriteList ==
    /\ allow = {} /\ block = {}
    /\ \E n \in 2 .. MAX_RULES + 1 : \E texts \in [1 .. n -> Similar] : set_policy(<<>>, texts)

Next == AddRule \/ WriteRule \/ WriteList

Spec == Init /\ [][Next]_vars

-----------------------------------------------------------------------------
(***************************************************************************)
(* A client that sends back what it read, in any order and with any rule   *)
(* repeated, changes nothing: policy_set finds equal lists and keeps the   *)
(* flows.  This needs Display to be the inverse of Rule::parse, and        *)
(* sorting by text to bring equal rules together (normalize_rules).        *)
(***************************************************************************)
ReadBackUnchanged ==
    \A list \in {allow_list, block_list} :
        \A order \in [1 .. Len(list) -> DOMAIN list] : \A again \in DOMAIN list :
            Range(order) = DOMAIN list =>
                LET texts == Append([i \in DOMAIN order |-> Texts(list)[order[i]]], Texts(list)[again])
                IN  normalize_list([i \in DOMAIN texts |-> parse(texts[i])]) = list
=============================================================================
