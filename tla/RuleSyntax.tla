----------------------------- MODULE RuleSyntax -----------------------------
(***************************************************************************)
(* The text of rules: rule.pest, Rule::parse and Display (proxy/rule.rs),  *)
(* and the list that normalize_rules (proxy/mod.rs) keeps and sorts by     *)
(* that text.                                                              *)
(*                                                                         *)
(* A text is a sequence of words, separated by spaces.  A word is a        *)
(* keyword; "Net", an address with a length, which may be out of range;    *)
(* or "Ports", digits that may have a leading zero, once or twice with a   *)
(* colon.  Words that belong to none of these occur nowhere in the grammar *)
(* and are "Junk".                                                         *)
(***************************************************************************)
EXTENDS Rules, Sequences, SequencesExt

Word(text) == [kind |-> "Word", text |-> text]
Net(prefix) == [kind |-> "Net", addr |-> prefix.addr, len |-> prefix.len]
Ports(form, start, end, zeros) ==
    [kind |-> "Ports", form |-> form, start |-> start, end |-> end, zeros |-> zeros]

Error == [type |-> "Error"]

-----------------------------------------------------------------------------
(***************************************************************************)
(* Parsing.                                                                *)
(***************************************************************************)
\* The grammar's target also takes digits without a colon, which are no Ipv4Net
IsTarget(word) ==
    \/ word \in {Word("@host"), Word("@peers")}
    \/ word.kind = "Net"
    \/ word.kind = "Ports" /\ word.form = "Single"

\* Target::from_str
TargetFromStr(word) ==
    IF word = Word("@host") THEN HostTarget
    ELSE IF word = Word("@peers") THEN PeersTarget
    ELSE IF word.kind = "Net" /\ word.len <= AddrBits
         THEN PrefixTarget([addr |-> word.addr, len |-> word.len])
    ELSE Error

\* PortRange::from_str and PortRange::new
PortRangeFromStr(word) ==
    LET last == IF word.form = "Single" THEN word.start ELSE word.end
    IN  IF word.start \in Port \ {0} /\ last \in Port \ {0} /\ word.start <= last
        THEN [start |-> word.start, end |-> last]
        ELSE Error

Names == [Tcp |-> "tcp", Udp |-> "udp", Icmp |-> "icmp"]
Directions == [In |-> "in", Out |-> "out"]

\* The fields of the grammar's stateful, in their order and each at most once:
\* the lengths of the parts that follow the direction, or nothing if it does not match
Shapes(text) ==
    {s \in [proto: {0, 2}, target: {0, 1}, port: {0, 2}] :
        LET t == 2 + s.proto   p == t + s.target
        IN  /\ Len(text) = 1 + s.proto + s.target + s.port
            /\ s.proto = 2 => text[2] = Word("proto")
                              /\ \E n \in DOMAIN Names : text[3] = Word(Names[n])
            /\ s.target = 1 => IsTarget(text[t])
            /\ s.port = 2 => text[p] = Word("port") /\ text[p + 1].kind = "Ports"}

\* Port filters require an explicit transport protocol
PortAllowed(filter) ==
    filter.destination_port_range = AnyPort \/ filter.protocol \in {"Tcp", "Udp"}

parse_stateful(text, direction) ==
    IF Shapes(text) = {} THEN Error
    ELSE LET s == CHOOSE s \in Shapes(text) : TRUE
             target == IF s.target = 0 THEN PrefixTarget([addr |-> 0, len |-> 0])
                       ELSE TargetFromStr(text[2 + s.proto])
             ports == IF s.port = 0 THEN AnyPort ELSE PortRangeFromStr(text[Len(text)])
             filter == [protocol |-> IF s.proto = 0 THEN "Any"
                                     ELSE CHOOSE n \in DOMAIN Names : text[3] = Word(Names[n]),
                        destination_port_range |-> ports]
         IN  IF target = Error \/ ports = Error \/ ~ PortAllowed(filter) THEN Error
             ELSE Stateful(direction, target, filter)

\* Rule::parse
parse(text) ==
    IF text = <<>> THEN Error
    ELSE IF \E d \in Direction : text[1] = Word(Directions[d])
         THEN parse_stateful(text, CHOOSE d \in Direction : text[1] = Word(Directions[d]))
    ELSE IF Len(text) = 1 /\ IsTarget(text[1]) /\ TargetFromStr(text[1]) # Error
         THEN Stateless(TargetFromStr(text[1]))
    ELSE Error

-----------------------------------------------------------------------------
(***************************************************************************)
(* Display.                                                                *)
(***************************************************************************)
DisplayTarget(target) ==
    CASE target.type = "Prefix" -> Net(target.prefix)
      [] target.type = "Host"   -> Word("@host")
      [] target.type = "Peers"  -> Word("@peers")

\* Mutant: a range is shown by its first port
Mut_DisplayPorts(range) == Ports("Single", range.start, 0, 0)

DisplayPorts(range) ==
    IF range.start = range.end THEN Ports("Single", range.start, 0, 0)
    ELSE Ports("Range", range.start, range.end, 0)

display(rule) ==
    IF rule.type = "Stateless" THEN <<DisplayTarget(rule.target)>>
    ELSE <<Word(Directions[rule.direction])>>
         \o (IF rule.filter.protocol = "Any" THEN <<>>
             ELSE <<Word("proto"), Word(Names[rule.filter.protocol])>>)
         \o <<DisplayTarget(rule.target)>>
         \o (IF rule.filter.destination_port_range = AnyPort THEN <<>>
             ELSE <<Word("port"), DisplayPorts(rule.filter.destination_port_range)>>)

-----------------------------------------------------------------------------
(***************************************************************************)
(* normalize_rules on lists: host bits go, the list is sorted by text and  *)
(* equal neighbours are merged.  The order of texts is some total order of *)
(* words, compared from left to right.                                     *)
(***************************************************************************)
Keywords == <<"@host", "@peers", "icmp", "in", "out", "port", "proto", "tcp", "udp">>

WordKey(word) ==
    CASE word.kind = "Word"  -> <<2, CHOOSE i \in DOMAIN Keywords : Keywords[i] = word.text>>
      [] word.kind = "Net"   -> <<1, word.addr, word.len>>
      [] word.kind = "Ports" -> <<0, word.start, word.end>>

LessAt(a, b, less(_, _)) ==
    \E i \in 1 .. Len(b) :
        /\ \A j \in 1 .. i - 1 : j <= Len(a) /\ a[j] = b[j]
        /\ i <= Len(a) => less(a[i], b[i])

WordLess(v, w) == LessAt(WordKey(v), WordKey(w), LAMBDA m, n : m < n)
TextLess(s, t) == LessAt(s, t, WordLess)

dedup(list) ==
    FoldLeft(LAMBDA kept, rule :
                IF kept # <<>> /\ kept[Len(kept)] = rule THEN kept ELSE Append(kept, rule),
             <<>>, list)

SortByText(list) == SortSeq(list, LAMBDA a, b : TextLess(display(a), display(b)))

normalize_list(list) ==
    dedup(SortByText([i \in DOMAIN list |-> normalized(list[i])]))
=============================================================================
