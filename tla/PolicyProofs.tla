---------------------------- MODULE PolicyProofs ----------------------------
(***************************************************************************)
(* The compiled policy, for every pair of lists and every packet.          *)
(*                                                                         *)
(* The argument follows a packet through the tables.  rule_priority is a   *)
(* total preorder, so select finds a highest entry (HighestPriorityFacts,  *)
(* SelectFacts).  Every rule in force has its entry and every entry its    *)
(* rule (TableFacts), and they match the same packets (FitsAsRead).  What  *)
(* is left of the matching rules when the help text's preferences are      *)
(* applied one after the other has the priority of the entry that decides  *)
(* (NarrowingFacts).                                                       *)
(***************************************************************************)
EXTENDS Policy, FiniteSetTheorems, WellFoundedInduction, TLAPS

-----------------------------------------------------------------------------
(***************************************************************************)
(* Precedence.  rule_priority orders the entries of a table: any set of    *)
(* them has a highest, of whatever size the policy is.                     *)
(***************************************************************************)
Action == {"Allow", "Block"}

\* What the compiled tables hold, as far as matching looks at it
EntryOK(e) ==
    /\ e.prefix.len \in 0 .. AddrBits
    /\ e.filter \in Filter
    /\ e.action \in Action

(* Numbers with a bound have a greatest.                                   *)
LEMMA GreatestMember ==
    ASSUME NEW T \in SUBSET Int, T # {}, NEW M \in Int, \A x \in T : x <= M
    PROVE  \E x \in T : \A y \in T : y <= x
<1> DEFINE R == {ss \in Nat \X Nat : ss[1] < ss[2]}
           U == {n \in Nat : M - n \in T}
<1>1. IsWellFoundedOn(R, Nat)
  BY NatLessThanWellFounded DEF OpToRel
<1>2. U \in SUBSET Nat /\ U # {}
  <2>1. PICK x \in T : TRUE
    OBVIOUS
  <2>2. M - x \in Nat /\ M - (M - x) = x
    OBVIOUS
  <2> QED BY <2>2
<1> HIDE DEF R, U
<1>3. PICK n \in U : \A k \in U : ~ (<<k, n>> \in R)
  BY <1>1, <1>2, WFMin
<1>4. n \in Nat /\ M - n \in T
  BY <1>3 DEF U
<1>5. ASSUME NEW y \in T PROVE y <= M - n
  <2>1. M - y \in Nat /\ M - (M - y) = y
    OBVIOUS
  <2>2. M - y \in U
    BY <2>1 DEF U
  <2>3. ~ (<<M - y, n>> \in R)
    BY <1>3, <2>2
  <2>4. <<M - y, n>> \in Nat \X Nat /\ <<M - y, n>>[1] = M - y /\ <<M - y, n>>[2] = n
    BY <1>4, <2>1
  <2>5. ~ (M - y < n)
    BY <2>3, <2>4 DEF R
  <2> QED BY <1>4, <2>1, <2>5
<1> QED BY <1>4, <1>5

(* One field of the priority: some entries have it at its greatest.        *)
LEMMA GreatestField ==
    ASSUME NEW S, S # {}, NEW f \in [S -> Int], NEW M \in Int, \A e \in S : f[e] <= M
    PROVE  \E e \in S : \A o \in S : f[o] <= f[e]
<1> DEFINE T == {f[e] : e \in S}
<1>1. T \in SUBSET Int /\ T # {} /\ \A x \in T : x <= M
  OBVIOUS
<1> HIDE DEF T
<1>2. PICK x \in T : \A y \in T : y <= x
  BY <1>1, GreatestMember
<1> QED BY <1>2 DEF T

(* The fields of a priority are numbers, and bounded.                      *)
LEMMA PriorityType ==
    ASSUME NEW e, EntryOK(e)
    PROVE  \A i \in 1 .. 5 : rule_priority(e)[i] \in Int /\ rule_priority(e)[i] <= AddrBits + 1
<1> DEFINE range == e.filter.destination_port_range
<1>1. AddrBits \in Nat /\ U16_MAX \in Nat /\ e.prefix.len \in 0 .. AddrBits
  BY PacketsAssumption DEF EntryOK
<1>2. range \in PortRange \cup {AnyPort}
  BY DEF EntryOK, Filter
<1>3. width(range) \in Nat
  BY <1>1, <1>2 DEF width, PortRange, AnyPort
<1> HIDE DEF range
<1> DEFINE w == - (IF range = AnyPort THEN U16_MAX ELSE width(range))
<1>4. w \in Int /\ w <= 0
  BY <1>1, <1>3
<1>5. \A b \in BOOLEAN : Bit(b) \in {0, 1}
  BY DEF Bit
<1> HIDE DEF w
<1>6. rule_priority(e) = << Bit(range # AnyPort), e.prefix.len,
                            Bit(e.filter.protocol # "Any"), w, Bit(e.action = "Block") >>
  BY DEF rule_priority, range, w
<1> DEFINE b1 == Bit(range # AnyPort)
           b3 == Bit(e.filter.protocol # "Any")
           b5 == Bit(e.action = "Block")
<1>7. b1 \in {0, 1} /\ b3 \in {0, 1} /\ b5 \in {0, 1}
  BY DEF Bit
<1> HIDE DEF b1, b3, b5
<1>8. rule_priority(e) = << b1, e.prefix.len, b3, w, b5 >>
  BY <1>6 DEF b1, b3, b5
<1> QED BY <1>1, <1>4, <1>7, <1>8

(* The lexicographic comparison, field by field.                           *)
LEMMA LessFields ==
    ASSUME NEW p, NEW q
    PROVE  TupleLess(p, q) <=>
              \/ p[1] < q[1]
              \/ p[1] = q[1] /\ p[2] < q[2]
              \/ p[1] = q[1] /\ p[2] = q[2] /\ p[3] < q[3]
              \/ p[1] = q[1] /\ p[2] = q[2] /\ p[3] = q[3] /\ p[4] < q[4]
              \/ p[1] = q[1] /\ p[2] = q[2] /\ p[3] = q[3] /\ p[4] = q[4] /\ p[5] < q[5]
<1>1. 1 .. 5 = {1, 2, 3, 4, 5}
  OBVIOUS
<1>2. TupleLess(p, q) <=> \E i \in {1, 2, 3, 4, 5} :
          p[i] < q[i] /\ \A j \in 1 .. i - 1 : p[j] = q[j]
  BY <1>1 DEF TupleLess
<1>3. 1 .. 1 - 1 = {} /\ 1 .. 2 - 1 = {1} /\ 1 .. 3 - 1 = {1, 2}
      /\ 1 .. 4 - 1 = {1, 2, 3} /\ 1 .. 5 - 1 = {1, 2, 3, 4}
  OBVIOUS
<1> QED BY <1>2, <1>3

\* Numbers in all five fields
Five(p) == \A i \in 1 .. 5 : p[i] \in Int

(* It is a total preorder.                                                 *)
LEMMA LessOrder ==
    ASSUME NEW p, NEW q, NEW r, Five(p), Five(q), Five(r)
    PROVE  /\ ~ TupleLess(p, q) /\ ~ TupleLess(q, r) => ~ TupleLess(p, r)
           /\ ~ TupleLess(p, q) /\ ~ TupleLess(q, p) =>
                 p[1] = q[1] /\ p[2] = q[2] /\ p[3] = q[3] /\ p[4] = q[4] /\ p[5] = q[5]
<1>1. /\ p[1] \in Int /\ p[2] \in Int /\ p[3] \in Int /\ p[4] \in Int /\ p[5] \in Int
      /\ q[1] \in Int /\ q[2] \in Int /\ q[3] \in Int /\ q[4] \in Int /\ q[5] \in Int
      /\ r[1] \in Int /\ r[2] \in Int /\ r[3] \in Int /\ r[4] \in Int /\ r[5] \in Int
  BY DEF Five
<1> QED BY <1>1, LessFields

(* The entries of a set that are greatest in one field.                    *)
Top(S, i) == {e \in S : \A o \in S : rule_priority(o)[i] <= rule_priority(e)[i]}

(* There is one, in every field (rule_priority).                           *)
LEMMA TopExists ==
    ASSUME NEW S, S # {}, \A e \in S : EntryOK(e), NEW i \in 1 .. 5
    PROVE  Top(S, i) # {} /\ \A e \in Top(S, i) : e \in S /\ EntryOK(e)
<1> DEFINE f == [e \in S |-> rule_priority(e)[i]]
<1>1. f \in [S -> Int] /\ \A e \in S : f[e] <= AddrBits + 1
  BY PriorityType
<1>2. AddrBits + 1 \in Int
  BY PacketsAssumption
<1> HIDE DEF f
<1>3. PICK e \in S : \A o \in S : f[o] <= f[e]
  BY <1>1, <1>2, GreatestField
<1> QED BY <1>3 DEF Top, f

(* select's max_by_key has something to return.                            *)
LEMMA HighestPriorityFacts ==
    ASSUME NEW S, S # {}, \A e \in S : EntryOK(e)
    PROVE  /\ HighestPriority(S) \in S
           /\ \A o \in S : ~ TupleLess(rule_priority(HighestPriority(S)), rule_priority(o))
<1> DEFINE S1 == Top(S, 1)  S2 == Top(S1, 2)  S3 == Top(S2, 3)  S4 == Top(S3, 4)  S5 == Top(S4, 5)
<1>1. S1 # {} /\ \A e \in S1 : e \in S /\ EntryOK(e)
  BY TopExists
<1>2. S2 # {} /\ \A e \in S2 : e \in S1 /\ EntryOK(e)
  BY <1>1, TopExists
<1>3. S3 # {} /\ \A e \in S3 : e \in S2 /\ EntryOK(e)
  BY <1>2, TopExists
<1>4. S4 # {} /\ \A e \in S4 : e \in S3 /\ EntryOK(e)
  BY <1>3, TopExists
<1>5. S5 # {} /\ \A e \in S5 : e \in S4 /\ EntryOK(e)
  BY <1>4, TopExists
<1> HIDE DEF S1, S2, S3, S4, S5
<1>6. PICK e \in S5 : TRUE
  BY <1>5
<1>7. e \in S4 /\ e \in S3 /\ e \in S2 /\ e \in S1 /\ e \in S
  BY <1>1, <1>2, <1>3, <1>4, <1>5, <1>6
<1>8. ASSUME NEW o \in S PROVE ~ TupleLess(rule_priority(e), rule_priority(o))
  <2> DEFINE p == rule_priority(e)  q == rule_priority(o)
  <2>1. /\ p[1] \in Int /\ p[2] \in Int /\ p[3] \in Int /\ p[4] \in Int /\ p[5] \in Int
        /\ q[1] \in Int /\ q[2] \in Int /\ q[3] \in Int /\ q[4] \in Int /\ q[5] \in Int
    BY <1>7, PriorityType
  <2>2. \A a, b \in S : \A i \in 1 .. 5 : rule_priority(a)[i] \in Int
    BY PriorityType
  <2>3. /\ q[1] <= p[1]
        /\ o \in S1 => q[2] <= p[2]
        /\ o \in S2 => q[3] <= p[3]
        /\ o \in S3 => q[4] <= p[4]
        /\ o \in S4 => q[5] <= p[5]
    BY <1>6, <1>7 DEF S1, S2, S3, S4, S5, Top
  <2>4. q[1] = p[1] => o \in S1
    BY <1>7 DEF S1, Top
  <2>5. o \in S1 /\ q[2] = p[2] => o \in S2
    BY <1>7 DEF S2, Top
  <2>6. o \in S2 /\ q[3] = p[3] => o \in S3
    BY <1>7 DEF S3, Top
  <2>7. o \in S3 /\ q[4] = p[4] => o \in S4
    BY <1>7 DEF S4, Top
  <2> HIDE DEF p, q
  <2>8. ~ TupleLess(p, q)
    BY <2>1, <2>3, <2>4, <2>5, <2>6, <2>7, LessFields
  <2> QED BY <2>8 DEF p, q
<1> HIDE DEF TupleLess, rule_priority
<1> QED BY <1>7, <1>8 DEF HighestPriority

(***************************************************************************)
(* select and policy_decision: the action of an entry that no matching     *)
(* entry is preferred to.                                                  *)
(***************************************************************************)
Fits(e, address, protocol, port) == covers(e.prefix, address) /\ compatible(e, protocol, port)

(* select takes a best entry per prefix and then the best of those, which  *)
(* is a best one of all.                                                   *)
LEMMA SelectFacts ==
    ASSUME NEW entries, \A e \in entries : EntryOK(e), NEW address, NEW protocol, NEW port
    PROVE  LET C == {e \in entries : Fits(e, address, protocol, port)}
           IN  /\ C = {} => select(entries, address, protocol, port) = "None"
               /\ C # {} => \E e \in C :
                     /\ select(entries, address, protocol, port) = e.action
                     /\ \A o \in C : ~ TupleLess(rule_priority(e), rule_priority(o))
<1> DEFINE C == {e \in entries : Fits(e, address, protocol, port)}
           At(p) == {e \in entries : e.prefix = p /\ compatible(e, protocol, port)}
           covering == {p \in {e.prefix : e \in entries} : covers(p, address)}
           found == UNION {filter_action(entries, p, protocol, port) : p \in covering}
<1>1. select(entries, address, protocol, port)
        = IF found = {} THEN "None" ELSE HighestPriority(found).action
  BY DEF select
<1>2. \A p \in covering : At(p) # {} =>
          /\ filter_action(entries, p, protocol, port) = {HighestPriority(At(p))}
          /\ HighestPriority(At(p)) \in At(p)
          /\ \A o \in At(p) : ~ TupleLess(rule_priority(HighestPriority(At(p))), rule_priority(o))
  BY HighestPriorityFacts DEF filter_action
<1>3. \A p \in covering : At(p) = {} => filter_action(entries, p, protocol, port) = {}
  BY DEF filter_action
<1> HIDE DEF filter_action, compatible, covers
<1>4. found \subseteq C
  <2> SUFFICES ASSUME NEW p \in covering, NEW e \in filter_action(entries, p, protocol, port)
               PROVE  e \in C
    OBVIOUS
  <2>1. e \in At(p)
    <3> DEFINE A == At(p)
               H == HighestPriority(A)
    <3>1. A # {} => filter_action(entries, p, protocol, port) = {H} /\ H \in A
      BY <1>2
    <3>2. A = {} => filter_action(entries, p, protocol, port) = {}
      BY <1>3
    <3> HIDE DEF A, H, At
    <3>3. e \in A
      BY <3>1, <3>2
    <3> QED BY <3>3 DEF A
  <2> QED BY <2>1 DEF Fits
<1>5. ASSUME NEW o \in C
      PROVE  \E g \in found : ~ TupleLess(rule_priority(g), rule_priority(o))
  <2>1. o.prefix \in covering /\ o \in At(o.prefix)
    <3>1. o \in entries /\ covers(o.prefix, address) /\ compatible(o, protocol, port)
      BY DEF Fits
    <3> QED BY <3>1
  <2>2. HighestPriority(At(o.prefix)) \in found
    <3>1. HighestPriority(At(o.prefix)) \in filter_action(entries, o.prefix, protocol, port)
      BY <1>2, <2>1
    <3> HIDE DEF At, covering
    <3> QED BY <2>1, <3>1
  <2> QED BY <1>2, <2>1, <2>2
<1> DEFINE top == HighestPriority(found)
<1>6. ASSUME found # {}
      PROVE  top \in found /\ \A g \in found : ~ TupleLess(rule_priority(top), rule_priority(g))
  <2>1. \A e \in found : EntryOK(e)
    BY <1>4
  <2> HIDE DEF found
  <2> QED BY <1>6, <2>1, HighestPriorityFacts
<1> HIDE DEF found, top
<1>7. ASSUME C # {} PROVE found # {}
  BY <1>5, <1>7
<1>8. ASSUME found # {}, NEW o \in C PROVE ~ TupleLess(rule_priority(top), rule_priority(o))
  <2>1. PICK g \in found : ~ TupleLess(rule_priority(g), rule_priority(o))
    BY <1>5
  <2>2. ~ TupleLess(rule_priority(top), rule_priority(g))
    BY <1>6, <1>8
  <2>3. EntryOK(top) /\ EntryOK(g) /\ EntryOK(o)
    BY <1>4, <1>6, <1>8
  <2>4. Five(rule_priority(top)) /\ Five(rule_priority(g)) /\ Five(rule_priority(o))
    BY <2>3, PriorityType DEF Five
  <2> QED BY <2>1, <2>2, <2>4, LessOrder
<1>9. C = {} => found = {}
  BY <1>4
<1> HIDE DEF C
<1>10. C # {} => \E e \in C :
          /\ select(entries, address, protocol, port) = e.action
          /\ \A o \in C : ~ TupleLess(rule_priority(e), rule_priority(o))
  BY <1>1, <1>4, <1>6, <1>7, <1>8 DEF top
<1> QED BY <1>1, <1>9, <1>10 DEF C

(* The fields of what Rules::new returns.                                  *)
LEMMA CompiledFields ==
    ASSUME NEW a, NEW b, NEW direction \in Direction
    PROVE  LET compiled == RulesNew(gateway_ip, peer_ips, a, b)
           IN  /\ compiled.mode = Mode(a, b)
               /\ Entries(compiled, direction)
                    = merged(Slots(a, direction, Mode(a, b), gateway_ip, peer_ips),
                             Slots(b, direction, Mode(a, b), gateway_ip, peer_ips))
  BY DEF RulesNew, Entries, Direction

(***************************************************************************)
(* The policy of a proxy: parsed rules without their host bits, compiled.  *)
(***************************************************************************)
PolicyOK ==
    /\ rules = RulesNew(gateway_ip, peer_ips, allow, block)
    /\ allow \cup block \subseteq normalize_rules(Rule)

(* A parsed rule has a filter that Rule::parse accepts and prefixes of a   *)
(* legal length.                                                           *)
LEMMA RuleFacts ==
    ASSUME NEW r \in normalize_rules(Rule)
    PROVE  /\ RuleFilter(r) \in Filter
           /\ \A p \in TargetPrefixes(r.target, gateway_ip, peer_ips) : p.len \in 0 .. AddrBits
<1>1. PICK s \in Rule : r = normalized(s)
  BY DEF normalize_rules
<1>2. s.target \in Target
  BY DEF Rule, Stateless, Stateful
<1>3. RuleFilter(s) \in Filter
  BY DEF Rule, Stateless, Stateful, RuleFilter, Filter, DefaultFilter
<1>4. s.type \in {"Stateless", "Stateful"}
  BY DEF Rule, Stateless, Stateful
<1>5. RuleFilter(r) = RuleFilter(s)
  BY <1>1 DEF Rule, Stateless, Stateful, RuleFilter, normalized
<1>6. \/ r.target.type = "Prefix" /\ r.target.prefix.len \in 0 .. AddrBits
      \/ r.target.type \in {"Host", "Peers"}
  BY <1>1, <1>2 DEF Rule, Stateless, Stateful, normalized, Target, PrefixTarget, HostTarget,
                    PeersTarget, trunc, Prefix
<1>7. AddrBits \in 0 .. AddrBits
  BY PacketsAssumption
<1>8. \A p \in TargetPrefixes(r.target, gateway_ip, peer_ips) : p.len \in 0 .. AddrBits
  BY <1>6, <1>7 DEF TargetPrefixes, HostPrefix
<1> QED BY <1>3, <1>5, <1>8

\* The rules of one direction, read as the help text reads them
InForce(direction) ==
    {m \in Readings(allow, "Allow") \cup Readings(block, "Block") :
        direction \in RuleDirections(m.rule, rules.mode)}

Same(m, e) == e.prefix = m.prefix /\ e.filter = m.filter

\* The readings R of a list of rules and its slots S say the same of a direction
Mirrors(R, S, action, direction, mode) ==
    /\ \A m \in R : direction \in RuleDirections(m.rule, mode) =>
          m.action = action /\ [prefix |-> m.prefix, filter |-> m.filter] \in S
    /\ \A s \in S : \E m \in R :
          /\ direction \in RuleDirections(m.rule, mode)
          /\ m.action = action
          /\ s = [prefix |-> m.prefix, filter |-> m.filter]

(* A list of rules writes a slot for each of its readings, and no other.   *)
LEMMA SlotFacts ==
    ASSUME NEW rs, NEW action, NEW direction \in Direction, NEW mode
    PROVE  Mirrors(Readings(rs, action), Slots(rs, direction, mode, gateway_ip, peer_ips),
                   action, direction, mode)
<1>1. ASSUME NEW m \in Readings(rs, action), direction \in RuleDirections(m.rule, mode)
      PROVE  /\ m.action = action
             /\ [prefix |-> m.prefix, filter |-> m.filter]
                   \in Slots(rs, direction, mode, gateway_ip, peer_ips)
  <2>1. PICK r \in rs : \E p \in TargetPrefixes(r.target, gateway_ip, peer_ips) :
           m = [prefix |-> p, filter |-> RuleFilter(r), rule |-> r, action |-> action]
    BY DEF Readings
  <2>2. PICK p \in TargetPrefixes(r.target, gateway_ip, peer_ips) :
           m = [prefix |-> p, filter |-> RuleFilter(r), rule |-> r, action |-> action]
    BY <2>1
  <2>3. m.prefix = p /\ m.filter = RuleFilter(r) /\ m.rule = r /\ m.action = action
    BY <2>2
  <2> HIDE DEF TargetPrefixes, RuleFilter, RuleDirections
  <2> QED BY <1>1, <2>3 DEF Slots
<1>2. ASSUME NEW s \in Slots(rs, direction, mode, gateway_ip, peer_ips)
      PROVE  \E m \in Readings(rs, action) :
                /\ direction \in RuleDirections(m.rule, mode)
                /\ m.action = action
                /\ s = [prefix |-> m.prefix, filter |-> m.filter]
  <2>1. PICK r \in rs : /\ direction \in RuleDirections(r, mode)
                        /\ \E p \in TargetPrefixes(r.target, gateway_ip, peer_ips) :
                              s = [prefix |-> p, filter |-> RuleFilter(r)]
    BY DEF Slots
  <2>2. PICK p \in TargetPrefixes(r.target, gateway_ip, peer_ips) :
           s = [prefix |-> p, filter |-> RuleFilter(r)]
    BY <2>1
  <2> DEFINE m == [prefix |-> p, filter |-> RuleFilter(r), rule |-> r, action |-> action]
  <2>3. m.prefix = p /\ m.filter = RuleFilter(r) /\ m.rule = r /\ m.action = action
    OBVIOUS
  <2>4. m \in Readings(rs, action)
    <3> DEFINE of(x) == {[prefix |-> q, filter |-> RuleFilter(x), rule |-> x, action |-> action] :
                            q \in TargetPrefixes(x.target, gateway_ip, peer_ips)}
    <3>1. m \in of(r)
      OBVIOUS
    <3>2. Readings(rs, action) = UNION {of(x) : x \in rs}
      BY DEF Readings
    <3> HIDE DEF of, m
    <3> QED BY <3>1, <3>2
  <2> HIDE DEF m
  <2> QED BY <2>1, <2>2, <2>3, <2>4
<1> QED BY <1>1, <1>2 DEF Mirrors

(***************************************************************************)
(* Rules::new loses no rule but the allows that a block of the same slot   *)
(* overwrites, and adds none.                                              *)
(***************************************************************************)
LEMMA TableFacts ==
    ASSUME PolicyOK, NEW direction \in Direction
    PROVE  /\ \A m \in InForce(direction) : EntryOK(m)
           /\ \A e \in Entries(rules, direction) : EntryOK(e)
           /\ \A e \in Entries(rules, direction) :
                 \E m \in InForce(direction) : Same(m, e) /\ m.action = e.action
           /\ \A m \in InForce(direction) :
                 \E e \in Entries(rules, direction) :
                    Same(m, e) /\ (e.action = m.action \/ e.action = "Block")
<1> DEFINE mode == Mode(allow, block)
           A == Slots(allow, direction, mode, gateway_ip, peer_ips)
           B == Slots(block, direction, mode, gateway_ip, peer_ips)
           RA == Readings(allow, "Allow")
           RB == Readings(block, "Block")
<1>1. rules.mode = mode /\ Entries(rules, direction) = merged(A, B)
  BY CompiledFields DEF PolicyOK
<1>2. Mirrors(RA, A, "Allow", direction, mode)
  BY SlotFacts
<1>3. Mirrors(RB, B, "Block", direction, mode)
  BY SlotFacts
<1>4. InForce(direction) = {m \in RA \cup RB : direction \in RuleDirections(m.rule, mode)}
  BY <1>1 DEF InForce
<1>5. ASSUME NEW m \in InForce(direction) PROVE EntryOK(m)
  <2>1. PICK r \in allow \cup block, a \in Action :
           \E p \in TargetPrefixes(r.target, gateway_ip, peer_ips) :
              m = [prefix |-> p, filter |-> RuleFilter(r), rule |-> r, action |-> a]
    BY <1>4 DEF Readings, Action
  <2>2. PICK p \in TargetPrefixes(r.target, gateway_ip, peer_ips) :
           m = [prefix |-> p, filter |-> RuleFilter(r), rule |-> r, action |-> a]
    BY <2>1
  <2>3. m.prefix = p /\ m.filter = RuleFilter(r) /\ m.action = a
    BY <2>2
  <2>4. r \in normalize_rules(Rule)
    BY DEF PolicyOK
  <2> QED BY <2>3, <2>4, RuleFacts DEF EntryOK
<1> HIDE DEF A, B, RA, RB, mode
<1>6. ASSUME NEW e \in Entries(rules, direction)
      PROVE  \E m \in InForce(direction) : Same(m, e) /\ m.action = e.action
  <2>1. \/ \E s \in B : e = Entry(s, "Block")
        \/ \E s \in A : e = Entry(s, "Allow")
    BY <1>1 DEF merged
  <2>2. CASE \E s \in B : e = Entry(s, "Block")
    <3>1. PICK s \in B : e = Entry(s, "Block")
      BY <2>2
    <3>2. PICK m \in RB : /\ direction \in RuleDirections(m.rule, mode) /\ m.action = "Block"
                          /\ s = [prefix |-> m.prefix, filter |-> m.filter]
      BY <1>3 DEF Mirrors
    <3> QED BY <1>4, <3>1, <3>2 DEF Entry, Same
  <2>3. CASE \E s \in A : e = Entry(s, "Allow")
    <3>1. PICK s \in A : e = Entry(s, "Allow")
      BY <2>3
    <3>2. PICK m \in RA : /\ direction \in RuleDirections(m.rule, mode) /\ m.action = "Allow"
                          /\ s = [prefix |-> m.prefix, filter |-> m.filter]
      BY <1>2 DEF Mirrors
    <3> QED BY <1>4, <3>1, <3>2 DEF Entry, Same
  <2> QED BY <2>1, <2>2, <2>3
<1>7. ASSUME NEW m \in InForce(direction)
      PROVE  \E e \in Entries(rules, direction) :
                Same(m, e) /\ (e.action = m.action \/ e.action = "Block")
  <2> DEFINE s == [prefix |-> m.prefix, filter |-> m.filter]
             be == Entry(s, "Block")
             ae == Entry(s, "Allow")
  <2>1. (s \in A /\ m.action = "Allow") \/ s \in B
    BY <1>2, <1>3, <1>4 DEF Mirrors
  <2>2. Same(m, be) /\ be.action = "Block" /\ Same(m, ae) /\ ae.action = "Allow"
    BY DEF Entry, Same
  <2>3. (s \in B => be \in merged(A, B)) /\ (s \in A \ B => ae \in merged(A, B))
    BY DEF merged
  <2> HIDE DEF s, be, ae
  <2> QED BY <1>1, <2>1, <2>2, <2>3
<1>8. ASSUME NEW e \in Entries(rules, direction) PROVE EntryOK(e)
  <2>1. PICK m \in InForce(direction) : Same(m, e) /\ m.action = e.action
    BY <1>6
  <2> QED BY <1>5, <2>1 DEF EntryOK, Same
<1> QED BY <1>5, <1>6, <1>7, <1>8

(* The fields of a priority, by name.                                      *)
LEMMA PriorityFields ==
    ASSUME NEW e, EntryOK(e)
    PROVE  LET p == rule_priority(e)
           IN  /\ p[1] = (IF PortsOf(e) # AnyPort THEN 1 ELSE 0)
               /\ p[2] = e.prefix.len
               /\ p[3] = (IF e.filter.protocol # "Any" THEN 1 ELSE 0)
               /\ p[4] = - (IF PortsOf(e) = AnyPort THEN U16_MAX ELSE width(PortsOf(e)))
               /\ p[5] = (IF e.action = "Block" THEN 1 ELSE 0)
               /\ width(PortsOf(e)) \in Nat /\ width(AnyPort) = 0
               /\ e.prefix.len \in Nat
<1>1. PortsOf(e) \in PortRange \cup {AnyPort}
  BY DEF EntryOK, Filter, PortsOf
<1>2. width(PortsOf(e)) \in Nat /\ width(AnyPort) = 0
  BY <1>1, PacketsAssumption DEF width, PortRange, AnyPort
<1>3. e.prefix.len \in Nat
  BY DEF EntryOK
<1> HIDE DEF width, AnyPort
<1> QED BY <1>2, <1>3 DEF rule_priority, Bit, PortsOf

(***************************************************************************)
(* The help text's narrowing arrives at the readings of highest priority,  *)
(* the action left aside.                                                  *)
(***************************************************************************)
LEMMA NarrowingFacts ==
    ASSUME NEW R, \A m \in R : EntryOK(m), NEW m \in R,
           \A o \in R : LET p == rule_priority(m)  q == rule_priority(o)
                        IN  /\ ~ (p[1] < q[1])
                            /\ p[1] = q[1] => ~ (p[2] < q[2])
                            /\ p[1] = q[1] /\ p[2] = q[2] => ~ (p[3] < q[3])
                            /\ p[1] = q[1] /\ p[2] = q[2] /\ p[3] = q[3] => ~ (p[4] < q[4])
    PROVE  /\ m \in Narrowest(Typed(Longest(Ported(R))))
           /\ \A o \in Narrowest(Typed(Longest(Ported(R)))) :
                 o \in R /\ \A i \in 1 .. 4 : rule_priority(o)[i] = rule_priority(m)[i]
<1> DEFINE P(e) == rule_priority(e)
           S1 == Ported(R)  S2 == Longest(S1)  S3 == Typed(S2)  S4 == Narrowest(S3)
<1>1. \A e \in R : /\ P(e)[1] = (IF PortsOf(e) # AnyPort THEN 1 ELSE 0)
                   /\ P(e)[2] = e.prefix.len /\ e.prefix.len \in Nat
                   /\ P(e)[3] = (IF e.filter.protocol # "Any" THEN 1 ELSE 0)
                   /\ P(e)[4] = - (IF PortsOf(e) = AnyPort THEN U16_MAX ELSE width(PortsOf(e)))
                   /\ width(PortsOf(e)) \in Nat /\ width(AnyPort) = 0
  BY PriorityFields
<1>2. U16_MAX \in Nat
  BY PacketsAssumption
<1>3. \A o \in R : /\ ~ (P(m)[1] < P(o)[1])
                   /\ P(m)[1] = P(o)[1] => ~ (P(m)[2] < P(o)[2])
                   /\ P(m)[1] = P(o)[1] /\ P(m)[2] = P(o)[2] => ~ (P(m)[3] < P(o)[3])
                   /\ P(m)[1] = P(o)[1] /\ P(m)[2] = P(o)[2] /\ P(m)[3] = P(o)[3]
                         => ~ (P(m)[4] < P(o)[4])
  OBVIOUS
<1> HIDE DEF P
<1>11. \A e \in R : P(e)[1] = (IF PortsOf(e) # AnyPort THEN 1 ELSE 0)
  BY <1>1
<1>12. \A e \in R : P(e)[2] = e.prefix.len /\ e.prefix.len \in Nat
  BY <1>1
<1>13. \A e \in R : P(e)[3] = (IF e.filter.protocol # "Any" THEN 1 ELSE 0)
  BY <1>1
<1>4. m \in S1 /\ \A o \in S1 : o \in R /\ P(o)[1] = P(m)[1]
  <2>1. CASE \E o \in R : PortsOf(o) # AnyPort
    <3>1. PortsOf(m) # AnyPort
      <4>1. PICK o \in R : PortsOf(o) # AnyPort
        BY <2>1
      <4>2. P(o)[1] = 1 /\ ~ (P(m)[1] < P(o)[1])
        BY <1>3, <1>11, <4>1
      <4> QED BY <1>11, <4>2
    <3>2. S1 = {o \in R : PortsOf(o) # AnyPort}
      BY <2>1 DEF Ported, Preferring
    <3> QED BY <1>11, <3>1, <3>2
  <2>2. CASE ~ \E o \in R : PortsOf(o) # AnyPort
    <3>1. S1 = R
      BY <2>2 DEF Ported, Preferring
    <3> QED BY <1>11, <2>2, <3>1
  <2> QED BY <2>1, <2>2
<1> HIDE DEF S1
<1>5. m \in S2 /\ \A o \in S2 : o \in S1 /\ P(o)[2] = P(m)[2]
  <2>1. m \in S2
    <3>1. ASSUME NEW o \in S1 PROVE o.prefix.len <= m.prefix.len
      <4>1. o \in R /\ ~ (P(m)[2] < P(o)[2])
        BY <1>3, <1>4
      <4> QED BY <1>12, <4>1
    <3> QED BY <1>4, <3>1 DEF Longest
  <2>2. ASSUME NEW o \in S2 PROVE o \in S1 /\ P(o)[2] = P(m)[2]
    <3>1. /\ o \in S1 /\ m \in S1
          /\ o.prefix.len <= m.prefix.len /\ m.prefix.len <= o.prefix.len
      BY <1>4, <2>1 DEF Longest
    <3> QED BY <1>4, <1>12, <3>1
  <2> QED BY <2>1, <2>2
<1> HIDE DEF S2
<1>6. m \in S3 /\ \A o \in S3 : o \in S2 /\ P(o)[3] = P(m)[3]
  <2>1. CASE \E o \in S2 : o.filter.protocol # "Any"
    <3>1. m.filter.protocol # "Any"
      <4>1. PICK o \in S2 : o.filter.protocol # "Any"
        BY <2>1
      <4>2. o \in R /\ ~ (P(m)[3] < P(o)[3])
        BY <1>3, <1>4, <1>5
      <4> QED BY <1>13, <4>1, <4>2
    <3>2. S3 = {o \in S2 : o.filter.protocol # "Any"}
      BY <2>1 DEF Typed, Preferring
    <3> QED BY <1>13, <1>4, <1>5, <3>1, <3>2
  <2>2. CASE ~ \E o \in S2 : o.filter.protocol # "Any"
    <3>1. S3 = S2
      BY <2>2 DEF Typed, Preferring
    <3> QED BY <1>13, <1>4, <1>5, <2>2, <3>1
  <2> QED BY <2>1, <2>2
<1> HIDE DEF S3
<1>7. \A o \in S3 : /\ o \in R /\ P(o)[1] = P(m)[1] /\ P(o)[2] = P(m)[2] /\ P(o)[3] = P(m)[3]
                    /\ PortsOf(o) = AnyPort <=> PortsOf(m) = AnyPort
  BY <1>11, <1>4, <1>5, <1>6
<1>8. ASSUME NEW o \in S3 PROVE width(PortsOf(m)) <= width(PortsOf(o))
  <2>1. o \in R /\ ~ (P(m)[4] < P(o)[4])
    BY <1>3, <1>7
  <2>2. CASE PortsOf(m) = AnyPort
    <3>1. width(PortsOf(m)) = width(PortsOf(o)) /\ width(PortsOf(m)) \in Nat
      BY <1>1, <1>7, <2>2
    <3> HIDE DEF width
    <3> QED BY <3>1
  <2>3. CASE PortsOf(m) # AnyPort
    <3>1. P(m)[4] = - width(PortsOf(m)) /\ P(o)[4] = - width(PortsOf(o))
      BY <1>1, <1>7, <2>1, <2>3
    <3>2. width(PortsOf(m)) \in Nat /\ width(PortsOf(o)) \in Nat
      BY <1>1, <2>1
    <3> HIDE DEF width
    <3> QED BY <2>1, <3>1, <3>2
  <2> QED BY <2>2, <2>3
<1>9. m \in S4
  BY <1>6, <1>8 DEF Narrowest
<1>10. ASSUME NEW o \in S4 PROVE o \in S3 /\ P(o)[4] = P(m)[4]
  <2>1. o \in S3 /\ o \in R /\ width(PortsOf(o)) <= width(PortsOf(m))
    BY <1>6, <1>7 DEF Narrowest
  <2>2. width(PortsOf(m)) <= width(PortsOf(o))
    BY <1>8, <2>1
  <2>3. width(PortsOf(m)) = width(PortsOf(o))
    BY <1>1, <2>1, <2>2
  <2> QED BY <1>1, <1>7, <2>1, <2>3
<1> HIDE DEF S4
<1>14. 1 .. 4 = {1, 2, 3, 4}
  OBVIOUS
<1>15. \A o \in S4 : o \in R /\ \A i \in 1 .. 4 : P(o)[i] = P(m)[i]
  BY <1>7, <1>10, <1>14
<1> QED BY <1>9, <1>15 DEF S1, S2, S3, S4, P

(***************************************************************************)
(* Matching in the tables is matching of the rules: the closure of         *)
(* filter_action treats a port range of an unknown port as the help text   *)
(* does, because parsing gives one to tcp and udp only.                    *)
(***************************************************************************)
Reads(m, address, protocol, port) ==
    /\ covers(m.prefix, address)
    /\ m.filter.protocol \in {"Any", protocol}
    /\ \/ PortsOf(m) = AnyPort
       \/ IF port = NoPort THEN m.action = "Block" ELSE contains(PortsOf(m), port)

(* An entry fits the packets that its rule reads, and a block that took    *)
(* the place of an allow at least those (merged, filter_action).           *)
LEMMA FitsAsRead ==
    ASSUME NEW m, NEW e, EntryOK(e), Same(m, e), NEW address, NEW protocol, NEW port
    PROVE  /\ m.action = e.action =>
                 (Reads(m, address, protocol, port) <=> Fits(e, address, protocol, port))
           /\ Reads(m, address, protocol, port) /\ e.action = "Block" =>
                 Fits(e, address, protocol, port)
<1>1. PortsOf(e) # AnyPort => e.filter.protocol \in {"Tcp", "Udp"}
  BY DEF EntryOK, Filter, PortsOf
<1>2. PortsOf(m) = PortsOf(e) /\ m.prefix = e.prefix /\ m.filter = e.filter
  BY DEF Same, PortsOf
<1>3. Fits(e, address, protocol, port) <=>
        /\ covers(e.prefix, address)
        /\ e.filter.protocol \in {"Any", protocol}
        /\ \/ PortsOf(e) = AnyPort
           \/ port # NoPort /\ contains(PortsOf(e), port)
           \/ port = NoPort /\ e.action = "Block" /\ protocol \in {"Tcp", "Udp"}
  BY DEF Fits, compatible, PortsOf
<1> HIDE DEF PortsOf, covers, contains, AnyPort, NoPort
<1> QED BY <1>1, <1>2, <1>3 DEF Reads

(***************************************************************************)
(* The decision on one packet: the entries and the readings that match it, *)
(* and the entry that decides.                                             *)
(***************************************************************************)
LEMMA DecisionFacts ==
    ASSUME PolicyOK, NEW direction \in Direction, NEW address, NEW protocol, NEW port
    PROVE  LET C == {e \in Entries(rules, direction) : Fits(e, address, protocol, port)}
               R == Matching(direction, address, protocol, port)
               decision == Decision(rules, direction, address, protocol, port)
           IN  /\ R = {m \in InForce(direction) : Reads(m, address, protocol, port)}
               /\ \A e \in C : \E m \in R : Same(m, e) /\ m.action = e.action
               /\ \A m \in R : \E e \in C : Same(m, e) /\ (e.action = m.action \/ e.action = "Block")
               /\ C = {} => decision = "None"
               /\ C # {} => \E e \in C :
                     /\ \A o \in C : ~ TupleLess(rule_priority(e), rule_priority(o))
                     /\ decision = IF e.action = "Block" THEN "Block"
                                   ELSE IF rules.mode = "Legacy" THEN "AllowStateless"
                                   ELSE "AllowStateful"
<1> DEFINE E == Entries(rules, direction)
           F == InForce(direction)
           C == {e \in E : Fits(e, address, protocol, port)}
           R == Matching(direction, address, protocol, port)
           decision == Decision(rules, direction, address, protocol, port)
<1>1. /\ \A m \in F : EntryOK(m)
      /\ \A e \in E : EntryOK(e)
      /\ \A e \in E : \E m \in F : Same(m, e) /\ m.action = e.action
      /\ \A m \in F : \E e \in E : Same(m, e) /\ (e.action = m.action \/ e.action = "Block")
  BY TableFacts
<1>2. R = {m \in F : Reads(m, address, protocol, port)}
  BY DEF Matching, InForce, Reads
<1>3. /\ C = {} => select(E, address, protocol, port) = "None"
      /\ C # {} => \E e \in C :
            /\ select(E, address, protocol, port) = e.action
            /\ \A o \in C : ~ TupleLess(rule_priority(e), rule_priority(o))
  BY <1>1, SelectFacts
<1>4. \A e \in E : e.action \in {"Allow", "Block"}
  BY <1>1 DEF EntryOK, Action
<1>5. decision = LET action == select(E, address, protocol, port)
                 IN  IF action # "Allow" THEN action
                     ELSE IF rules.mode = "Legacy" THEN "AllowStateless" ELSE "AllowStateful"
  BY DEF Decision
<1> HIDE DEF E, F, R, decision
<1>6. ASSUME NEW e \in C PROVE \E m \in R : Same(m, e) /\ m.action = e.action
  <2>1. PICK m \in F : Same(m, e) /\ m.action = e.action
    BY <1>1
  <2>2. Reads(m, address, protocol, port)
    BY <1>1, <2>1, FitsAsRead
  <2> QED BY <1>2, <2>1, <2>2
<1>7. ASSUME NEW m \in R
      PROVE  \E e \in C : Same(m, e) /\ (e.action = m.action \/ e.action = "Block")
  <2>1. PICK e \in E : Same(m, e) /\ (e.action = m.action \/ e.action = "Block")
    BY <1>1, <1>2
  <2>2. Fits(e, address, protocol, port)
    BY <1>1, <1>2, <2>1, FitsAsRead
  <2> QED BY <2>1, <2>2
<1>8. ASSUME C # {}
      PROVE  \E e \in C :
                /\ \A o \in C : ~ TupleLess(rule_priority(e), rule_priority(o))
                /\ decision = IF e.action = "Block" THEN "Block"
                              ELSE IF rules.mode = "Legacy" THEN "AllowStateless"
                              ELSE "AllowStateful"
  <2>1. PICK e \in C : /\ select(E, address, protocol, port) = e.action
                       /\ \A o \in C : ~ TupleLess(rule_priority(e), rule_priority(o))
    BY <1>3, <1>8
  <2>2. e.action \in {"Allow", "Block"}
    BY <1>4
  <2> HIDE DEF C
  <2>3. decision = IF e.action = "Block" THEN "Block"
                   ELSE IF rules.mode = "Legacy" THEN "AllowStateless" ELSE "AllowStateful"
    BY <1>5, <2>1, <2>2
  <2> QED BY <2>1, <2>3
<1>9. C = {} => decision = "None"
  BY <1>3, <1>5
<1> HIDE DEF C
<1> QED BY <1>2, <1>6, <1>7, <1>8, <1>9 DEF C, R, F, E, decision

(* The decision is the documented one: a port, then the longest prefix,    *)
(* then a protocol, then the narrowest range, and a block on a tie.        *)
LEMMA PrecedenceHolds ==
    ASSUME PolicyOK
    PROVE  DocumentedPrecedence
<1> SUFFICES ASSUME NEW direction \in Direction, NEW address \in Addr, NEW protocol \in Protocol,
                    NEW port \in Port \cup {NoPort}
             PROVE  Decision(rules, direction, address, protocol, port)
                       = Documented(direction, address, protocol, port)
  BY DEF DocumentedPrecedence
<1> DEFINE C == {e \in Entries(rules, direction) : Fits(e, address, protocol, port)}
           R == Matching(direction, address, protocol, port)
           decision == Decision(rules, direction, address, protocol, port)
           best == Narrowest(Typed(Longest(Ported(R))))
<1>1. /\ R = {m \in InForce(direction) : Reads(m, address, protocol, port)}
      /\ \A e \in C : \E m \in R : Same(m, e) /\ m.action = e.action
      /\ \A m \in R : \E e \in C : Same(m, e) /\ (e.action = m.action \/ e.action = "Block")
      /\ C = {} => decision = "None"
      /\ C # {} => \E e \in C :
            /\ \A o \in C : ~ TupleLess(rule_priority(e), rule_priority(o))
            /\ decision = IF e.action = "Block" THEN "Block"
                          ELSE IF rules.mode = "Legacy" THEN "AllowStateless" ELSE "AllowStateful"
  BY DecisionFacts
<1>2. (\A m \in R : EntryOK(m)) /\ (\A e \in C : EntryOK(e))
  BY <1>1, TableFacts
<1>3. Documented(direction, address, protocol, port) =
        CASE best = {} -> "None"
          [] \E m \in best : m.action = "Block" -> "Block"
          [] OTHER -> IF rules.mode = "Legacy" THEN "AllowStateless" ELSE "AllowStateful"
  BY DEF Documented
<1>4. R = {} => best = {}
  BY DEF Narrowest, Typed, Longest, Ported, Preferring
<1> HIDE DEF C, R, decision, best
<1>5. CASE C = {}
  BY <1>1, <1>3, <1>4, <1>5 DEF decision
<1>6. CASE C # {}
  <2>1. PICK e \in C :
           /\ \A o \in C : ~ TupleLess(rule_priority(e), rule_priority(o))
           /\ decision = IF e.action = "Block" THEN "Block"
                         ELSE IF rules.mode = "Legacy" THEN "AllowStateless" ELSE "AllowStateful"
    BY <1>1, <1>6
  <2>2. PICK m \in R : Same(m, e) /\ m.action = e.action
    BY <1>1
  <2> DEFINE p == rule_priority(e)
  <2>3. ASSUME NEW a, NEW b, Same(a, b)
        PROVE  \A i \in 1 .. 4 : rule_priority(a)[i] = rule_priority(b)[i]
    <3>1. 1 .. 4 = {1, 2, 3, 4}
      OBVIOUS
    <3>2. a.prefix = b.prefix /\ a.filter = b.filter
      BY <2>3 DEF Same
    <3> QED BY <3>1, <3>2 DEF rule_priority
  <2>4. \A i \in 1 .. 4 : rule_priority(m)[i] = p[i]
    BY <2>2, <2>3
  <2>5. \A o \in R : \E x \in C : /\ \A i \in 1 .. 4 : rule_priority(o)[i] = rule_priority(x)[i]
                                  /\ x.action = o.action \/ x.action = "Block"
                                  /\ ~ TupleLess(p, rule_priority(x))
    <3> SUFFICES ASSUME NEW o \in R
                 PROVE  \E x \in C : /\ \A i \in 1 .. 4 : rule_priority(o)[i] = rule_priority(x)[i]
                                     /\ x.action = o.action \/ x.action = "Block"
                                     /\ ~ TupleLess(p, rule_priority(x))
      OBVIOUS
    <3>1. PICK x \in C : Same(o, x) /\ (x.action = o.action \/ x.action = "Block")
      BY <1>1
    <3> QED BY <2>1, <2>3, <3>1
  <2>6. 1 \in 1 .. 4 /\ 2 \in 1 .. 4 /\ 3 \in 1 .. 4 /\ 4 \in 1 .. 4
    OBVIOUS
  <2> DEFINE r == rule_priority(m)
  <2>7. ASSUME NEW o \in R
        PROVE  LET q == rule_priority(o)
               IN  /\ ~ (r[1] < q[1])
                   /\ r[1] = q[1] => ~ (r[2] < q[2])
                   /\ r[1] = q[1] /\ r[2] = q[2] => ~ (r[3] < q[3])
                   /\ r[1] = q[1] /\ r[2] = q[2] /\ r[3] = q[3] => ~ (r[4] < q[4])
    <3>1. PICK x \in C : /\ \A i \in 1 .. 4 : rule_priority(o)[i] = rule_priority(x)[i]
                         /\ ~ TupleLess(p, rule_priority(x))
      BY <2>5
    <3> DEFINE q == rule_priority(o)  s == rule_priority(x)
    <3>2. q[1] = s[1] /\ q[2] = s[2] /\ q[3] = s[3] /\ q[4] = s[4]
      BY <2>6, <3>1
    <3>3. r[1] = p[1] /\ r[2] = p[2] /\ r[3] = p[3] /\ r[4] = p[4]
      BY <2>4, <2>6
    <3> HIDE DEF q, s, p, r
    <3> QED BY <3>1, <3>2, <3>3, LessFields DEF q, s
  <2>8. /\ m \in best
        /\ \A o \in best : o \in R /\ \A i \in 1 .. 4 : rule_priority(o)[i] = rule_priority(m)[i]
    BY <1>2, <2>2, <2>7, NarrowingFacts DEF best
  <2>9. CASE e.action = "Block"
    BY <1>3, <2>1, <2>2, <2>8, <2>9 DEF decision
  <2>10. CASE e.action # "Block"
    <3>1. ASSUME NEW b \in best, b.action = "Block" PROVE FALSE
      <4>1. PICK x \in C : /\ \A i \in 1 .. 4 : rule_priority(b)[i] = rule_priority(x)[i]
                           /\ x.action = "Block" /\ ~ TupleLess(p, rule_priority(x))
        BY <2>5, <2>8, <3>1
      <4> DEFINE s == rule_priority(x)
      <4>2. p[5] = 0 /\ s[5] = 1
        BY <1>2, <2>10, <4>1, PriorityFields
      <4>3. p[1] = s[1] /\ p[2] = s[2] /\ p[3] = s[3] /\ p[4] = s[4]
        BY <2>4, <2>6, <2>8, <4>1
      <4> HIDE DEF p, s
      <4>4. TupleLess(p, s)
        BY <4>2, <4>3, LessFields
      <4> QED BY <4>1, <4>4 DEF s
    <3>2. best # {}
      BY <2>8
    <3> QED BY <1>3, <2>1, <2>10, <3>1, <3>2 DEF decision
  <2> QED BY <2>9, <2>10
<1> QED BY <1>5, <1>6

(* A block that some port would meet also stops a packet without ports: an *)
(* entry that beats it in the second case beats it in the first.           *)
LEMMA UnknownPortsHold ==
    ASSUME PolicyOK
    PROVE  UnknownPortsEvadeNothing
<1> SUFFICES ASSUME NEW direction \in Direction, NEW address \in Addr, NEW protocol \in Protocol,
                    NEW port \in Port,
                    Decision(rules, direction, address, protocol, port) = "Block"
             PROVE  Decision(rules, direction, address, protocol, NoPort) = "Block"
  BY DEF UnknownPortsEvadeNothing
<1> DEFINE E == Entries(rules, direction)
           C == {e \in E : Fits(e, address, protocol, port)}
           N == {e \in E : Fits(e, address, protocol, NoPort)}
           allowed == IF rules.mode = "Legacy" THEN "AllowStateless" ELSE "AllowStateful"
           known == Decision(rules, direction, address, protocol, port)
           unknown == Decision(rules, direction, address, protocol, NoPort)
<1>1. /\ C = {} => known = "None"
      /\ C # {} => \E e \in C :
            /\ \A o \in C : ~ TupleLess(rule_priority(e), rule_priority(o))
            /\ known = IF e.action = "Block" THEN "Block" ELSE allowed
  BY DecisionFacts
<1>2. N # {} => \E e \in N :
            /\ \A o \in N : ~ TupleLess(rule_priority(e), rule_priority(o))
            /\ unknown = IF e.action = "Block" THEN "Block" ELSE allowed
  BY DecisionFacts
<1>3. \A e \in E : EntryOK(e)
  BY TableFacts
<1>4. port # NoPort
  BY PacketsAssumption DEF Port, NoPort
<1>5. known = "Block" /\ allowed # "Block"
  OBVIOUS
<1> HIDE DEF E, allowed, known, unknown
<1>6. PICK e \in C : /\ \A o \in C : ~ TupleLess(rule_priority(e), rule_priority(o))
                     /\ e.action = "Block"
  BY <1>1, <1>5
<1>7. e \in N
  <2>1. PortsOf(e) # AnyPort => e.filter.protocol \in {"Tcp", "Udp"}
    BY <1>3 DEF EntryOK, Filter, PortsOf
  <2> QED BY <1>6, <2>1 DEF Fits, compatible, PortsOf
<1>8. PICK t \in N : /\ \A o \in N : ~ TupleLess(rule_priority(t), rule_priority(o))
                     /\ unknown = IF t.action = "Block" THEN "Block" ELSE allowed
  BY <1>2, <1>7
<1>9. ASSUME t.action # "Block" PROVE FALSE
  <2>1. t \in C
    BY <1>8, <1>9 DEF Fits, compatible
  <2>2. EntryOK(e) /\ EntryOK(t)
    BY <1>3, <1>6, <1>8
  <2>3. ~ TupleLess(rule_priority(e), rule_priority(t)) /\ ~ TupleLess(rule_priority(t), rule_priority(e))
    BY <1>6, <1>7, <1>8, <2>1
  <2>4. Five(rule_priority(e)) /\ Five(rule_priority(t))
    BY <2>2, PriorityType DEF Five
  <2>5. rule_priority(e)[5] = rule_priority(t)[5]
    BY <2>3, <2>4, LessOrder
  <2>6. rule_priority(e)[5] = 1 /\ rule_priority(t)[5] = 0
    BY <1>6, <1>9, <2>2, PriorityFields
  <2>7. 0 # 1
    OBVIOUS
  <2> QED BY <2>5, <2>6, <2>7, Zenon
<1> QED BY <1>8, <1>9 DEF unknown

(* A power of two counts the subsets of an interval, so it is positive.    *)
LEMMA PowNat == ASSUME NEW n \in Nat PROVE 2^n \in Nat \ {0}
<1>1. IsFiniteSet(1..n) /\ Cardinality(1..n) = n
  BY FS_Interval
<1>2. IsFiniteSet(SUBSET (1..n)) /\ Cardinality(SUBSET (1..n)) = 2^n
  BY <1>1, FS_SUBSET
<1>3. SUBSET (1..n) # {}
  OBVIOUS
<1> QED
  BY <1>2, <1>3, FS_CardinalityType, FS_EmptySet

(* The prefix of length 0 covers every address.                            *)
LEMMA EverythingCovered ==
    ASSUME NEW address \in Addr
    PROVE  covers([addr |-> 0, len |-> 0], address)
<1> DEFINE b == 2^AddrBits
<1>1. b \in Nat \ {0}
  BY PowNat, PacketsAssumption
<1>2. BlockSize(0) = b
  BY PacketsAssumption DEF BlockSize
<1>3. address \in Nat /\ address < b
  BY <1>1 DEF Addr
<1> HIDE DEF b
<1>4. address \div b = 0 /\ 0 \div b = 0
  BY <1>1, <1>3
<1> QED BY <1>2, <1>4 DEF covers

(* A block of 0.0.0.0/0 leaves no packet undecided (select).               *)
LEMMA DefaultDenyHolds ==
    ASSUME PolicyOK
    PROVE  DefaultDeny
<1> SUFFICES ASSUME Everywhere \in block,
                    NEW direction \in Direction, NEW address \in Addr, NEW protocol \in Protocol,
                    NEW port \in Port \cup {NoPort}, direction = "Out" \/ has_stateful(rules)
             PROVE  LET decision == Decision(rules, direction, address, protocol, port)
                    IN  /\ decision # "None"
                        /\ decision # "Block" =>
                             \E m \in Matching(direction, address, protocol, port) : m.action = "Allow"
  BY DEF DefaultDeny
<1> DEFINE C == {e \in Entries(rules, direction) : Fits(e, address, protocol, port)}
           R == Matching(direction, address, protocol, port)
           decision == Decision(rules, direction, address, protocol, port)
           m0 == [prefix |-> [addr |-> 0, len |-> 0], filter |-> DefaultFilter,
                  rule |-> Everywhere, action |-> "Block"]
<1>1. /\ R = {m \in InForce(direction) : Reads(m, address, protocol, port)}
      /\ \A e \in C : \E m \in R : Same(m, e) /\ m.action = e.action
      /\ \A m \in R : \E e \in C : Same(m, e) /\ (e.action = m.action \/ e.action = "Block")
      /\ C # {} => \E e \in C :
            /\ \A o \in C : ~ TupleLess(rule_priority(e), rule_priority(o))
            /\ decision = IF e.action = "Block" THEN "Block"
                          ELSE IF rules.mode = "Legacy" THEN "AllowStateless" ELSE "AllowStateful"
  BY DecisionFacts
<1>2. \A e \in C : e.action \in {"Allow", "Block"}
  BY TableFacts DEF EntryOK, Action
<1>3. /\ Everywhere.type = "Stateless" /\ RuleFilter(Everywhere) = DefaultFilter
      /\ TargetPrefixes(Everywhere.target, gateway_ip, peer_ips) = {[addr |-> 0, len |-> 0]}
  BY DEF Everywhere, Stateless, PrefixTarget, RuleFilter, TargetPrefixes
<1>4. m0 \in Readings(block, "Block")
  <2> DEFINE of(x) == {[prefix |-> q, filter |-> RuleFilter(x), rule |-> x, action |-> "Block"] :
                          q \in TargetPrefixes(x.target, gateway_ip, peer_ips)}
  <2>1. m0 \in of(Everywhere)
    BY <1>3
  <2>2. Readings(block, "Block") = UNION {of(x) : x \in block}
    BY DEF Readings
  <2> HIDE DEF of, m0
  <2> QED BY <2>1, <2>2
<1>5. direction \in RuleDirections(Everywhere, rules.mode)
  BY <1>3 DEF RuleDirections, has_stateful
<1>6. m0.rule = Everywhere /\ m0.prefix = [addr |-> 0, len |-> 0] /\ m0.filter = DefaultFilter
  OBVIOUS
<1> HIDE DEF m0, C, R, decision
<1>7. m0 \in R
  <2>1. m0 \in InForce(direction)
    BY <1>4, <1>5, <1>6 DEF InForce
  <2>2. Reads(m0, address, protocol, port)
    BY <1>6, EverythingCovered DEF Reads, PortsOf, DefaultFilter
  <2> QED BY <1>1, <2>1, <2>2
<1>8. PICK e \in C : decision = IF e.action = "Block" THEN "Block"
                                ELSE IF rules.mode = "Legacy" THEN "AllowStateless"
                                ELSE "AllowStateful"
  BY <1>1, <1>7
<1>9. decision # "None"
  BY <1>8
<1>10. ASSUME decision # "Block" PROVE \E m \in R : m.action = "Allow"
  <2>1. e.action = "Allow"
    BY <1>2, <1>8, <1>10
  <2> QED BY <1>1, <2>1
<1> QED BY <1>9, <1>10 DEF R, decision
=============================================================================
