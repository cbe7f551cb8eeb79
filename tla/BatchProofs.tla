----------------------------- MODULE BatchProofs -----------------------------
(***************************************************************************)
(* Proofs about Batch: what find_available_subnet's comparison of prefixes *)
(* says of addresses, and the four invariants of a batch.                  *)
(***************************************************************************)
EXTENDS Batch, FiniteSetTheorems, TLAPS

(***************************************************************************)
(* Powers of two, the block sizes of Ipv4Net: an interval of n numbers has *)
(* 2^n subsets, which ties the operator to counting.                       *)
(***************************************************************************)
LEMMA PowNat == ASSUME NEW n \in Nat PROVE 2^n \in Nat \ {0}
<1>1. IsFiniteSet(1..n) /\ Cardinality(1..n) = n
  BY FS_Interval
<1>2. IsFiniteSet(SUBSET (1..n)) /\ Cardinality(SUBSET (1..n)) = 2^n
  BY <1>1, FS_SUBSET
<1>3. SUBSET (1..n) # {}
  OBVIOUS
<1> QED
  BY <1>2, <1>3, FS_CardinalityType, FS_EmptySet

(* A set of m + n numbers is split in two, and a subset of it with it.     *)
LEMMA PowSum == ASSUME NEW m \in Nat, NEW n \in Nat PROVE 2^(m + n) = 2^m * 2^n
<1> DEFINE L == 1 .. m  R == m + 1 .. m + n  A == 1 .. m + n
<1> DEFINE f == [U \in SUBSET A |-> <<U \cap L, U \cap R>>]
<1>1. IsFiniteSet(L) /\ Cardinality(L) = m
  BY FS_Interval
<1>2. IsFiniteSet(R) /\ Cardinality(R) = n
  BY FS_Interval
<1>3. IsFiniteSet(A) /\ Cardinality(A) = m + n
  <2>1. m + n \in Nat
    OBVIOUS
  <2> QED BY <2>1, FS_Interval
<1>4. /\ IsFiniteSet(SUBSET L) /\ Cardinality(SUBSET L) = 2^m
      /\ IsFiniteSet(SUBSET R) /\ Cardinality(SUBSET R) = 2^n
      /\ IsFiniteSet(SUBSET A) /\ Cardinality(SUBSET A) = 2^(m + n)
  <2> HIDE DEF L, R, A
  <2> QED BY <1>1, <1>2, <1>3, FS_SUBSET
<1>5. f \in Bijection(SUBSET A, (SUBSET L) \X (SUBSET R))
  <2>1. A = L \cup R /\ L \cap R = {}
    OBVIOUS
  <2> HIDE DEF L, R, A
  <2>2. f \in [SUBSET A -> (SUBSET L) \X (SUBSET R)]
    OBVIOUS
  <2>3. ASSUME NEW U \in SUBSET A, NEW V \in SUBSET A, f[U] = f[V] PROVE U = V
    <3>1. U \cap L = V \cap L /\ U \cap R = V \cap R
      BY <2>3
    <3>2. U = (U \cap L) \cup (U \cap R) /\ V = (V \cap L) \cup (V \cap R)
      BY <2>1
    <3> QED BY <3>1, <3>2
  <2>4. ASSUME NEW t \in (SUBSET L) \X (SUBSET R) PROVE \E U \in SUBSET A : f[U] = t
    <3> DEFINE U == t[1] \cup t[2]
    <3>1. U \in SUBSET A /\ U \cap L = t[1] /\ U \cap R = t[2]
      BY <2>1
    <3>2. f[U] = <<t[1], t[2]>>
      BY <3>1
    <3>3. t = <<t[1], t[2]>>
      OBVIOUS
    <3> HIDE DEF U, f
    <3> QED BY <3>1, <3>2, <3>3
  <2> HIDE DEF f
  <2> QED BY <2>2, <2>3, <2>4 DEF Bijection, Injection, Surjection, IsInjective
<1>6. Cardinality((SUBSET L) \X (SUBSET R)) = 2^m * 2^n
  <2> DEFINE P == SUBSET L  Q == SUBSET R
  <2>1. IsFiniteSet(P) /\ Cardinality(P) = 2^m /\ IsFiniteSet(Q) /\ Cardinality(Q) = 2^n
    BY <1>4
  <2> HIDE DEF P, Q
  <2>2. Cardinality(P \X Q) = Cardinality(P) * Cardinality(Q)
    BY <2>1, FS_Product
  <2> QED BY <2>1, <2>2 DEF P, Q
<1>7. Cardinality(SUBSET A) = Cardinality((SUBSET L) \X (SUBSET R))
  <2> HIDE DEF L, R, A, f
  <2> QED BY <1>4, <1>5, FS_Bijection DEF ExistsBijection
<1> QED
  BY <1>4, <1>6, <1>7

-----------------------------------------------------------------------------
(***************************************************************************)
(* Blocks of addresses.                                                    *)
(***************************************************************************)
(* The size of a block is positive, and a shorter prefix has a block that  *)
(* is a multiple of the longer one's.                                      *)
LEMMA BlockSizes ==
    ASSUME NEW m \in 0 .. AddrBits, NEW n \in 0 .. AddrBits, m <= n
    PROVE  /\ BlockSize(n) \in Nat \ {0}
           /\ \E k \in Nat \ {0} : BlockSize(m) = k * BlockSize(n)
<1>1. AddrBits \in Nat
  BY PacketsAssumption
<1>2. AddrBits - n \in Nat /\ n - m \in Nat /\ AddrBits - m = (n - m) + (AddrBits - n)
  BY <1>1
<1>3. 2^(AddrBits - n) \in Nat \ {0} /\ 2^(n - m) \in Nat \ {0}
  BY <1>2, PowNat
<1>4. 2^((n - m) + (AddrBits - n)) = 2^(n - m) * 2^(AddrBits - n)
  BY <1>2, PowSum
<1> QED BY <1>2, <1>3, <1>4 DEF BlockSize

(* Euclidean division, as the block of an address.                         *)
LEMMA Division ==
    ASSUME NEW a \in Nat, NEW b \in Nat \ {0}
    PROVE  /\ a \div b \in Nat
           /\ (a \div b) * b <= a /\ a < (a \div b) * b + b
  OBVIOUS

(* No other block has the address.                                        *)
LEMMA DivisionUnique ==
    ASSUME NEW a \in Nat, NEW b \in Nat \ {0}, NEW q \in Nat,
           q * b <= a, a < q * b + b
    PROVE  a \div b = q
<1>1. /\ a \div b \in Nat
      /\ (a \div b) * b <= a /\ a < (a \div b) * b + b
  BY Division
<1> DEFINE d == a \div b
<1> HIDE DEF d
<1>2. d \in Nat /\ d * b <= a /\ a < d * b + b
  BY <1>1 DEF d
<1>3. ~ (d >= q + 1)
  <2> SUFFICES ASSUME d >= q + 1 PROVE FALSE
    OBVIOUS
  <2>1. d * b >= (q + 1) * b
    BY <1>2
  <2>2. (q + 1) * b = q * b + b
    OBVIOUS
  <2> QED BY <1>2, <2>1, <2>2
<1>4. ~ (q >= d + 1)
  <2> SUFFICES ASSUME q >= d + 1 PROVE FALSE
    OBVIOUS
  <2>1. q * b >= (d + 1) * b
    BY <1>2
  <2>2. (d + 1) * b = d * b + b
    BY <1>2
  <2> QED BY <1>2, <2>1, <2>2
<1>5. d = q
  BY <1>2, <1>3, <1>4
<1> QED BY <1>5 DEF d

(***************************************************************************)
(* A prefix stands for the addresses between its network and its broadcast *)
(* address, all of them real: covers, which Ipv4Net::contains is on        *)
(* addresses, agrees with the bounds that it uses on prefixes.             *)
(***************************************************************************)
LEMMA PrefixBlock ==
    ASSUME NEW net \in Prefix
    PROVE  /\ BlockSize(net.len) \in Nat \ {0}
           /\ net.addr \div BlockSize(net.len) \in Nat
           /\ First(net) = (net.addr \div BlockSize(net.len)) * BlockSize(net.len)
           /\ First(net) \in Addr /\ Last(net) \in Addr
           /\ Last(net) = First(net) + BlockSize(net.len) - 1
           /\ \A a \in Addr : covers(net, a) <=> First(net) <= a /\ a <= Last(net)
<1> DEFINE b == BlockSize(net.len)
           q == net.addr \div b
<1>1. net.addr \in Nat /\ net.addr < 2^AddrBits /\ net.len \in 0 .. AddrBits
  <2>1. 2^AddrBits \in Nat
    BY PacketsAssumption, PowNat
  <2> QED BY <2>1 DEF Prefix, Addr
<1>2. PICK k \in Nat \ {0} : b \in Nat \ {0} /\ BlockSize(0) = k * b
  BY <1>1, PacketsAssumption, BlockSizes
<1>3. BlockSize(0) = 2^AddrBits /\ 2^AddrBits \in Nat
  BY PacketsAssumption, PowNat DEF BlockSize
<1>4. First(net) = q * b
  BY DEF First, trunc, Prefix
<1>5. Last(net) = q * b + b - 1
  BY <1>4 DEF Last
<1> HIDE DEF b
<1>6. q \in Nat /\ q * b <= net.addr /\ net.addr < q * b + b
  BY <1>1, <1>2, Division
<1>7. \A a \in Addr : a \in Nat
  BY DEF Addr
<1>8. \A a \in Addr : covers(net, a) <=> a \div b = q
  BY DEF covers, b
<1> HIDE DEF q
<1>9. q < k
  <2> SUFFICES ASSUME q >= k PROVE FALSE
    BY <1>2, <1>6
  <2>1. q * b >= k * b
    BY <1>2, <1>6
  <2>2. q * b \in Int /\ k * b \in Int
    BY <1>2, <1>6
  <2> QED BY <1>1, <1>2, <1>3, <1>6, <2>1, <2>2
<1>10. q * b + b <= 2^AddrBits
  <2>1. (q + 1) * b <= k * b
    BY <1>2, <1>6, <1>9
  <2>2. (q + 1) * b = q * b + b
    BY <1>2, <1>6
  <2> QED BY <1>2, <1>3, <2>1, <2>2
<1>11. q * b \in Nat
  BY <1>2, <1>6
<1>12. First(net) \in Addr /\ Last(net) \in Addr
  BY <1>2, <1>3, <1>4, <1>5, <1>10, <1>11 DEF Addr
<1>13. ASSUME NEW a \in Addr PROVE covers(net, a) <=> First(net) <= a /\ a <= Last(net)
  <2>1. a \in Nat
    BY <1>7
  <2>2. ASSUME First(net) <= a, a <= Last(net) PROVE a \div b = q
    <3>1. q * b <= a /\ a < q * b + b
      BY <2>1, <2>2, <1>2, <1>4, <1>5, <1>11
    <3> QED BY <3>1, <2>1, <1>2, <1>6, DivisionUnique
  <2>3. ASSUME a \div b = q PROVE First(net) <= a /\ a <= Last(net)
    <3>1. (a \div b) * b <= a /\ a < (a \div b) * b + b
      BY <2>1, <1>2, Division
    <3> QED BY <3>1, <2>1, <2>3, <1>2, <1>4, <1>5, <1>11
  <2> QED BY <2>2, <2>3, <1>8
<1> QED BY <1>2, <1>4, <1>5, <1>6, <1>12, <1>13 DEF b, q

(***************************************************************************)
(* Blocks are aligned, so of two prefixes that share an address the longer *)
(* lies inside the shorter.                                                *)
(***************************************************************************)
LEMMA BlocksNest ==
    ASSUME NEW m \in Prefix, NEW n \in Prefix, m.len <= n.len,
           NEW a \in Addr, covers(m, a), covers(n, a)
    PROVE  NetContains(m, n)
<1> DEFINE B == BlockSize(m.len)  b == BlockSize(n.len)
           Q == m.addr \div B     q == n.addr \div b
<1>1. m.len \in 0 .. AddrBits /\ n.len \in 0 .. AddrBits
  BY DEF Prefix
<1>2. PICK k \in Nat \ {0} : B = k * b
  BY <1>1, BlockSizes
<1>3. /\ Q \in Nat /\ B \in Nat \ {0} /\ First(m) = Q * B /\ Last(m) = Q * B + B - 1
      /\ q \in Nat /\ b \in Nat \ {0} /\ First(n) = q * b /\ Last(n) = q * b + b - 1
  BY PrefixBlock
<1>4. First(m) <= a /\ a <= Last(m) /\ First(n) <= a /\ a <= Last(n)
  BY PrefixBlock
<1>5. a \in Nat
  BY DEF Addr
<1> HIDE DEF B, b, Q, q
<1>6. Q * B = (Q * k) * b /\ Q * B + B = (Q * k + k) * b
  BY <1>2, <1>3
<1> DEFINE u == Q * k  v == Q * k + k
<1>7. u \in Nat /\ v \in Nat
  BY <1>3
<1>8. u * b <= a /\ a < v * b /\ q * b <= a /\ a < q * b + b
  BY <1>3, <1>4, <1>5, <1>6
<1>9. First(m) = u * b /\ Last(m) = v * b - 1
  BY <1>3, <1>6
<1> HIDE DEF u, v
<1>10. u <= q
  <2> SUFFICES ASSUME u >= q + 1 PROVE FALSE
    BY <1>3, <1>7
  <2>1. u * b >= (q + 1) * b
    BY <1>3, <1>7
  <2>2. (q + 1) * b = q * b + b
    BY <1>3
  <2>3. u * b \in Nat /\ q * b \in Nat
    BY <1>3, <1>7
  <2> QED BY <1>3, <1>5, <1>8, <2>1, <2>2, <2>3
<1>11. q + 1 <= v
  <2> SUFFICES ASSUME q >= v PROVE FALSE
    BY <1>3, <1>7
  <2>1. q * b >= v * b
    BY <1>3, <1>7
  <2>2. v * b \in Nat /\ q * b \in Nat
    BY <1>3, <1>7
  <2> QED BY <1>5, <1>8, <2>1, <2>2
<1>12. u * b <= q * b /\ (q + 1) * b <= v * b
  BY <1>3, <1>7, <1>10, <1>11
<1>13. (q + 1) * b = q * b + b /\ q * b \in Nat /\ u * b \in Nat /\ v * b \in Nat
  BY <1>3, <1>7
<1> QED BY <1>3, <1>9, <1>12, <1>13 DEF NetContains

(* Two prefixes of which neither contains the other share no address: what *)
(* find_available_subnet tests is enough.                                  *)
LEMMA ApartIsDisjoint ==
    ASSUME NEW m \in Prefix, NEW n \in Prefix,
           ~ NetContains(m, n), ~ NetContains(n, m)
    PROVE  Addresses(m) \cap Addresses(n) = {}
<1> SUFFICES ASSUME NEW a \in Addr, covers(m, a), covers(n, a) PROVE FALSE
  BY DEF Addresses
<1>1. m.len <= n.len \/ n.len <= m.len
  BY DEF Prefix
<1> QED BY <1>1, BlocksNest

(* One that lies inside another has no address outside it.                 *)
LEMMA InsideIsSubset ==
    ASSUME NEW m \in Prefix, NEW n \in Prefix, NetContains(m, n)
    PROVE  Addresses(n) \subseteq Addresses(m)
<1> SUFFICES ASSUME NEW a \in Addr, covers(n, a) PROVE covers(m, a)
  BY DEF Addresses
<1>1. First(n) <= a /\ a <= Last(n) /\ (covers(m, a) <=> First(m) <= a /\ a <= Last(m))
  BY PrefixBlock
<1>2. {First(m), Last(m), First(n), Last(n), a} \subseteq Int
  BY PrefixBlock DEF Addr
<1> QED BY <1>1, <1>2 DEF NetContains

-----------------------------------------------------------------------------
(***************************************************************************)
(* The search and the addresses of a subnet.                               *)
(***************************************************************************)
(* Ipv4Net::trunc clears the host bits and changes nothing else.           *)
LEMMA TruncBlock ==
    ASSUME NEW net \in Prefix
    PROVE  /\ trunc(net) \in Prefix /\ trunc(net).len = net.len
           /\ First(trunc(net)) = First(net) /\ Last(trunc(net)) = Last(net)
<1> DEFINE b == BlockSize(net.len)
           q == net.addr \div b
<1>1. b \in Nat \ {0} /\ q \in Nat /\ First(net) = q * b /\ First(net) \in Addr
  BY PrefixBlock
<1>2. trunc(net) = [addr |-> First(net), len |-> net.len]
  BY DEF First, trunc, Prefix
<1>3. trunc(net) \in Prefix /\ trunc(net).len = net.len
  BY <1>1, <1>2 DEF Prefix
<1>4. First(trunc(net)) = (First(net) \div b) * b
  BY <1>2, <1>3, PrefixBlock
<1> HIDE DEF b, q
<1>5. q * b \in Nat /\ (q * b) \div b = q
  <2>1. q * b \in Nat /\ q * b <= q * b /\ q * b < q * b + b
    BY <1>1
  <2> QED BY <2>1, <1>1, DivisionUnique
<1> QED BY <1>1, <1>3, <1>4, <1>5 DEF Last

(***************************************************************************)
(* What find_available_subnet returns lies in a private range, has the     *)
(* length asked for, and overlaps nothing that it saw.                     *)
(***************************************************************************)
LEMMA SearchResult ==
    ASSUME NEW used, NEW subnet \in find_available_subnet(used), subnet # None
    PROVE  /\ subnet \in Prefix /\ subnet.len = SUBNET_PREFIX_LEN
           /\ \E range \in private_subnets : NetContains(range, subnet)
           /\ ~ overlaps(subnet, used)
<1>1. PICK range \in private_subnets :
        \E x \in First(range) .. Last(range) : subnet = Draw(range, x, used)
  BY DEF find_available_subnet
<1>a. PICK a \in First(range) .. Last(range) : subnet = Draw(range, a, used)
  BY <1>1
<1> DEFINE net == [addr |-> a, len |-> SUBNET_PREFIX_LEN]
<1>2. range \in Prefix
  BY BatchAssumption
<1>3. /\ subnet = trunc(net) /\ ~ overlaps(subnet, used)
      /\ ~ (SUBNET_PREFIX_LEN < range.len)
  BY <1>a DEF Draw
<1>4. a \in Addr /\ covers(range, a)
  <2>1. First(range) \in Addr /\ Last(range) \in Addr
    BY <1>2, PrefixBlock
  <2>2. a \in Addr
    <3>1. 2^AddrBits \in Nat
      BY PacketsAssumption, PowNat
    <3> QED BY <2>1, <3>1 DEF Addr
  <2>3. First(range) <= a /\ a <= Last(range)
    BY <2>1 DEF Addr
  <2> QED BY <1>2, <2>2, <2>3, PrefixBlock
<1>5. net \in Prefix /\ range.len \in 0 .. AddrBits /\ net.len \in 0 .. AddrBits
  BY <1>2, <1>4, BatchAssumption, PacketsAssumption DEF Prefix
<1>6. covers(net, a)
  BY DEF covers
<1>7. range.len <= net.len
  BY <1>3, <1>5
<1>8. NetContains(range, net)
  BY <1>2, <1>4, <1>5, <1>6, <1>7, BlocksNest
<1>9. /\ subnet \in Prefix /\ subnet.len = SUBNET_PREFIX_LEN
      /\ First(subnet) = First(net) /\ Last(subnet) = Last(net)
  BY <1>3, <1>5, TruncBlock
<1>10. NetContains(range, subnet)
  BY <1>8, <1>9 DEF NetContains
<1> QED BY <1>3, <1>9, <1>10

(***************************************************************************)
(* The usable addresses of a subnet: the first is the gateway's, and the   *)
(* VMs of a batch get the following ones, of which there are enough.       *)
(***************************************************************************)
LEMMA SubnetHosts ==
    ASSUME NEW subnet \in Prefix, subnet.len = SUBNET_PREFIX_LEN
    PROVE  /\ hosts(subnet)[1] = First(subnet) + 1
           /\ First(subnet) \in Nat
           /\ First(subnet) + MAX_VMS + 1 < Last(subnet)
           /\ \A i \in 1 .. MAX_VMS : /\ i <= Len(vm_hosts(subnet))
                                      /\ vm_hosts(subnet)[i] = First(subnet) + 1 + i
<1> DEFINE b == BlockSize(subnet.len)
           n == b - 2
           h == hosts(subnet)
<1>1. /\ b \in Nat \ {0} /\ MAX_VMS \in Nat /\ MAX_VMS + 1 <= n
      /\ First(subnet) \in Nat /\ Last(subnet) = First(subnet) + b - 1
  BY PrefixBlock, BatchAssumption DEF Addr
<1>2. subnet.len <= AddrBits - 2
  BY BatchAssumption, PacketsAssumption
<1>3. h = [i \in 1 .. n |-> First(subnet) + i]
  BY <1>1, <1>2 DEF hosts
<1> HIDE DEF b, h
<1>4. h \in Seq(Nat) /\ Len(h) = n /\ \A i \in 1 .. n : h[i] = First(subnet) + i
  BY <1>1, <1>3
<1>5. vm_hosts(subnet) = SubSeq(h, 2, n)
  BY <1>4 DEF vm_hosts, h
<1>6. /\ Len(SubSeq(h, 2, n)) = (IF 2 <= n THEN n - 1 ELSE 0)
      /\ \A i \in 1 .. n - 1 : SubSeq(h, 2, n)[i] = h[i + 1]
  <2>1. \A i \in 2 .. n : h[i] \in Nat
    BY <1>1, <1>4
  <2>2. n \in Int /\ n - 2 + 1 = n - 1 /\ \A i \in 1 .. n - 1 : 2 + i - 1 = i + 1
    BY <1>1
  <2> HIDE DEF n
  <2> QED BY <2>1, <2>2
<1>7. \A i \in 1 .. n - 1 : h[i + 1] = First(subnet) + 1 + i
  BY <1>1, <1>4
<1>8. h[1] = First(subnet) + 1
  BY <1>1, <1>4
<1> QED BY <1>1, <1>5, <1>6, <1>7, <1>8 DEF h

-----------------------------------------------------------------------------
(***************************************************************************)
(* The inductive invariant.  A batch that the worker has is one that       *)
(* initialize checked: its subnet overlaps none of the interfaces that     *)
(* were up all the time since, its addresses are the ones after the        *)
(* gateway's in the order of the batch, no two of its VMs share a MAC or a *)
(* name.  The network and the proxies are what is derived from it.         *)
(***************************************************************************)
Checked(batch, seen) ==
    /\ batch.subnet \in Prefix /\ batch.subnet.len = SUBNET_PREFIX_LEN
    /\ \E range \in private_subnets : NetContains(range, batch.subnet)
    /\ ~ overlaps(batch.subnet, seen)
    /\ \E n \in 1 .. MAX_VMS : DOMAIN batch.vms = 1 .. n
    /\ \A i \in DOMAIN batch.vms : batch.vms[i].ip = First(batch.subnet) + 1 + i
    /\ \A i, j \in DOMAIN batch.vms : batch.vms[i].mac = batch.vms[j].mac => i = j
    /\ \A i, j \in DOMAIN batch.vms :
          /\ batch.vms[i].name # NoName /\ batch.vms[j].name # NoName
          /\ batch.vms[i].name.label = batch.vms[j].name.label
          => i = j
    /\ batch.zone = Zone(batch.vms)

BatchInv ==
    /\ pc \in [Process -> {"Idle", "Worker", "Proxies", "Live", "Failed"}]
    /\ known \in [Process -> SUBSET Prefix]
    /\ DOMAIN answer = Process /\ DOMAIN configured = Process
    /\ DOMAIN network = Process /\ DOMAIN proxies = Process
    /\ foreign \subseteq Prefix
    /\ \A p \in Process :
          /\ answer[p] # "NoAddresses"
          /\ pc[p] \in {"Worker", "Proxies", "Live"} => Checked(configured[p], known[p])
          /\ pc[p] \in {"Proxies", "Live"} => network[p] = NetworkNew(configured[p])
          /\ pc[p] = "Live" => proxies[p] = ProxiesNew(configured[p], network[p])

(* The fields of what Network::new and Proxy::new derive from a batch.     *)
LEMMA NetworkFields ==
    ASSUME NEW batch
    PROVE  LET net == NetworkNew(batch)
               vms == batch.vms
           IN  /\ net.subnet = batch.subnet
               /\ net.gateway_ip = hosts(batch.subnet)[1]
               /\ net.reservations = {<<vms[i].mac, vms[i].ip>> : i \in DOMAIN vms}
               /\ net.port_forwardings =
                     UNION {{<<vms[i].ip, port>> : port \in vms[i].exposed_ports} : i \in DOMAIN vms}
               /\ net.vm_ips = {vms[i].ip : i \in DOMAIN vms}
  BY Zenon DEF NetworkNew

\* What a proxy of the batch knows of its own VM and of the others
ViewsOf(views, batch, net) ==
    /\ DOMAIN views = DOMAIN batch.vms
    /\ \A i \in DOMAIN batch.vms :
          /\ views[i].mac = batch.vms[i].mac /\ views[i].vm_ip = batch.vms[i].ip
          /\ views[i].peer_ips = net.vm_ips \ {batch.vms[i].ip}
          /\ views[i].zone = batch.zone

(* Proxy::new takes each of these from the batch and its network.          *)
LEMMA ProxyFields ==
    ASSUME NEW batch, NEW net
    PROVE  ViewsOf(ProxiesNew(batch, net), batch, net)
<1>1. DOMAIN ProxiesNew(batch, net) = DOMAIN batch.vms
  BY DEF ProxiesNew
<1>2. ASSUME NEW i \in DOMAIN batch.vms
      PROVE  ProxiesNew(batch, net)[i] = NewProxy(batch.vms[i], net, batch.zone)
  BY DEF ProxiesNew
<1>3. ASSUME NEW vm, NEW zone
      PROVE  LET view == NewProxy(vm, net, zone)
             IN  /\ view.mac = vm.mac /\ view.vm_ip = vm.ip
                 /\ view.peer_ips = net.vm_ips \ {vm.ip} /\ view.zone = zone
  BY Zenon DEF NewProxy, peer_ips
<1> QED BY <1>1, <1>2, <1>3 DEF ViewsOf

(* A network's own interface is a prefix that the next search can see.     *)
LEMMA InterfacesArePrefixes ==
    ASSUME BatchInv
    PROVE  Up \subseteq Prefix
<1> SUFFICES ASSUME NEW p \in Process, pc[p] = "Live"
             PROVE  [addr |-> network[p].gateway_ip, len |-> network[p].subnet.len] \in Prefix
  BY DEF Up, Interfaces, BatchInv
<1> DEFINE net == configured[p].subnet
<1>1. net \in Prefix /\ net.len = SUBNET_PREFIX_LEN
  BY DEF BatchInv, Checked
<1>2. network[p].gateway_ip = hosts(net)[1] /\ network[p].subnet = net
  <2>1. network[p] = NetworkNew(configured[p])
    BY DEF BatchInv
  <2> QED BY <2>1, NetworkFields
<1>3. hosts(net)[1] \in Addr
  <2>1. First(net) \in Nat /\ First(net) + MAX_VMS + 1 < Last(net) /\ hosts(net)[1] = First(net) + 1
    BY <1>1, SubnetHosts
  <2>2. Last(net) \in Addr
    BY <1>1, PrefixBlock
  <2>3. 2^AddrBits \in Nat /\ MAX_VMS \in Nat
    BY PacketsAssumption, BatchAssumption, PowNat
  <2> QED BY <2>1, <2>2, <2>3 DEF Addr
<1> QED BY <1>1, <1>2, <1>3 DEF Prefix

(* Seeing less is no contradiction to having overlapped nothing.           *)
LEMMA CheckedShrinks ==
    ASSUME NEW batch, NEW seen, NEW less \in SUBSET seen, Checked(batch, seen)
    PROVE  Checked(batch, less)
<1>1. ~ overlaps(batch.subnet, less)
  BY DEF Checked, overlaps
<1> HIDE DEF overlaps, NetContains
<1> QED BY <1>1 DEF Checked

(***************************************************************************)
(* initialize's zip of VMs and addresses never runs out of addresses for a *)
(* request that has passed the test against MAX_VMS.                       *)
(***************************************************************************)
LEMMA EnoughAddresses ==
    ASSUME NEW vms \in Requests, NEW used, NEW subnet \in find_available_subnet(used)
    PROVE  Verdict(vms, subnet) # "NoAddresses"
<1> SUFFICES ASSUME ValidBatch(vms), subnet # None PROVE Prepared(vms, subnet) # "NoAddresses"
  BY DEF Verdict
<1>1. subnet \in Prefix /\ subnet.len = SUBNET_PREFIX_LEN
  BY SearchResult
<1>2. \A i \in 1 .. MAX_VMS : i <= Len(vm_hosts(subnet))
  BY <1>1, SubnetHosts
<1>3. \A i \in DOMAIN vms : i \in 1 .. MAX_VMS
  BY BatchAssumption DEF ValidBatch
<1>4. \A i \in DOMAIN vms : i <= Len(vm_hosts(subnet))
  BY <1>2, <1>3
<1> HIDE DEF vm_hosts
<1> QED BY <1>4 DEF Prepared

(* What initialize accepts is as Checked says: few enough VMs, distinct    *)
(* names and MACs, consecutive addresses of a subnet that the search gave. *)
LEMMA AcceptedIsChecked ==
    ASSUME NEW vms \in Requests, NEW used, NEW subnet \in find_available_subnet(used),
           Verdict(vms, subnet) = "Accepted"
    PROVE  LET with == WithAddresses(vms, subnet)
           IN  Checked([subnet |-> subnet, vms |-> with, zone |-> Zone(with)], used)
<1> DEFINE with == WithAddresses(vms, subnet)
           batch == [subnet |-> subnet, vms |-> with, zone |-> Zone(with)]
<1>1. ValidBatch(vms) /\ subnet # None /\ Prepared(vms, subnet) = "Yes" /\ ValidNames(vms)
  <2>1. Prepared(vms, subnet) # "Accepted"
    BY DEF Prepared
  <2> QED BY <2>1 DEF Verdict
<1>2. /\ subnet \in Prefix /\ subnet.len = SUBNET_PREFIX_LEN
      /\ \E range \in private_subnets : NetContains(range, subnet)
      /\ ~ overlaps(subnet, used)
  BY <1>1, SearchResult
<1>3. Len(vms) \in 1 .. MAX_VMS /\ DOMAIN vms = 1 .. Len(vms) /\ MAX_VMS \in Nat
  BY <1>1, BatchAssumption DEF ValidBatch
<1>4. /\ DOMAIN with = DOMAIN vms
      /\ \A i \in DOMAIN with : /\ with[i].mac = vms[i].mac /\ with[i].name = vms[i].name
                                /\ with[i].ip = vm_hosts(subnet)[i]
  BY DEF WithAddresses
<1> HIDE DEF with
<1>5. \A i \in DOMAIN with : with[i].ip = First(subnet) + 1 + i
  <2>1. \A i \in 1 .. MAX_VMS : vm_hosts(subnet)[i] = First(subnet) + 1 + i
    BY <1>2, SubnetHosts
  <2>2. \A i \in DOMAIN with : i \in 1 .. MAX_VMS
    BY <1>3, <1>4
  <2> QED BY <1>4, <2>1, <2>2
<1>6. \A i, j \in DOMAIN with : with[i].mac = with[j].mac => i = j
  BY <1>1, <1>4 DEF ValidBatch
<1>7. ASSUME NEW i \in DOMAIN with, NEW j \in DOMAIN with,
             with[i].name # NoName, with[j].name # NoName,
             with[i].name.label = with[j].name.label
      PROVE  i = j
  <2>1. vms[i].name # NoName /\ vms[j].name # NoName /\ vms[i].name.label = vms[j].name.label
    BY <1>4, <1>7
  <2>2. ~ (i < j) /\ ~ (j < i)
    BY <1>1, <1>4, <2>1 DEF ValidNames, SameName
  <2> QED BY <1>3, <1>4, <2>2
<1>8. \E n \in 1 .. MAX_VMS : DOMAIN with = 1 .. n
  BY <1>3, <1>4, Zenon
<1>9. batch.subnet = subnet /\ batch.vms = with /\ batch.zone = Zone(with)
  OBVIOUS
<1> HIDE DEF batch
<1>10. Checked(batch, used)
  BY <1>2, <1>5, <1>6, <1>7, <1>8, <1>9 DEF Checked
<1> QED BY <1>10 DEF batch, with

-----------------------------------------------------------------------------
(* Nothing is configured before the first initialize.                      *)
LEMMA BatchInvInit == Init => BatchInv
  BY BatchAssumption DEF Init, BatchInv

(* initialize preserves the invariant, whether it refuses or accepts.      *)
LEMMA InitializePreserves ==
    ASSUME BatchInv, NEW p \in Process, NEW vms \in Requests, initialize(p, vms)
    PROVE  BatchInv'
<1>1. PICK subnet \in find_available_subnet(Up) :
        Refuse(p, Verdict(vms, subnet)) \/ Accept(p, vms, subnet)
  BY DEF initialize
<1> DEFINE with == WithAddresses(vms, subnet)
           batch == [subnet |-> subnet, vms |-> with, zone |-> Zone(with)]
<1>2. CASE Refuse(p, Verdict(vms, subnet))
  <2>1. Verdict(vms, subnet) # "NoAddresses"
    BY EnoughAddresses
  <2> HIDE DEF find_available_subnet, Verdict
  <2> QED BY <1>2, <2>1 DEF Refuse, BatchInv
<1>3. CASE Accept(p, vms, subnet)
  <2>1. Checked(batch, Up)
    BY <1>3, AcceptedIsChecked DEF Accept
  <2>2. Up \subseteq Prefix
    BY InterfacesArePrefixes
  <2>3. /\ pc[p] = "Idle"
        /\ configured' = [configured EXCEPT ![p] = batch]
        /\ answer' = [answer EXCEPT ![p] = "None"]
        /\ known' = [known EXCEPT ![p] = Up]
        /\ pc' = [pc EXCEPT ![p] = "Worker"]
        /\ UNCHANGED <<foreign, network, proxies>>
    BY <1>3 DEF Accept, initialize
  <2> HIDE DEF batch, Up, Checked, NetworkNew, ProxiesNew
  <2> QED BY <2>1, <2>2, <2>3 DEF BatchInv
<1> QED BY <1>1, <1>2, <1>3

(* So does every step of a process, of another program or of an interface. *)
LEMMA StepPreserves == BatchInv /\ [Next]_vars => BatchInv'
<1> SUFFICES ASSUME BatchInv, [Next]_vars PROVE BatchInv'
  OBVIOUS
<1> USE DEF BatchInv
<1>1. ASSUME NEW p \in Process, NEW vms \in Requests, initialize(p, vms) PROVE BatchInv'
  BY <1>1, InitializePreserves
<1>2. ASSUME NEW p \in Process, CreateNetwork(p) PROVE BatchInv'
  BY <1>2 DEF CreateNetwork
<1>3. ASSUME NEW p \in Process, CreateProxies(p) PROVE BatchInv'
  BY <1>3 DEF CreateProxies
<1>4. ASSUME NEW p \in Process, WorkerFails(p) PROVE BatchInv'
  BY <1>4 DEF WorkerFails
<1>5. ASSUME NEW p \in Process, Restart(p) PROVE BatchInv'
  <2>1. /\ pc' = [pc EXCEPT ![p] = "Idle"]
        /\ answer' = [answer EXCEPT ![p] = "None"]
        /\ configured' = [configured EXCEPT ![p] = NoBatch]
        /\ network' = [network EXCEPT ![p] = NoNetwork]
        /\ proxies' = [proxies EXCEPT ![p] = <<>>]
        /\ foreign' = foreign
        /\ known' \in [Process -> SUBSET Prefix]
        /\ \A q \in Process \ {p} : known'[q] \subseteq known[q]
    BY <1>5 DEF Restart
  <2>2. \A q \in Process \ {p} :
           pc[q] \in {"Worker", "Proxies", "Live"} => Checked(configured[q], known'[q])
    BY <2>1, CheckedShrinks
  <2> HIDE DEF NoBatch, NoNetwork
  <2> QED BY <2>1, <2>2
<1>6. ASSUME NEW i \in Foreign, InterfaceAppears(i) PROVE BatchInv'
  BY <1>6, BatchAssumption DEF InterfaceAppears
<1>7. ASSUME NEW i \in Foreign, InterfaceGoes(i) PROVE BatchInv'
  <2>1. /\ foreign' \subseteq foreign
        /\ known' \in [Process -> SUBSET Prefix]
        /\ \A q \in Process : known'[q] \subseteq known[q]
        /\ UNCHANGED <<pc, answer, configured, network, proxies>>
    BY <1>7 DEF InterfaceGoes
  <2>2. \A q \in Process :
           pc[q] \in {"Worker", "Proxies", "Live"} => Checked(configured[q], known'[q])
    BY <2>1, CheckedShrinks
  <2> QED BY <2>1, <2>2
<1>8. CASE UNCHANGED vars
  BY <1>8 DEF vars
<1> QED
  BY <1>1, <1>2, <1>3, <1>4, <1>5, <1>6, <1>7, <1>8, Zenon DEF Next

(***************************************************************************)
(* Everything the worker has passed the checks of initialize, however      *)
(* processes and other programs interleave.                                *)
(***************************************************************************)
THEOREM BatchInvariant == Spec => []BatchInv
  BY BatchInvInit, StepPreserves, PTL DEF Spec

(***************************************************************************)
(* A network lies in a private range and shares no address with any        *)
(* interface that find_available_subnet saw: if two overlap, the other one *)
(* came up between the search and the creation of the network.             *)
(***************************************************************************)
THEOREM OverlapsAreRaces == Spec => []OverlapIsRace
<1>1. BatchInv => OverlapIsRace
  <2> SUFFICES ASSUME BatchInv, NEW p \in Process, pc[p] = "Live"
               PROVE  /\ \E range \in private_subnets :
                            Addresses(network[p].subnet) \subseteq Addresses(range)
                      /\ \A i \in known[p] : Addresses(i) \cap Addresses(network[p].subnet) = {}
    BY DEF OverlapIsRace
  <2> DEFINE net == network[p].subnet
  <2>1. net = configured[p].subnet /\ Checked(configured[p], known[p])
    <3>1. network[p] = NetworkNew(configured[p]) /\ Checked(configured[p], known[p])
      BY DEF BatchInv
    <3> QED BY <3>1, NetworkFields
  <2>2. PICK range \in private_subnets : NetContains(range, net)
    BY <2>1 DEF Checked
  <2>3. net \in Prefix /\ range \in Prefix /\ known[p] \subseteq Prefix
    BY <2>1, BatchAssumption, Zenon DEF Checked, BatchInv
  <2>4. Addresses(net) \subseteq Addresses(range)
    BY <2>2, <2>3, InsideIsSubset
  <2>5. ASSUME NEW i \in known[p] PROVE Addresses(i) \cap Addresses(net) = {}
    <3>1. ~ NetContains(net, i) /\ ~ NetContains(i, net)
      BY <2>1 DEF Checked, overlaps
    <3> QED BY <2>3, <3>1, ApartIsDisjoint
  <2> QED BY <2>4, <2>5
<1> QED BY <1>1, BatchInvariant, PTL

(***************************************************************************)
(* The gateway and the VMs of a network have distinct usable addresses,    *)
(* and initialize never runs out of them.                                  *)
(***************************************************************************)
THEOREM AddressesAreSeparate == Spec => []AddressesSeparate
<1>1. BatchInv => AddressesSeparate
  <2> SUFFICES ASSUME BatchInv, NEW p \in Process, pc[p] = "Live"
               PROVE  LET ips == [i \in DOMAIN proxies[p] |-> proxies[p][i].vm_ip]
                          used == {network[p].gateway_ip} \cup {ips[i] : i \in DOMAIN ips}
                      IN  /\ Cardinality(used) = Len(proxies[p]) + 1
                          /\ used \subseteq Addresses(network[p].subnet)
                                     \ {First(network[p].subnet), Last(network[p].subnet)}
    BY Zenon DEF AddressesSeparate, BatchInv
  <2> DEFINE ips == [i \in DOMAIN proxies[p] |-> proxies[p][i].vm_ip]
             used == {network[p].gateway_ip} \cup {ips[i] : i \in DOMAIN ips}
             batch == configured[p]
             net == batch.subnet
             f == First(net)
  <2>1. /\ Checked(batch, known[p]) /\ network[p] = NetworkNew(batch)
        /\ proxies[p] = ProxiesNew(batch, network[p])
    BY DEF BatchInv
  <2>2. PICK n \in 1 .. MAX_VMS : DOMAIN batch.vms = 1 .. n
    BY <2>1 DEF Checked
  <2>3. n \in Nat /\ MAX_VMS \in Nat /\ n <= MAX_VMS
    BY BatchAssumption
  <2>4. net \in Prefix /\ net.len = SUBNET_PREFIX_LEN
        /\ \A i \in 1 .. n : batch.vms[i].ip = f + 1 + i
    BY <2>1, <2>2 DEF Checked
  <2>5. network[p].gateway_ip = hosts(net)[1] /\ network[p].subnet = net
    BY <2>1, NetworkFields
  <2>6. DOMAIN proxies[p] = 1 .. n /\ \A i \in 1 .. n : proxies[p][i].vm_ip = f + 1 + i
    <3>1. /\ DOMAIN proxies[p] = DOMAIN batch.vms
          /\ \A i \in DOMAIN batch.vms : proxies[p][i].vm_ip = batch.vms[i].ip
      <4>1. ViewsOf(proxies[p], batch, network[p])
        BY <2>1, ProxyFields
      <4> QED BY <4>1 DEF ViewsOf
    <3> QED BY <2>2, <2>4, <3>1
  <2>7. Len(proxies[p]) = n
    BY <2>1, <2>2, <2>3 DEF ProxiesNew
  <2>8. f \in Nat /\ f + MAX_VMS + 1 < Last(net) /\ hosts(net)[1] = f + 1
    BY <2>4, SubnetHosts
  <2> HIDE DEF f, net, batch
  <2>9. used = f + 1 .. f + 1 + n
    <3>1. \A i \in 1 .. n : ips[i] = f + 1 + i
      BY <2>6
    <3>2. DOMAIN ips = 1 .. n
      BY <2>6
    <3>3. \A a \in f + 2 .. f + 1 + n : a - f - 1 \in 1 .. n /\ f + 1 + (a - f - 1) = a
      BY <2>3, <2>8
    <3> HIDE DEF ips
    <3>4. {ips[i] : i \in DOMAIN ips} = f + 2 .. f + 1 + n
      <4>1. ASSUME NEW a \in {ips[i] : i \in DOMAIN ips} PROVE a \in f + 2 .. f + 1 + n
        BY <3>1, <3>2, <2>3, <2>8
      <4>2. ASSUME NEW a \in f + 2 .. f + 1 + n PROVE a \in {ips[i] : i \in DOMAIN ips}
        <5>1. ips[a - f - 1] = a /\ a - f - 1 \in DOMAIN ips
          BY <3>1, <3>2, <3>3
        <5> QED BY <5>1
      <4> QED BY <4>1, <4>2
    <3> QED BY <3>4, <2>3, <2>5, <2>8
  <2> HIDE DEF used
  <2>10. Cardinality(used) = n + 1
    <3>1. f + 1 \in Int /\ f + 1 + n \in Int /\ f + 1 <= f + 1 + n
          /\ (f + 1 + n) - (f + 1) + 1 = n + 1
      BY <2>3, <2>8
    <3> QED BY <2>9, <3>1, FS_Interval
  <2>11. used \subseteq Addresses(net) \ {First(net), Last(net)}
    <3>1. First(net) \in Addr /\ Last(net) \in Addr /\
          \A a \in Addr : covers(net, a) <=> First(net) <= a /\ a <= Last(net)
      BY <2>4, PrefixBlock
    <3>2. 2^AddrBits \in Nat
      BY PacketsAssumption, PowNat
    <3>3. ASSUME NEW a \in used PROVE a \in Addr /\ f < a /\ a < Last(net)
      <4>1. Last(net) \in 0 .. 2^AddrBits - 1
        BY <3>1 DEF Addr
      <4>2. Last(net) \in Nat /\ Last(net) <= 2^AddrBits - 1
        BY <4>1, <3>2
      <4>3. a \in Nat /\ f < a /\ a <= f + 1 + n
        BY <2>3, <2>8, <2>9
      <4>4. a < Last(net)
        BY <4>2, <4>3, <2>3, <2>8
      <4> QED BY <4>2, <4>3, <4>4, <3>2 DEF Addr
    <3>4. First(net) = f
      BY DEF f
    <3>5. ASSUME NEW a \in used PROVE a \in Addresses(net) /\ a # First(net) /\ a # Last(net)
      <4>1. a \in Addr /\ f < a /\ a < Last(net)
        BY <3>3
      <4>2. a \in Nat /\ Last(net) \in Nat
        BY <4>1, <3>1, <3>2 DEF Addr
      <4>3. f <= a /\ a <= Last(net) /\ a # f /\ a # Last(net)
        BY <4>1, <4>2, <2>8
      <4> QED BY <3>1, <3>4, <4>1, <4>3 DEF Addresses
    <3> QED BY <3>5
  <2> QED BY <2>5, <2>7, <2>10, <2>11 DEF used
<1> QED BY <1>1, BatchInvariant, PTL

(***************************************************************************)
(* A name resolves to the one address that vmnet reserves for the VM with  *)
(* that name, whatever the spelling and whichever VM asks.                 *)
(***************************************************************************)
THEOREM NamesAreResolved == Spec => []NamesResolve
<1>1. BatchInv => NamesResolve
  <2> SUFFICES ASSUME BatchInv, NEW p \in Process, pc[p] = "Live",
                      NEW i \in DOMAIN configured[p].vms, configured[p].vms[i].name # NoName,
                      NEW j \in DOMAIN proxies[p], NEW a \in Addr
               PROVE  a \in Lookup(proxies[p][j].zone, configured[p].vms[i].name)
                         <=> <<configured[p].vms[i].mac, a>> \in network[p].reservations
    BY DEF NamesResolve
  <2> DEFINE vms == configured[p].vms
  <2>1. /\ Checked(configured[p], known[p]) /\ network[p] = NetworkNew(configured[p])
        /\ proxies[p] = ProxiesNew(configured[p], network[p])
    BY DEF BatchInv
  <2>2. proxies[p][j].zone = Zone(vms)
    <3>1. ViewsOf(proxies[p], configured[p], network[p])
      BY <2>1, ProxyFields
    <3>2. proxies[p][j].zone = configured[p].zone
      BY <3>1 DEF ViewsOf
    <3> QED BY <2>1, <3>2, Zenon DEF Checked
  <2>3. network[p].reservations = {<<vms[k].mac, vms[k].ip>> : k \in DOMAIN vms}
    BY <2>1, NetworkFields
  <2>4. /\ \A k \in DOMAIN vms : vms[k].mac = vms[i].mac => k = i
        /\ \A k \in DOMAIN vms :
              vms[k].name # NoName /\ vms[k].name.label = vms[i].name.label => k = i
    BY <2>1, Zenon DEF Checked
  <2> HIDE DEF vms
  <2>5. i \in DOMAIN vms /\ vms[i].name # NoName
    BY DEF vms
  <2>6. Lookup(Zone(vms), vms[i].name) = {vms[i].ip}
    <3>1. ASSUME NEW x \in Lookup(Zone(vms), vms[i].name) PROVE x = vms[i].ip
      <4>1. PICK k \in DOMAIN vms : /\ vms[k].name # NoName /\ x = vms[k].ip
                                    /\ vms[k].name.label = vms[i].name.label
        BY DEF Lookup, Zone
      <4> QED BY <2>4, <4>1
    <3>2. PICK r \in Zone(vms) : r.name = vms[i].name /\ r.address = vms[i].ip
      <4>1. [name |-> vms[i].name, address |-> vms[i].ip] \in Zone(vms)
        BY <2>5 DEF Zone
      <4> QED BY <4>1
    <3>3. vms[i].ip \in Lookup(Zone(vms), vms[i].name)
      BY <3>2, Zenon DEF Lookup
    <3> QED BY <3>1, <3>3
  <2>7. <<vms[i].mac, a>> \in network[p].reservations <=> a = vms[i].ip
    BY <2>3, <2>4, <2>5
  <2> QED BY <2>2, <2>6, <2>7 DEF vms
<1> QED BY <1>1, BatchInvariant, PTL

(***************************************************************************)
(* The filter's view of a VM is vmnet's: reservations, peers and forwarded *)
(* ports speak of the same machine by the same address.                    *)
(***************************************************************************)
THEOREM ViewsAlwaysAgree == Spec => []ViewsAgree
<1>1. BatchInv => ViewsAgree
  <2> SUFFICES ASSUME BatchInv, NEW p \in Process, pc[p] = "Live", NEW i \in DOMAIN proxies[p]
               PROVE  /\ \A r \in network[p].reservations :
                            r[1] = proxies[p][i].mac <=> r[2] = proxies[p][i].vm_ip
                      /\ \A j \in DOMAIN proxies[p] :
                            proxies[p][j].vm_ip \in proxies[p][i].peer_ips <=> i # j
                      /\ \A f \in network[p].port_forwardings : f[1] = proxies[p][i].vm_ip =>
                            f[2] \in configured[p].vms[i].exposed_ports
    BY DEF ViewsAgree
  <2> DEFINE vms == configured[p].vms
  <2>1. /\ Checked(configured[p], known[p]) /\ network[p] = NetworkNew(configured[p])
        /\ proxies[p] = ProxiesNew(configured[p], network[p])
    BY DEF BatchInv
  <2>2. /\ network[p].reservations = {<<vms[k].mac, vms[k].ip>> : k \in DOMAIN vms}
        /\ network[p].vm_ips = {vms[k].ip : k \in DOMAIN vms}
        /\ network[p].port_forwardings =
              UNION {{<<vms[k].ip, port>> : port \in vms[k].exposed_ports} : k \in DOMAIN vms}
    BY <2>1, NetworkFields
  <2>3. /\ DOMAIN proxies[p] = DOMAIN vms
        /\ \A k \in DOMAIN vms :
              /\ proxies[p][k].mac = vms[k].mac /\ proxies[p][k].vm_ip = vms[k].ip
              /\ proxies[p][k].peer_ips = network[p].vm_ips \ {vms[k].ip}
    <3>1. ViewsOf(proxies[p], configured[p], network[p])
      BY <2>1, ProxyFields
    <3> QED BY <3>1 DEF ViewsOf
  <2>4. \A k, l \in DOMAIN vms : vms[k].mac = vms[l].mac => k = l
    BY <2>1, Zenon DEF Checked
  <2>5. \A k, l \in DOMAIN vms : vms[k].ip = vms[l].ip => k = l
    <3>1. PICK n \in 1 .. MAX_VMS : DOMAIN vms = 1 .. n
      BY <2>1, Zenon DEF Checked
    <3>2. \A k \in 1 .. n : vms[k].ip = First(configured[p].subnet) + 1 + k
      BY <2>1, <3>1, Zenon DEF Checked
    <3>3. First(configured[p].subnet) \in Nat
      <4>1. configured[p].subnet \in Prefix /\ configured[p].subnet.len = SUBNET_PREFIX_LEN
        BY <2>1, Zenon DEF Checked
      <4> QED BY <4>1, SubnetHosts
    <3>4. ASSUME NEW k \in 1 .. n, NEW l \in 1 .. n, vms[k].ip = vms[l].ip PROVE k = l
      <4>1. n \in Nat
        BY BatchAssumption
      <4>2. First(configured[p].subnet) + 1 + k = First(configured[p].subnet) + 1 + l
        BY <3>2, <3>4
      <4> QED BY <3>3, <4>1, <4>2
    <3> QED BY <3>1, <3>4
  <2> HIDE DEF vms
  <2>6. i \in DOMAIN vms
    BY <2>3
  <2>7. ASSUME NEW r \in network[p].reservations
        PROVE  r[1] = proxies[p][i].mac <=> r[2] = proxies[p][i].vm_ip
    <3>1. PICK k \in DOMAIN vms : r = <<vms[k].mac, vms[k].ip>>
      BY <2>2
    <3> QED BY <2>3, <2>4, <2>5, <2>6, <3>1
  <2>8. ASSUME NEW j \in DOMAIN proxies[p]
        PROVE  proxies[p][j].vm_ip \in proxies[p][i].peer_ips <=> i # j
    BY <2>2, <2>3, <2>5, <2>6
  <2>9. ASSUME NEW f \in network[p].port_forwardings, f[1] = proxies[p][i].vm_ip
        PROVE  f[2] \in vms[i].exposed_ports
    <3>1. PICK k \in DOMAIN vms : \E port \in vms[k].exposed_ports : f = <<vms[k].ip, port>>
      BY <2>2
    <3>2. k = i
      BY <2>3, <2>5, <2>6, <2>9, <3>1
    <3> QED BY <3>1, <3>2
  <2> QED BY <2>7, <2>8, <2>9 DEF vms
<1> QED BY <1>1, BatchInvariant, PTL
=============================================================================
