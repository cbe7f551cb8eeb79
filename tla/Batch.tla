-------------------------------- MODULE Batch --------------------------------
(***************************************************************************)
(* How a batch of VMs gets its subnet, its addresses and its names: the    *)
(* search of subnet_finder, Manager::initialize up to the worker and what  *)
(* the worker hands to vmnet (network.rs) and to the proxies.  Several     *)
(* Softnet processes and other programs create interfaces on one host, so  *)
(* what a search saw may be out of date when the network is created.       *)
(* The tasks, signals and privileges of initialize are in Manager.         *)
(***************************************************************************)
EXTENDS Rules, Sequences, FiniteSets

CONSTANTS
    Process,                 \* Softnet processes of one host
    private_subnets,         \* the ranges that the finder draws from
    SUBNET_PREFIX_LEN, MAX_VMS,
    DHCP_SERVER_MAC,
    Foreign,                 \* interfaces that other programs may create
    Requests                 \* the batches that clients ask for

\* The constants of the code: a /29 has six usable addresses, the gateway's and
\* those of MAX_VMS = 5 VMs.  A request is a sequence.
ASSUME BatchAssumption ==
    /\ private_subnets \subseteq Prefix /\ Foreign \subseteq Prefix
    /\ SUBNET_PREFIX_LEN \in 0 .. AddrBits - 2
    /\ MAX_VMS \in Nat /\ MAX_VMS + 1 <= BlockSize(SUBNET_PREFIX_LEN) - 2
    /\ \A vms \in Requests : Len(vms) \in Nat /\ DOMAIN vms = 1 .. Len(vms)

VARIABLES
    foreign,         \* the interfaces of other programs now
    pc,              \* "Idle", "Worker", "Proxies", "Live" or "Failed"
    known,           \* the interfaces that the search saw and that were up ever since
    answer,          \* the last refusal, or "None"
    configured,      \* the batch in hand: subnet, VMs with their addresses, DNS zone
    network,         \* what Network::new gave to vmnet
    proxies          \* the proxies, in the order of the batch

vars == <<foreign, pc, known, answer, configured, network, proxies>>

None == [addr |-> -1, len |-> -1]

-----------------------------------------------------------------------------
(***************************************************************************)
(* Ipv4Net (external): network, broadcast, contains and hosts.             *)
(***************************************************************************)
First(net) == trunc(net).addr
Last(net) == First(net) + BlockSize(net.len) - 1
NetContains(net, other) == First(net) <= First(other) /\ Last(other) <= Last(net)
hosts(net) ==
    LET edge == IF net.len <= AddrBits - 2 THEN 1 ELSE 0
    IN  [i \in 1 .. BlockSize(net.len) - 2 * edge |-> First(net) + edge + i - 1]

(***************************************************************************)
(* find_available_subnet: MAX_ATTEMPTS draws of a range and an address in  *)
(* it.  The search may return what any draw gives, and fails if all of     *)
(* them are unlucky.  Failing to list the interfaces is a failure as well. *)
(***************************************************************************)
\* Mutant: an interface with a subnet of its own inside the candidate is missed
Mut_overlaps(candidate, used_subnets) ==
    \E used \in used_subnets : NetContains(used, candidate)

overlaps(candidate, used_subnets) ==
    \E used \in used_subnets : NetContains(candidate, used) \/ NetContains(used, candidate)

Draw(private_subnet, address, used_subnets) ==
    LET candidate == trunc([addr |-> address, len |-> SUBNET_PREFIX_LEN])
    IN  IF \/ SUBNET_PREFIX_LEN < private_subnet.len
           \/ overlaps(candidate, used_subnets)
           \/ Len(hosts(candidate)) < 2
        THEN None ELSE candidate

find_available_subnet(used_subnets) ==
    {None} \cup UNION {{Draw(range, a, used_subnets) : a \in First(range) .. Last(range)} :
                       range \in private_subnets}

-----------------------------------------------------------------------------
(***************************************************************************)
(* DnsServer::new.  A name is its label, how the label is spelled (upper   *)
(* and lower case) and its form.  Names compare without regard to case.    *)
(***************************************************************************)
NoName == [label |-> "", spelling |-> 0, form |-> "None"]

\* Mutant: names that differ in case only count as different
Mut_SameName(a, b) == a = b

\* Name::cmp of hickory: BTreeSet::insert and the zone's lookup use it
SameName(a, b) == a.label = b.label

\* The zone's records, for a batch of named VMs
Zone(vms) == {[name |-> vms[i].name, address |-> vms[i].ip] :
                 i \in {i \in DOMAIN vms : vms[i].name # NoName}}

\* Single labels only, and none of them twice
ValidNames(vms) ==
    /\ \A i \in DOMAIN vms : vms[i].name.form \in {"None", "Label"}
    /\ \A i, j \in DOMAIN vms :
          /\ i < j /\ vms[i].name # NoName /\ vms[j].name # NoName
          => ~ SameName(vms[i].name, vms[j].name)

\* What the zone answers for a name, in whatever spelling the guest asks
Lookup(zone, name) == {r.address : r \in {r \in zone : r.name.label = name.label}}

-----------------------------------------------------------------------------
(***************************************************************************)
(* Manager::initialize.                                                    *)
(***************************************************************************)
\* Mutant: the gateway's address is not skipped
Mut_vm_hosts(subnet) == hosts(subnet)

vm_hosts(subnet) == SubSeq(hosts(subnet), 2, Len(hosts(subnet)))

\* Before any native resource exists: the size of the batch and its MAC addresses
ValidBatch(vms) ==
    /\ Len(vms) \in 1 .. MAX_VMS
    /\ \A i \in DOMAIN vms : vms[i].mac # DHCP_SERVER_MAC
    /\ \A i, j \in DOMAIN vms : vms[i].mac = vms[j].mac => i = j

\* The interfaces of the host as NetworkInterface::show lists them
Interfaces(others, state, networks) ==
    others \cup {[addr |-> networks[p].gateway_ip, len |-> networks[p].subnet.len] :
                    p \in {p \in Process : state[p] = "Live"}}

Up == Interfaces(foreign, pc, network)

\* Every VM gets a duplicate of its socket and the next address; the loop ends at
\* the first VM for which there is none
Prepared(vms, subnet) ==
    LET fits(i) == i <= Len(vm_hosts(subnet))
        usable(i) == vms[i].socket = "Ok"
    IN  IF \A i \in DOMAIN vms : usable(i) /\ fits(i) THEN "Yes"
        ELSE IF \E i \in DOMAIN vms : usable(i) /\ ~ fits(i)
                                      /\ \A j \in 1 .. i - 1 : usable(j) /\ fits(j)
             THEN "NoAddresses" ELSE "Rejected"

WithAddresses(vms, subnet) ==
    [i \in DOMAIN vms |-> [mac |-> vms[i].mac, name |-> vms[i].name,
                           exposed_ports |-> vms[i].exposed_ports,
                           ip |-> vm_hosts(subnet)[i]]]

\* What becomes of a batch, given what the search returned
Verdict(vms, subnet) ==
    IF ~ ValidBatch(vms) \/ subnet = None THEN "Rejected"
    ELSE IF Prepared(vms, subnet) # "Yes" THEN Prepared(vms, subnet)
    ELSE IF ~ ValidNames(vms) THEN "InvalidParams"
    ELSE "Accepted"

\* A refused batch leaves the process as it was, and the client may ask again
Refuse(p, verdict) ==
    /\ verdict # "Accepted"
    /\ answer' = [answer EXCEPT ![p] = verdict]
    /\ UNCHANGED <<foreign, pc, known, configured, network, proxies>>

\* An accepted one goes to the worker
Accept(p, vms, subnet) ==
    /\ Verdict(vms, subnet) = "Accepted"
    /\ LET with == WithAddresses(vms, subnet)
       IN  configured' = [configured EXCEPT ![p] =
              [subnet |-> subnet, vms |-> with, zone |-> Zone(with)]]
    /\ answer' = [answer EXCEPT ![p] = "None"]
    /\ known' = [known EXCEPT ![p] = Up]
    /\ pc' = [pc EXCEPT ![p] = "Worker"]
    /\ UNCHANGED <<foreign, network, proxies>>

initialize(p, vms) ==
    /\ pc[p] = "Idle"
    /\ \E subnet \in find_available_subnet(Up) :
          Refuse(p, Verdict(vms, subnet)) \/ Accept(p, vms, subnet)

(***************************************************************************)
(* The worker: Network::new, then a proxy for every VM.  vmnet (external)  *)
(* may refuse any part of either; the error ends the process, and dropping *)
(* the network and the interfaces takes them down.                         *)
(***************************************************************************)
NetworkNew(batch) ==
    LET vms == batch.vms
    IN  [subnet           |-> batch.subnet,
         gateway_ip       |-> hosts(batch.subnet)[1],
         reservations     |-> {<<vms[i].mac, vms[i].ip>> : i \in DOMAIN vms},
         port_forwardings |-> UNION {{<<vms[i].ip, port>> : port \in vms[i].exposed_ports} :
                                     i \in DOMAIN vms},
         vm_ips           |-> {vms[i].ip : i \in DOMAIN vms}]

CreateNetwork(p) ==
    /\ pc[p] = "Worker"
    /\ network' = [network EXCEPT ![p] = NetworkNew(configured[p])]
    /\ pc' = [pc EXCEPT ![p] = "Proxies"]
    /\ UNCHANGED <<foreign, known, answer, configured, proxies>>

\* Mutant: a VM counts as a peer of its own
Mut_peer_ips(net, vm_ip) == net.vm_ips

peer_ips(net, vm_ip) == net.vm_ips \ {vm_ip}

\* Proxy::new: the filter's view of the network and what the DHCP server will serve
NewProxy(vm, net, zone) ==
    [mac |-> vm.mac, vm_ip |-> vm.ip, gateway_ip |-> net.gateway_ip,
     peer_ips |-> peer_ips(net, vm.ip), zone |-> zone]

ProxiesNew(batch, net) ==
    [i \in DOMAIN batch.vms |-> NewProxy(batch.vms[i], net, batch.zone)]

CreateProxies(p) ==
    /\ pc[p] = "Proxies"
    /\ proxies' = [proxies EXCEPT ![p] = ProxiesNew(configured[p], network[p])]
    /\ pc' = [pc EXCEPT ![p] = "Live"]
    /\ UNCHANGED <<foreign, known, answer, configured, network>>

WorkerFails(p) ==
    /\ pc[p] \in {"Worker", "Proxies"}
    /\ pc' = [pc EXCEPT ![p] = "Failed"]
    /\ UNCHANGED <<foreign, known, answer, configured, network, proxies>>

-----------------------------------------------------------------------------
(***************************************************************************)
(* The host: processes end and are started anew, other programs come and   *)
(* go.                                                                     *)
(***************************************************************************)
NoBatch == [subnet |-> None, vms |-> <<>>, zone |-> {}]
NoNetwork == [subnet |-> None, gateway_ip |-> -1, reservations |-> {},
              port_forwardings |-> {}, vm_ips |-> {}]

Restart(p) ==
    /\ pc[p] \in {"Live", "Failed"}
    /\ pc' = [pc EXCEPT ![p] = "Idle"]
    /\ known' = [q \in Process |-> IF q = p THEN {}
                                   ELSE known[q] \cap Interfaces(foreign, pc', network)]
    /\ answer' = [answer EXCEPT ![p] = "None"]
    /\ configured' = [configured EXCEPT ![p] = NoBatch]
    /\ network' = [network EXCEPT ![p] = NoNetwork]
    /\ proxies' = [proxies EXCEPT ![p] = <<>>]
    /\ UNCHANGED foreign

InterfaceAppears(i) ==
    /\ i \notin foreign
    /\ foreign' = foreign \cup {i}
    /\ UNCHANGED <<pc, known, answer, configured, network, proxies>>

InterfaceGoes(i) ==
    /\ i \in foreign
    /\ foreign' = foreign \ {i}
    /\ known' = [q \in Process |-> known[q] \cap Interfaces(foreign', pc, network)]
    /\ UNCHANGED <<pc, answer, configured, network, proxies>>

-----------------------------------------------------------------------------
Init ==
    /\ foreign \in SUBSET Foreign
    /\ pc = [p \in Process |-> "Idle"]
    /\ known = [p \in Process |-> {}]
    /\ answer = [p \in Process |-> "None"]
    /\ configured = [p \in Process |-> NoBatch]
    /\ network = [p \in Process |-> NoNetwork]
    /\ proxies = [p \in Process |-> <<>>]

Next ==
    \/ \E p \in Process :
          \/ \E vms \in Requests : initialize(p, vms)
          \/ CreateNetwork(p)
          \/ CreateProxies(p)
          \/ WorkerFails(p)
          \/ Restart(p)
    \/ \E i \in Foreign : InterfaceAppears(i) \/ InterfaceGoes(i)

Spec == Init /\ [][Next]_vars

-----------------------------------------------------------------------------
(***************************************************************************)
(* Properties.                                                             *)
(***************************************************************************)
Addresses(net) == {a \in Addr : covers(net, a)}

(***************************************************************************)
(* Two networks that share an address are the work of a race: a network    *)
(* shares no address with an interface that was up when the finder looked  *)
(* and has been up since, and a retry after a refusal looks again.         *)
(* find_available_subnet compares prefixes, one containing the other; this *)
(* compares the addresses themselves.                                      *)
(***************************************************************************)
OverlapIsRace ==
    \A p \in Process : pc[p] = "Live" =>
        /\ \E range \in private_subnets : Addresses(network[p].subnet) \subseteq Addresses(range)
        /\ \A i \in known[p] : Addresses(i) \cap Addresses(network[p].subnet) = {}

(***************************************************************************)
(* The gateway and the VMs of a network have different addresses, and none *)
(* of them is the network's own or its broadcast address, so that the DHCP *)
(* server, the policy's @host and @peers and vmnet's reservations never    *)
(* speak of two machines by one address.  There is always such an address: *)
(* no batch that passes the check of its size ends in initialize's "shared *)
(* VM subnet has no available addresses".                                  *)
(***************************************************************************)
AddressesSeparate ==
    \A p \in Process :
        /\ answer[p] # "NoAddresses"
        /\ pc[p] = "Live" =>
              LET ips == [i \in DOMAIN proxies[p] |-> proxies[p][i].vm_ip]
                  used == {network[p].gateway_ip} \cup {ips[i] : i \in DOMAIN ips}
              IN  /\ Cardinality(used) = Len(proxies[p]) + 1
                  /\ used \subseteq Addresses(network[p].subnet)
                                     \ {First(network[p].subnet), Last(network[p].subnet)}

(***************************************************************************)
(* A name of the batch, spelled in any case, resolves to the one address   *)
(* that vmnet reserves for the MAC of the VM with that name, at every      *)
(* VM's proxy.                                                             *)
(***************************************************************************)
NamesResolve ==
    \A p \in Process : pc[p] = "Live" =>
        \A i \in DOMAIN configured[p].vms : configured[p].vms[i].name # NoName =>
            \A j \in DOMAIN proxies[p] : \A a \in Addr :
                a \in Lookup(proxies[p][j].zone, configured[p].vms[i].name)
                    <=> <<configured[p].vms[i].mac, a>> \in network[p].reservations

(***************************************************************************)
(* The parts built from one batch agree.  What the filter of a VM takes    *)
(* for the VM's address is what vmnet reserved for its MAC; its peers are  *)
(* the other VMs, every one of them; and a forwarded port leads to a VM    *)
(* that asked for it.                                                      *)
(***************************************************************************)
ViewsAgree ==
    \A p \in Process : pc[p] = "Live" =>
        \A i \in DOMAIN proxies[p] :
            LET proxy == proxies[p][i]
            IN  /\ \A r \in network[p].reservations : r[1] = proxy.mac <=> r[2] = proxy.vm_ip
                /\ \A j \in DOMAIN proxies[p] :
                      proxies[p][j].vm_ip \in proxy.peer_ips <=> i # j
                /\ \A f \in network[p].port_forwardings : f[1] = proxy.vm_ip =>
                      f[2] \in configured[p].vms[i].exposed_ports
=============================================================================
