-------------------------------- MODULE Dhcp --------------------------------
(***************************************************************************)
(* The VM's DHCP client, as RFC 2131 describes it, and DhcpServer.  The    *)
(* VM may come with an address that it had before this process started, or *)
(* with a lease of another server.  Datagrams are lost, repeated and       *)
(* delayed, by the guest, by a full socket buffer and by the interleaving  *)
(* of the two directions; external servers are cut off by the filter       *)
(* (DhcpStaysLocal of Proxy).                                              *)
(***************************************************************************)
EXTENDS DhcpServer

CONSTANTS
    old_ip,          \* an address that the VM had before
    other_server,    \* the server that it had it from
    MaxAbandoned     \* bound on the exchanges that the client gives up

ASSUME ClientAssumption ==
    /\ old_ip \notin {vm_ip, UNSPECIFIED, BROADCAST}
    /\ other_server # gateway_ip
    /\ MaxAbandoned \in Nat

VARIABLES
    state,           \* RFC 2131, figure 5
    addr, lease, server,            \* what the client has, or has been offered
    remembered,      \* an address to ask for
    broadcast,       \* "Yes" for a client that cannot receive before it has an address
    xid, abandoned,
    requests, replies               \* every datagram sent; any may still arrive

dhcpClient == <<state, addr, lease, server, remembered, broadcast, xid, abandoned>>
dhcpVars == <<dhcpClient, requests, replies>>

Configured == {"Bound", "Renewing", "Rebinding"}
\* The states that a DHCPACK or a DHCPNAK can end
Waiting == {"Requesting", "Rebooting", "Renewing", "Rebinding"}

\* A fresh start, a restart that remembers its address, or a lease that goes on
DhcpInit ==
    /\ \/ state = "Init" /\ addr = UNSPECIFIED /\ lease = None /\ server = None
          /\ remembered = None
       \/ state = "Reboot" /\ addr = UNSPECIFIED /\ lease = None /\ server = None
          /\ remembered \in {vm_ip, old_ip}
       \/ state = "Bound" /\ addr \in {vm_ip, old_ip} /\ lease = "Finite"
          /\ server \in {gateway_ip, other_server} /\ remembered = None
    /\ broadcast \in {"Yes", "No"}
    /\ xid = 0 /\ abandoned = 0
    /\ requests = {} /\ replies = {}

-----------------------------------------------------------------------------
(***************************************************************************)
(* The client.                                                             *)
(***************************************************************************)
\* What the client sends, and sends again, in each state that waits for an answer
Request ==
    LET configured == state \in Configured
        message == [msg_type     |-> IF state = "Selecting" THEN "Discover" ELSE "Request",
                    xid          |-> xid,
                    chaddr       |-> vm_mac,
                    broadcast    |-> broadcast,
                    ciaddr       |-> IF configured THEN addr ELSE UNSPECIFIED,
                    requested_ip |-> IF state \in {"Requesting", "Rebooting"} THEN remembered ELSE None,
                    server_id    |-> IF state = "Requesting" THEN server ELSE None]
    IN  [src     |-> IF configured THEN addr ELSE UNSPECIFIED,
         dst     |-> IF state = "Renewing" THEN server ELSE BROADCAST,
         intact  |-> "Yes",
         message |-> message]

Transmit ==
    /\ state \in Waiting \cup {"Selecting"}
    /\ requests' = requests \cup {Request}
    /\ UNCHANGED <<dhcpClient, replies>>

\* A new exchange
Begin(from, to) ==
    /\ state = from /\ state' = to
    /\ xid' = xid + 1
    /\ UNCHANGED <<addr, lease, server, remembered, broadcast, abandoned, requests, replies>>

Discover == Begin("Init", "Selecting")
Reboot == Begin("Reboot", "Rebooting")
\* T1 and T2 pass; a lease that lasts forever has neither
Renew == lease = "Finite" /\ Begin("Bound", "Renewing")
Rebind == Begin("Renewing", "Rebinding")

Forget ==
    /\ state' = "Init"
    /\ addr' = UNSPECIFIED /\ lease' = None /\ server' = None /\ remembered' = None

\* No answer, or the lease is over: the client starts again
GiveUp ==
    /\ state \in Waiting
    /\ abandoned < MaxAbandoned /\ abandoned' = abandoned + 1
    /\ Forget
    /\ UNCHANGED <<broadcast, xid, requests, replies>>

\* The client listens to its own exchange, and on its own address if it has one
Hears(r) ==
    /\ r.message.xid = xid /\ r.message.chaddr = vm_mac
    /\ state \in Configured => r.dst \in {BROADCAST, addr}

TakeOffer(r) ==
    /\ state = "Selecting" /\ r.message.msg_type = "Offer"
    /\ state' = "Requesting"
    /\ remembered' = r.message.yiaddr /\ server' = r.message.server_id
    /\ UNCHANGED <<addr, lease, broadcast, xid, abandoned>>

TakeAck(r) ==
    /\ state \in Waiting
    /\ r.message.msg_type = "Ack"
    /\ state' = "Bound"
    /\ addr' = r.message.yiaddr /\ lease' = r.message.lease /\ server' = r.message.server_id
    /\ remembered' = None
    /\ UNCHANGED <<broadcast, xid, abandoned>>

TakeNak(r) ==
    /\ state \in Waiting
    /\ r.message.msg_type = "Nak"
    /\ Forget
    /\ UNCHANGED <<broadcast, xid, abandoned>>

Deliver ==
    /\ \E r \in replies : Hears(r) /\ (TakeOffer(r) \/ TakeAck(r) \/ TakeNak(r))
    /\ UNCHANGED <<requests, replies>>

-----------------------------------------------------------------------------
\* consume_dhcp: any request that was sent reaches the server, perhaps damaged,
\* again or late, and the reply is on its way
Serve(r, intact) ==
    /\ replies' = replies \cup receive_vm([r EXCEPT !.intact = intact])
    /\ UNCHANGED <<dhcpClient, requests>>

ServeCurrent == \E r \in requests : r.message.xid = xid /\ Serve(r, "Yes")

Leased == state = "Bound" /\ lease = "Infinite"
KeepsLease == Leased /\ UNCHANGED dhcpVars

DhcpNext ==
    \/ Discover \/ Reboot \/ Renew \/ Rebind \/ GiveUp
    \/ Transmit \/ Deliver
    \/ \E r \in requests, intact \in {"Yes", "No"} : Serve(r, intact)
    \/ KeepsLease

\* The client repeats its requests, so that in the end one of them arrives and is
\* answered, and its timers run.  That a lease ends is not assumed.
DhcpSpec ==
    /\ DhcpInit /\ [][DhcpNext]_dhcpVars
    /\ WF_dhcpVars(Discover) /\ WF_dhcpVars(Reboot) /\ WF_dhcpVars(Renew) /\ WF_dhcpVars(Rebind)
    /\ WF_dhcpVars(Transmit) /\ WF_dhcpVars(ServeCurrent) /\ WF_dhcpVars(Deliver)

-----------------------------------------------------------------------------
(***************************************************************************)
(* A lease that this server has given is for the reserved address, the     *)
(* only one that the filter lets the VM use, and lasts.                    *)
(***************************************************************************)
LeasesAreReservations == lease = "Infinite" => addr = vm_ip /\ server = gateway_ip

(***************************************************************************)
(* A client is refused only if it asks for an address that is not the      *)
(* reserved one.  In particular an offer that it takes up is acknowledged, *)
(* and no late or repeated datagram makes it lose the reserved address.    *)
(***************************************************************************)
RefusedOnlyIfObsolete ==
    \A r \in replies :
        Hears(r) /\ r.message.msg_type = "Nak" /\ state \in Waiting =>
            vm_ip # IF state \in Configured THEN addr ELSE remembered

(***************************************************************************)
(* Whatever address the VM comes with, it gets the reserved one, from the  *)
(* gateway and for good, without having to wait for the end of a lease     *)
(* that it has from elsewhere.                                             *)
(***************************************************************************)
EventuallyLeased == <>(Leased /\ addr = vm_ip /\ server = gateway_ip)
=============================================================================
