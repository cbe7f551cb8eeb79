------------------------------- MODULE MCBatch -------------------------------
(***************************************************************************)
(* Addresses of six bits, of which three are left inside a subnet as in    *)
(* the code.  The first range holds two subnets, the second is too small   *)
(* for one and the third is exactly one.                                   *)
(***************************************************************************)
EXTENDS Batch

P(a, l) == [addr |-> a, len |-> l]
MCPrivate == {P(16, 2), P(40, 4), P(48, 3)}

\* One address inside a subnet, one that covers the first range, a half of the third
MCForeign == {P(19, 6), P(5, 1), P(52, 4)}

Label(l, s) == [label |-> l, spelling |-> s, form |-> "Label"]
Ssh == [external_port |-> 2, internal_port |-> 1]
VmConfig(mac, name, ports, socket) ==
    [mac |-> mac, name |-> name, exposed_ports |-> ports, socket |-> socket]
Plain(mac) == VmConfig(mac, NoName, {}, "Ok")
Many(n) == [i \in 1 .. n |-> Plain(i)]

MCRequests ==
    {<<>>, Many(MAX_VMS), Many(MAX_VMS + 1),
     <<Plain(1), Plain(1)>>, <<Plain(DHCP_SERVER_MAC)>>,
     <<VmConfig(1, Label("a", 1), {Ssh}, "Ok"), VmConfig(2, Label("b", 1), {}, "Ok")>>,
     <<VmConfig(1, Label("a", 1), {}, "Ok"), VmConfig(2, Label("a", 2), {}, "Ok")>>,
     <<VmConfig(1, [label |-> "a.b", spelling |-> 1, form |-> "Other"], {}, "Ok")>>,
     <<Plain(1), VmConfig(2, NoName, {Ssh}, "Bad")>>}
=============================================================================
