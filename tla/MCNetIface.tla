------------------------------ MODULE MCNetIface ------------------------------
(* Small instances of NetIface. *)
EXTENDS NetIface

(* An entry of an Ethernet interface, of a tunnel, and one that is there    *)
(* for the link alone.                                                      *)
Inet(name, ip, all) ==
    [name |-> name, family |-> "inet", addr |-> ip, netmask |-> "mask",
     broadcast |-> all, can_broadcast |-> TRUE]

Tunnel(name, ip, peer) ==
    [name |-> name, family |-> "inet", addr |-> ip, netmask |-> NULL,
     broadcast |-> peer, can_broadcast |-> FALSE]

Bare(name, family) ==
    [name |-> name, family |-> family, addr |-> "", netmask |-> NULL,
     broadcast |-> NULL, can_broadcast |-> TRUE]

Ethernet == <<2, 66, 172, 17, 0, 254>>
Another  == <<2, 66, 172, 17, 1, 9>>
Sit      == <<10, 0, 0, 1>>
Ib       == [k \in 1 .. 20 |-> k]

(* An Ethernet interface and a tunnel with a hardware address of 4 bytes;   *)
(* the same, with the addresses the other way about; the tunnel gone and    *)
(* another card in; a tunnel with neither kind of address before it.        *)
MCSystems ==
    {[list |-> <<Bare("eth0", "other"), Inet("eth0", "a", "a.255"), Tunnel("sit1", "b", "c")>>,
      link |-> [eth0 |-> Ethernet, sit1 |-> Sit]],
     [list |-> <<Bare("eth0", "other"), Inet("eth0", "b", "b.255"), Tunnel("sit1", "a", "c")>>,
      link |-> [eth0 |-> Ethernet, sit1 |-> Sit]],
     [list |-> <<Inet("eth0", "a", NULL), Inet("ib0", "b", "b.255")>>,
      link |-> [eth0 |-> Another, ib0 |-> Ib]],
     [list |-> <<Tunnel("tun0", "b", "c"), Bare("tun1", "none"), Inet("eth1", "a", "a.255")>>,
      link |-> [tun0 |-> <<>>, tun1 |-> <<>>, eth1 |-> Ethernet]]}

MCIPs == {"a", "b", "none"}

(* A new record, and one with the flags of test_net.c:13.                   *)
New   == {{}}
Asked == {{"addr", "broadcast"}}

(* Groups of no, one, two digits, of more with and without zeros in front,  *)
(* and of no digits: three or four groups of any kind, five of some kinds,  *)
(* and one to three of any kind after four bytes.                           *)
Groups == {<<>>, <<7>>, <<15, 14>>, <<0, 0, 1>>, <<1, 0, 0>>, <<WEIRD>>}

MCTexts ==
    UNION {[1 .. n -> Groups] : n \in 3 .. 4} \cup
    [1 .. 5 -> {<<>>, <<7>>, <<0, 0, 1>>}] \cup
    {[k \in 1 .. 4 |-> <<k, 14>>] \o t : t \in UNION {[1 .. n -> Groups] : n \in 1 .. 3}}
=============================================================================
