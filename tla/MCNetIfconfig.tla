---------------------------- MODULE MCNetIfconfig ----------------------------
(* netcmd.c's interface commands on one WiFi interface.  The commands     *)
(* cover: no arguments, a static address with and without gateway and     *)
(* netmask, an address text inet_addr() refuses, the "gw" keyword where   *)
(* the address belongs, DHCP, a MAC, options missing their value, a       *)
(* malformed MAC, an unknown interface and ifup/ifdown.                   *)
EXTENDS NetIfconfig

MCInterfaces == {"wlan0"}
MCGoodMacs == [t \in {"02:00:00:00:00:01"} |-> "macA"]
MCLeases == {[ip |-> <<10, 0, 0, 7>>, netmask |-> <<255, 255, 0, 0>>, router |-> <<10, 0, 0, 1>>],
             [ip |-> <<10, 0, 0, 8>>, netmask |-> ZERO, router |-> ZERO]}
\* The commands the passing run types.
MCCommands ==
  { <<"ifconfig">>, <<"ifconfig", "wlan0">>,
    <<"ifconfig", "wlan0", "192.168.1.20">>,
    <<"ifconfig", "wlan0", "192.168.1.200", "netmask", "255.255.255.128", "gw", "192.168.1.129">>,
    <<"ifconfig", "wlan0", "192.168.1.300">>,
    <<"ifconfig", "wlan0", "gw", "192.168.1.1">>,
    <<"ifconfig", "wlan0", "dhcp">>,
    <<"ifconfig", "wlan0", "dhcp", "hw", "02:00:00:00:00:01">>,
    <<"ifconfig", "wlan0", "192.168.1.20", "netmask">>,
    <<"ifconfig", "wlan0", "192.168.1.20", "hw", "zz">>,
    <<"ifconfig", "wlan0", "192.168.1.20", "inet6">>,
    <<"ifconfig", "wlan0", "192.168.1.20", "dns", "8.8.8.8", "inet">>,
    <<"ifconfig", "eth9", "192.168.1.20">>,
    <<"ifup", "wlan0">>, <<"ifdown", "wlan0">>, <<"ifup", "eth9">>, <<"ifup">> }
\* ftp_get: a path, a directory path, a path that looks like an option;
\* a host, the address 0, a text that is no address.
MCTftpPaths == {"img/fw.bin", "img/", "-b"}
MCTftpHosts == {"10.0.0.2", "0.0.0.0", "10.0.0.256"}
\* Plus the orders the code gets wrong: a refused option followed by "hw".
MCCommandsAll ==
  MCCommands \cup
  { <<"ifconfig", "wlan0", "192.168.1.20", "inet6", "hw", "02:00:00:00:00:01">> }
=============================================================================
