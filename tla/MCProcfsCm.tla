----------------------------- MODULE MCProcfsCm -----------------------------
(* Model-checking instances of ProcfsCm: one board configuration per run. *)
EXTENDS ProcfsCm, TLC

CONSTANTS t1, t2, dh1

MCTasks1 == {t1}
MCTasks2 == {t1, t2}
MCFiles == 0 .. 1
MCDirs == {dh1}
P(h, s, r) == [head |-> h, slash |-> s, rest |-> r]
MCPaths ==
  { P("connectivity", FALSE, ""), P("connectivity", TRUE, "rssi"),
    P("connectivity", TRUE, "ipaddr"), P("connectivity", TRUE, "junk"),
    P("connectivity", FALSE, "rssi"), P("other", TRUE, "rssi") }
MCOFlags == {1, 3}            \* O_RDONLY, O_RDWR
MCBufLens == {1, 16}
IPv4Text == <<"1", "0", ".", "0", ".", "0", ".", "2">>
MCIpTexts == {IPv4Text}
(* CONFIG_WICED on BCM4390X: "en1", WLAN bearer, RSSI and rate from wwd.  *)
WicedIface == <<"e", "n", "1">>
WicedRssi == {-45, -38}
WicedRssiFixed == {-45}
WicedRate == {72}
(* CONFIG_NET_ETHERNET without WiFi: "eth0", RSSI and rate 0.             *)
EthIface == <<"e", "t", "h", "0">>
=============================================================================
