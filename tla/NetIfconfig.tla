----------------------------- MODULE NetIfconfig -----------------------------
(***************************************************************************)
(* The interface commands of src/apps/system/utils/netcmd.c: cmd_ifconfig, *)
(* cmd_ifup and cmd_ifdown, as TASH runs them (TASH_EXECMD_SYNC: one       *)
(* command at a time, each one step).  The build has CONFIG_NET_IPv4,      *)
(* CONFIG_NET_ETHERNET and CONFIG_NETUTILS_DHCPC, and not CONFIG_NET_IPv6. *)
(*                                                                         *)
(* The state is what the netlib calls leave in each interface: address,    *)
(* netmask, default router, MAC, and whether it is up.  An address is the  *)
(* four bytes of an in_addr_t in network order, as a tuple.  A netlib call *)
(* on a name that is no interface fails and changes nothing; cmd_ifconfig  *)
(* ignores those results.  DHCP is one exchange whose outcome the server   *)
(* picks: no handle, no answer, or a lease.                                *)
(***************************************************************************)
EXTENDS Integers, Sequences, FiniteSets

CONSTANTS
  Interfaces,     \* names of the network interfaces
  Commands,       \* the argv vectors typed at the shell
  GoodMacs,       \* the texts netlib_hwmacconv() accepts, to the MAC they give
  NoMac,          \* the MAC an interface starts with
  Leases,         \* what a DHCP server may answer: [ip, netmask, router]
  DhcpMayFail,    \* whether dhcpc_open() or dhcpc_request() may fail
  TftpPaths,      \* paths typed after ftp_get's -f and as its source
  TftpHosts,      \* texts typed after ftp_get's -h
  MaxOpts         \* the most options an ftp_get line carries

VARIABLES
  netif,          \* interface name -> its configuration
  last            \* (ghost) the last command: argv, return value, rejected

vars == <<netif, last>>

OK == 0
ERROR == -1
NULL == "NULL"

Addr == [1 .. 4 -> 0 .. 255]
ZERO == <<0, 0, 0, 0>>
INADDR_NONE == <<255, 255, 255, 255>>

-----------------------------------------------------------------------------
(* inet_addr(): a dotted quad of decimal bytes is that address; any other *)
(* text is INADDR_NONE.  (The one-, two- and three-part, octal and hex    *)
(* forms of inet_aton() are not among the texts the runs type.)            *)
Ch(s, i) == SubSeq(s, i, i)
DigitOf(c) == CHOOSE d \in 0 .. 9 : Ch("0123456789", d + 1) = c
IsDigit(c) == c \in {Ch("0123456789", k) : k \in 1 .. 10}
RECURSIVE Parts(_, _, _)
\* The parts of s from position i on, acc the digits of the current one.
Parts(s, i, acc) ==
  IF i > Len(s) THEN <<acc>>
  ELSE IF Ch(s, i) = "." THEN <<acc>> \o Parts(s, i + 1, <<>>)
  ELSE Parts(s, i + 1, Append(acc, Ch(s, i)))
RECURSIVE DecimalOf(_)
DecimalOf(ds) == IF ds = <<>> THEN 0 ELSE 10 * DecimalOf(SubSeq(ds, 1, Len(ds) - 1)) + DigitOf(ds[Len(ds)])
ByteText(ds) == Len(ds) \in 1 .. 3 /\ \A k \in 1 .. Len(ds) : IsDigit(ds[k])
IsDottedQuad(s) ==
  LET p == Parts(s, 1, <<>>)
  IN  Len(p) = 4 /\ \A k \in 1 .. 4 : ByteText(p[k]) /\ DecimalOf(p[k]) <= 255
QuadOf(s) == LET p == Parts(s, 1, <<>>) IN [k \in 1 .. 4 |-> DecimalOf(p[k])]
inet_addr(s) == IF IsDottedQuad(s) THEN QuadOf(s) ELSE INADDR_NONE

-----------------------------------------------------------------------------
(* The option loop of cmd_ifconfig, from argv index i (C index i - 1).    *)
(* argv[1] is the interface, argv[2] the host address whatever it says;   *)
(* an option missing its value sets badarg; "inet6" sets badarg in this   *)
(* build; "hw" sets badarg to whether its text is no MAC, dropping any     *)
(* earlier badarg.  The ghost field refused records that some option set *)
(* badarg, whatever came after it.                                         *)
Opts0 == [intf |-> NULL, hostip |-> NULL, gwip |-> NULL, mask |-> NULL, hw |-> NULL,
          dns |-> NULL, badarg |-> FALSE, refused |-> FALSE]
Bad(o) == [o EXCEPT !.badarg = TRUE, !.refused = TRUE]
\* Mutant: "inet6" is let through as if the build had CONFIG_NET_IPv6.
RECURSIVE ParseArgs_inet6(_, _, _)
ParseArgs_inet6(argv, i, o) ==
  LET argc == Len(argv)
      c == i - 1
      tmp == argv[i]
      hasval == argc - 1 >= c + 1
      val(f) == IF hasval THEN [o EXCEPT ![f] = argv[i + 1]] ELSE Bad(o)
      skip == IF hasval THEN 2 ELSE 1
  IN  IF i > argc THEN o
      ELSE IF c = 1 THEN ParseArgs_inet6(argv, i + 1, [o EXCEPT !.intf = tmp])
      ELSE IF c = 2 THEN ParseArgs_inet6(argv, i + 1, [o EXCEPT !.hostip = tmp])
      ELSE IF tmp \in {"dr", "gw", "gateway"} THEN ParseArgs_inet6(argv, i + skip, val("gwip"))
      ELSE IF tmp = "netmask" THEN ParseArgs_inet6(argv, i + skip, val("mask"))
      ELSE IF tmp = "inet" THEN ParseArgs_inet6(argv, i + 1, o)
      ELSE IF tmp = "inet6" THEN ParseArgs_inet6(argv, i + 1, [o EXCEPT !.refused = TRUE])
      ELSE IF tmp = "hw"
           THEN ParseArgs_inet6(argv, i + skip,
                          IF hasval THEN [o EXCEPT !.hw = argv[i + 1],
                                                   !.badarg = argv[i + 1] \notin DOMAIN GoodMacs,
                                                   !.refused = @ \/ argv[i + 1] \notin DOMAIN GoodMacs]
                          ELSE Bad(o))
      ELSE IF tmp = "dns" THEN ParseArgs_inet6(argv, i + skip, val("dns"))
      ELSE ParseArgs_inet6(argv, i + 1, o)

RECURSIVE ParseArgs(_, _, _)
ParseArgs(argv, i, o) ==
  LET argc == Len(argv)
      c == i - 1
      tmp == argv[i]
      hasval == argc - 1 >= c + 1
      val(f) == IF hasval THEN [o EXCEPT ![f] = argv[i + 1]] ELSE Bad(o)
      skip == IF hasval THEN 2 ELSE 1
  IN  IF i > argc THEN o
      ELSE IF c = 1 THEN ParseArgs(argv, i + 1, [o EXCEPT !.intf = tmp])
      ELSE IF c = 2 THEN ParseArgs(argv, i + 1, [o EXCEPT !.hostip = tmp])
      ELSE IF tmp \in {"dr", "gw", "gateway"} THEN ParseArgs(argv, i + skip, val("gwip"))
      ELSE IF tmp = "netmask" THEN ParseArgs(argv, i + skip, val("mask"))
      ELSE IF tmp = "inet" THEN ParseArgs(argv, i + 1, o)
      ELSE IF tmp = "inet6" THEN ParseArgs(argv, i + 1, Bad(o))
      ELSE IF tmp = "hw"
           THEN ParseArgs(argv, i + skip,
                          IF hasval THEN [o EXCEPT !.hw = argv[i + 1],
                                                   !.badarg = argv[i + 1] \notin DOMAIN GoodMacs,
                                                   !.refused = @ \/ argv[i + 1] \notin DOMAIN GoodMacs]
                          ELSE Bad(o))
      ELSE IF tmp = "dns" THEN ParseArgs(argv, i + skip, val("dns"))
      ELSE ParseArgs(argv, i + 1, o)

(* The default router when no gateway is given: the host address with its *)
(* last byte 1 (NTOHL, &= ~0xff, |= 1, HTONL), and 0 for address 0.       *)
\* Mutant: gip += 1 in place of the mask and the or.
DefaultRouter_inc(gip) == IF gip = ZERO THEN ZERO ELSE [gip EXCEPT ![4] = @ + 1]
DefaultRouter(gip) == IF gip = ZERO THEN ZERO ELSE [gip EXCEPT ![4] = 1]

(* The netlib setters: the field of a known interface, else nothing.     *)
Set(n, intf, f, v) == IF intf \in Interfaces THEN [n EXCEPT ![intf][f] = v] ELSE n

-----------------------------------------------------------------------------
(* The static tail of cmd_ifconfig: set the address, the default router  *)
(* (the given gateway, or derived from the address) and the netmask (the *)
(* given one, or 255.255.255.0).  The dns address is computed and never   *)
(* used: dns_setserver() is commented out.                                *)
StaticTail(n, o, gip) ==
  LET withgw == Set(n, o.intf, "gw", IF o.gwip # NULL THEN inet_addr(o.gwip) ELSE DefaultRouter(gip))
  IN  Set(withgw, o.intf, "mask", IF o.mask # NULL THEN inet_addr(o.mask) ELSE <<255, 255, 255, 0>>)

Done(argv, ret, rej) == last' = [argv |-> argv, ret |-> ret, rejected |-> rej, line |-> NULL, outs |-> {}]

(* cmd_ifconfig(argc, argv).  With argc > 2, argv[2] is always there, so  *)
(* the "hostip is not provided" return cannot happen.                     *)
cmd_ifconfig(argv) ==
  LET o == ParseArgs(argv, 2, Opts0)
      withmac == IF o.hw # NULL THEN Set(netif, o.intf, "mac", GoodMacs[o.hw]) ELSE netif
      gip == IF o.hostip = "dhcp" THEN ZERO ELSE inet_addr(o.hostip)
      withip == Set(withmac, o.intf, "ip", gip)
  IN  \/ /\ Len(argv) <= 2 /\ UNCHANGED netif /\ Done(argv, OK, FALSE)
      \/ /\ Len(argv) > 2 /\ o.badarg
         /\ UNCHANGED netif /\ Done(argv, ERROR, TRUE)
      \/ /\ Len(argv) > 2 /\ ~o.badarg /\ gip # ZERO
         /\ netif' = StaticTail(withip, o, gip) /\ Done(argv, OK, o.refused)
      \/ /\ Len(argv) > 2 /\ ~o.badarg /\ gip = ZERO
         /\ \/ DhcpMayFail /\ netif' = withip /\ Done(argv, ERROR, o.refused)
               \* dhcpc_open() returns NULL, or dhcpc_request() fails
            \/ \E l \in Leases :
                 /\ netif' = LET a == Set(withip, o.intf, "ip", l.ip)
                                 b == IF l.netmask # ZERO THEN Set(a, o.intf, "mask", l.netmask) ELSE a
                             IN  IF l.router # ZERO THEN Set(b, o.intf, "gw", l.router) ELSE b
                 /\ Done(argv, OK, o.refused)

(* cmd_ifup / cmd_ifdown: with one argument, netlib_ifup/ifdown on it.    *)
cmd_ifupdown(argv, up) ==
  \/ /\ Len(argv) # 2 /\ UNCHANGED netif /\ Done(argv, OK, FALSE)
  \/ /\ Len(argv) = 2
     /\ netif' = Set(netif, argv[2], "up", up)
     /\ Done(argv, IF argv[2] \in Interfaces THEN OK ELSE ERROR, FALSE)

-----------------------------------------------------------------------------
(* tftpc_parseargs(), which cmd_get ("ftp_get") calls.  getopt() and       *)
(* netlib_ipaddrconv() are libraries outside the repository.  The model    *)
(* takes getopt(":bnf:h:") to scan "-x" words from argv[1] on until the    *)
(* first word that is no option; f and h take the next word, whatever it   *)
(* is, and report ':' when there is none, which ends the scan; another     *)
(* letter reports '?'.  netlib_ipaddrconv() accepts the dotted quads       *)
(* inet_addr() accepts.  The lines carry one option per word.  The result *)
(* is the set of outcomes: strdup() may fail when destpath is derived.    *)
TftpArgs0 == [binary |-> FALSE, allocated |-> FALSE, destpath |-> NULL, srcpath |-> NULL,
              ipaddr |-> ZERO, badarg |-> FALSE, optind |-> 0, msgs |-> {}]
IsOptWord(w) == Len(w) = 2 /\ Ch(w, 1) = "-"
RECURSIVE GetOpts(_, _, _)
\* The getopt() loop of tftpc_parseargs from argv index i (C index i - 1).
GetOpts(argv, i, a) ==
  LET w == argv[i]
      opt == Ch(w, 2)
      report(m) == [a EXCEPT !.badarg = TRUE, !.msgs = @ \cup {m}]
  IN  IF i > Len(argv) \/ ~IsOptWord(w) THEN [a EXCEPT !.optind = i - 1]
      ELSE IF opt \in {"b", "n"} THEN GetOpts(argv, i + 1, [a EXCEPT !.binary = (opt = "b")])
      ELSE IF opt \in {"f", "h"} /\ i = Len(argv) THEN [report("required") EXCEPT !.optind = i]
      ELSE IF opt = "f" THEN GetOpts(argv, i + 2, [a EXCEPT !.destpath = argv[i + 1]])
      ELSE IF opt = "h"
           THEN GetOpts(argv, i + 2, IF IsDottedQuad(argv[i + 1])
                                     THEN [a EXCEPT !.ipaddr = QuadOf(argv[i + 1])]
                                     ELSE report("invalid"))
      ELSE GetOpts(argv, i + 1, report("invalid"))

\* basename(): the last component of a path, trailing slashes dropped.
RECURSIVE StripSlash(_)
StripSlash(p) == IF Len(p) > 1 /\ Ch(p, Len(p)) = "/" THEN StripSlash(SubSeq(p, 1, Len(p) - 1)) ELSE p
BaseName(p) ==
  LET q == StripSlash(p)
      cut == {k \in 1 .. Len(q) : Ch(q, k) = "/"}
      at == CHOOSE k \in cut : \A m \in cut : m <= k
  IN  IF q = "/" \/ cut = {} THEN q ELSE SubSeq(q, at + 1, Len(q))

TftpFail(msgs) == [ret |-> ERROR, msgs |-> msgs, args |-> NULL]
TftpArgs(a) == [binary |-> a.binary, allocated |-> a.allocated, destpath |-> a.destpath,
                srcpath |-> a.srcpath, ipaddr |-> a.ipaddr]

\* Mutant: "optind <= argc - 1" takes the next word as srcpath and lets
\* extra words through.
tftpc_parseargs_toomany(argv) ==
  LET a == GetOpts(argv, 2, TftpArgs0)
      argc == Len(argv)
      b == [a EXCEPT !.srcpath = argv[a.optind + 1]]
  IN  IF a.badarg THEN {TftpFail(a.msgs)}
      ELSE IF a.optind >= argc THEN {TftpFail({"required"})}
      ELSE IF a.ipaddr = ZERO THEN {TftpFail({"required"})}
      ELSE IF b.destpath # NULL THEN {[ret |-> OK, msgs |-> {}, args |-> TftpArgs(b)]}
      ELSE {TftpFail({"nomem"}),
            [ret |-> OK, msgs |-> {},
             args |-> TftpArgs([b EXCEPT !.destpath = BaseName(b.srcpath), !.allocated = TRUE])]}

tftpc_parseargs(argv) ==
  LET a == GetOpts(argv, 2, TftpArgs0)
      argc == Len(argv)
      b == [a EXCEPT !.srcpath = argv[a.optind + 1]]
  IN  IF a.badarg THEN {TftpFail(a.msgs)}
      ELSE IF a.optind >= argc THEN {TftpFail({"required"})}
      ELSE IF a.optind < argc - 1 THEN {TftpFail({"toomany"})}
      ELSE IF a.ipaddr = ZERO THEN {TftpFail({"required"})}
      ELSE IF b.destpath # NULL THEN {[ret |-> OK, msgs |-> {}, args |-> TftpArgs(b)]}
      ELSE {TftpFail({"nomem"}),
            [ret |-> OK, msgs |-> {},
             args |-> TftpArgs([b EXCEPT !.destpath = BaseName(b.srcpath), !.allocated = TRUE])]}

(* The ftp_get lines typed at the shell:        up to MaxOpts options,     *)
(* each -b, -n, -f <path>, -h <text> or an unknown -x, then the operand    *)
(* words, which do not start with "-".  An option that takes a value may  *)
(* come last with none, on a line without operands.                       *)
TftpOptions ==
  {[o |-> "b", v |-> NULL], [o |-> "n", v |-> NULL], [o |-> "x", v |-> NULL]}
  \cup {[o |-> "f", v |-> p] : p \in TftpPaths} \cup {[o |-> "h", v |-> h] : h \in TftpHosts}
OptWords(op) == IF op.v = NULL THEN <<"-" \o op.o>> ELSE <<"-" \o op.o, op.v>>
RECURSIVE Words(_)
Words(opts) == IF opts = <<>> THEN <<>> ELSE OptWords(Head(opts)) \o Words(Tail(opts))
TftpLines ==
  { [opts |-> opts, ops |-> ops, dangling |-> d] :
      opts \in UNION {[1 .. n -> TftpOptions] : n \in 0 .. MaxOpts},
      ops \in UNION {[1 .. n -> {p \in TftpPaths : Ch(p, 1) # "-"}] : n \in 0 .. 2},
      d \in {NULL, "f", "h"} }
GetLine(l) ==
  <<"ftp_get">> \o Words(l.opts) \o (IF l.dangling = NULL THEN <<>> ELSE <<"-" \o l.dangling>>) \o l.ops
IsTftpLine(l) == l.dangling # NULL => l.ops = <<>>

(* ftp_get (cmd_get) as far as it is compiled: it returns ERROR when      *)
(* tftpc_parseargs() does.  The rest of cmd_get does not compile (a ";"   *)
(* is missing after char filename[30]) and changes no interface.  The     *)
(* ghost last keeps the line and the outcomes tftpc_parseargs allows.     *)
(* tftpc_parseargs reads no interface, so the model types an ftp_get line *)
(* only as the first command: every line is still checked, and the state *)
(* space does not multiply by the lines.                                  *)
ftp_get(l) ==
  LET outs == tftpc_parseargs(GetLine(l))
  IN  /\ last.argv = <<>>
      /\ UNCHANGED netif
      /\ \E out \in outs :
           last' = [argv |-> GetLine(l), ret |-> out.ret, rejected |-> FALSE, line |-> l, outs |-> outs]

Init ==
  /\ netif = [i \in Interfaces |-> [ip |-> ZERO, mask |-> ZERO, gw |-> ZERO,
                                    mac |-> NoMac, up |-> FALSE]]
  /\ last = [argv |-> <<>>, ret |-> OK, rejected |-> FALSE, line |-> NULL, outs |-> {}]

Next ==
  \/ \E argv \in Commands :
       \/ argv[1] = "ifconfig" /\ cmd_ifconfig(argv)
       \/ argv[1] = "ifup" /\ cmd_ifupdown(argv, TRUE)
       \/ argv[1] = "ifdown" /\ cmd_ifupdown(argv, FALSE)
  \/ \E l \in TftpLines : IsTftpLine(l) /\ ftp_get(l)

Spec == Init /\ [][Next]_vars

-----------------------------------------------------------------------------
TypeOK ==
  /\ netif \in [Interfaces -> [ip : Addr, mask : Addr, gw : Addr,
                               mac : {NoMac} \cup {GoodMacs[t] : t \in DOMAIN GoodMacs},
                               up : BOOLEAN]]
  /\ last.ret \in {OK, ERROR} /\ last.rejected \in BOOLEAN

(* A command the shell reports as failed (ERROR), or one carrying an      *)
(* option cmd_ifconfig refuses (a missing value, "inet6" in an IPv4-only  *)
(* build, a malformed "hw" MAC), leaves every interface as it was.        *)
RejectedLeavesConfig ==
  [][(last'.ret = ERROR \/ last'.rejected) => netif' = netif]_vars


(* What the comments of tftpc_parseargs say of a line: a refused option   *)
(* ("-x", an -h text that is no address) is invalid, a missing value is   *)
(* required, and either makes the command fail; otherwise there must be   *)
(* exactly one source path and a host address; the last of -b and -n      *)
(* picks the mode (text by default), the last -f and -h give the          *)
(* destination and host, and with no -f the destination is a copy of the  *)
(* source's basename, whose allocation may fail.                          *)
GetExpected(l) ==
  LET ks(P(_)) == {k \in DOMAIN l.opts : P(l.opts[k])}
      lastOf(P(_)) == LET K == ks(P) IN l.opts[CHOOSE k \in K : \A m \in K : m <= k]
      refused == ks(LAMBDA op : op.o = "x" \/ (op.o = "h" /\ ~IsDottedQuad(op.v)))
      hosts == ks(LAMBDA op : op.o = "h")
      modes == ks(LAMBDA op : op.o \in {"b", "n"})
      dests == ks(LAMBDA op : op.o = "f")
      host == IF hosts = {} THEN ZERO ELSE QuadOf(lastOf(LAMBDA op : op.o = "h").v)
      args(dest, alloc) ==
        [binary |-> modes # {} /\ lastOf(LAMBDA op : op.o \in {"b", "n"}).o = "b",
         allocated |-> alloc, destpath |-> dest, srcpath |-> l.ops[1], ipaddr |-> host]
  IN  IF refused # {} \/ l.dangling # NULL
      THEN {TftpFail((IF refused # {} THEN {"invalid"} ELSE {})
                     \cup (IF l.dangling # NULL THEN {"required"} ELSE {}))}
      ELSE IF l.ops = <<>> THEN {TftpFail({"required"})}
      ELSE IF Len(l.ops) > 1 THEN {TftpFail({"toomany"})}
      ELSE IF host = ZERO THEN {TftpFail({"required"})}
      ELSE IF dests # {} THEN {[ret |-> OK, msgs |-> {}, args |-> args(lastOf(LAMBDA op : op.o = "f").v, FALSE)]}
      ELSE {TftpFail({"nomem"}), [ret |-> OK, msgs |-> {}, args |-> args(BaseName(l.ops[1]), TRUE)]}

(* tftpc_parseargs, with its getopt() scan, gives each ftp_get line the   *)
(* outcomes its comments describe: the same return value, messages and    *)
(* parsed arguments.                                                      *)
GetArgsAsDocumented ==
  last.argv # <<>> /\ last.argv[1] = "ftp_get" => last.outs = GetExpected(last.line)
=============================================================================
