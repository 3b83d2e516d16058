CONSTANTS
  Cmds = {c1}
  Servers = {s1, s2, s3}
  Ops <- MCOps
  Tls = TRUE
  AllocMayFail = FALSE
  TlsMayFail = FALSE
SPECIFICATION Spec
INVARIANT ServersReachable
CHECK_DEADLOCK FALSE
