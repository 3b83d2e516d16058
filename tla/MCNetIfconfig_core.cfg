CONSTANTS
  Interfaces <- MCInterfaces
  Commands <- MCCommands
  GoodMacs <- MCGoodMacs
  NoMac = "mac0"
  Leases <- MCLeases
  TftpPaths <- MCTftpPaths
  TftpHosts <- MCTftpHosts
  MaxOpts = 3
  DhcpMayFail = FALSE
SPECIFICATION Spec
INVARIANTS TypeOK GetArgsAsDocumented
PROPERTY RejectedLeavesConfig
