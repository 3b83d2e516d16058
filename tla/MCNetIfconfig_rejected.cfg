CONSTANTS
  Interfaces <- MCInterfaces
  Commands <- MCCommandsAll
  GoodMacs <- MCGoodMacs
  NoMac = "mac0"
  Leases <- MCLeases
  TftpPaths <- MCTftpPaths
  TftpHosts <- MCTftpHosts
  MaxOpts = 3
  DhcpMayFail = TRUE
SPECIFICATION Spec
PROPERTY RejectedLeavesConfig
