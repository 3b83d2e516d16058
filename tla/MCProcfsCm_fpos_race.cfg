CONSTANTS
  t1 = t1
  t2 = t2
  dh1 = dh1
  Tasks <- MCTasks2
  FileHandles <- MCFiles
  DirHandles <- MCDirs
  Paths <- MCPaths
  OFlags <- MCOFlags
  BufLens <- MCBufLens
  IfaceName <- WicedIface
  NwBearer = 21
  RssiValues <- WicedRssiFixed
  BitrateValues <- WicedRate
  IpTexts <- MCIpTexts
  IpStrLen = 16
SPECIFICATION Spec
INVARIANT ReadSnapshot
