CONSTANTS
  Pids <- MCPids
  Names <- MCNames
  Commands <- MCCommands
  PidBits = 16
  NameSize = 6
SPECIFICATION Spec
INVARIANT TypeOK
INVARIANT KillReport
INVARIANT KillallReport
 
