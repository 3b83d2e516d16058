CONSTANTS
  t1 = t1
  t2 = t2
  g1 = g1
  g2 = g2
  d1 = d1
  d2 = d2
  NoTask = NoTask
  NoDev = NoDev
  NoFile = NoFile
  Tasks <- MCTasks
  GroupOf <- MCTwoGroups
  MaxPipes = 1
  Devs <- MCDevs1
  Files <- MCFiles2
  PipeSize = 1
  SemWaitCanFail = TRUE

SPECIFICATION FairSpec

PROPERTY SlotEventuallyReclaimed
