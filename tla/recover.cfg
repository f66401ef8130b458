CONSTANTS
  s1 = s1  s2 = s2  c1 = c1  c2 = c2
  Servers = {s1}
  Clients = {c1, c2}
  NoPeer = NoPeer
  MaxFd = 3
  Queues <- OneQueue
  BorrowFactor <- FiveTwo
  PendJobs <- NoneOrFive
  Simulate = TRUE
  MayBeKilled = TRUE
  MaxGiven = 1
  NumMachines <- OneMachine
  Slots = {0}
  Mortal = {s1}
  Killable = {}
  Request <- AskQueueToo
SPECIFICATION FairSpec
CHECK_DEADLOCK FALSE
PROPERTIES
  ReturnsToEpoll ClosedPeersReaped WorkloadChecked
  ClientsFinish ServersSettle RequestsRead DeathNoticed
