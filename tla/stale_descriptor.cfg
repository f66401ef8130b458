CONSTANTS
  s1 = s1  s2 = s2  c1 = c1  c2 = c2
  Servers = {s1, s2}
  Clients = {c1}
  NoPeer = NoPeer
  MaxFd = 3
  Queues <- OneQueue
  BorrowFactor <- FiveTwo
  PendJobs <- FiveJobs
  Simulate = TRUE
  MayBeKilled = FALSE
  MaxGiven = 1
  NumMachines <- OneMachine
  Slots = {0}
  Mortal = {s1}
  Killable = {}
  Request <- AskStatus
SPECIFICATION Spec
INVARIANT BootReachesServer
CHECK_DEADLOCK FALSE
