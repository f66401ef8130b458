CONSTANTS
  s1 = s1  s2 = s2  c1 = c1  c2 = c2
  Servers = {s1}
  Clients = {}
  NoPeer = NoPeer
  MaxFd = 3
  Queues <- OneQueue
  BorrowFactor <- FiveTwo
  PendJobs <- FiveJobs
  Simulate = TRUE
  MayBeKilled = FALSE
  MaxGiven = 1
  NumMachines <- OneMachine
  Slots = {0}
  Mortal = {}
  Killable = {}
  Request <- AskStatus
SPECIFICATION Spec
INVARIANT RequestsTheDifference
CHECK_DEADLOCK FALSE
