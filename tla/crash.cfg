CONSTANTS
  s1 = s1  s2 = s2  c1 = c1  c2 = c2
  Servers = {s1, s2}
  Clients = {c1}
  NoPeer = NoPeer
  MaxFd = 2
  Queues <- TwoQueues
  BorrowFactor <- OneUnset
  PendJobs <- SomeJobs
  Simulate = TRUE
  MayBeKilled = TRUE
  MaxGiven = 1
  NumMachines <- OneMachine
  Slots = {0, 1}
  Mortal = {s1, s2}
  Killable = {c1}
  Request <- AskStatus
SPECIFICATION Spec
SYMMETRY SymmetricServers
INVARIANTS IInv StreamsOK EventsFresh NeverWaitsForAHeader Framed RegisteredOnce
CHECK_DEADLOCK FALSE
