CONSTANTS
  s1 = s1  s2 = s2  c1 = c1  c2 = c2
  Servers = {s1, s2}
  Clients = {c1, c2}
  NoPeer = NoPeer
  MaxFd = 3
  Queues <- OneQueue
  BorrowFactor <- FiveTwo
  PendJobs <- SomeJobs
  Simulate = TRUE
  MayBeKilled = FALSE
  MaxGiven = 1
  NumMachines <- OneMachine
  Slots = {0}
  Mortal = {}
  Killable = {}
  Request <- AskBoth
SPECIFICATION Spec
SYMMETRY SymmetricServers
INVARIANTS TypeOK AnswersOK ReplyMatches ReadyIsRegistered BootReachesServer
CHECK_DEADLOCK TRUE
