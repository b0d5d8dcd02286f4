CONSTANTS
  j1 = j1
  j2 = j2
  j3 = j3
  root = root
  sub = sub
  Job = {j1, j3}
  DependsOn <- Apart
  Worker = {w1, w2}
  User = {u1}
  UserOps = {"requeue", "cancel"}
  Requeueable <- FormStates
  Doneable <- FormDone
  Careful = FALSE
  Faults = {"request"}
  MaxRetries = 2
  MaxRequests = 1
  Channel = {root, sub}
  Root = root
  Above <- TreeAbove
  ChannelOf <- TreeOf
  Capacity <- OneInAll
  Sequential = {}
  Throttle <- NoThrottle
  Rank <- ByName
  MaxTime = 0
SPECIFICATION FairSpec
PROPERTY NoStarvation
CHECK_DEADLOCK FALSE
