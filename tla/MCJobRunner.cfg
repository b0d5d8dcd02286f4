CONSTANTS
  j1 = j1
  j2 = j2
  j3 = j3
  root = root
  sub = sub
  Job = {j1, j2}
  DependsOn <- Follow
  Worker = {w1, w2}
  User = {u1}
  UserOps = {"requeue", "cancel"}
  Requeueable <- WizardStates
  Doneable <- FormDone
  Careful = TRUE
  Faults = {"crash", "dispatch", "handler"}
  MaxRetries = 0
  MaxRequests = 1
  Channel = {root, sub}
  Root = root
  Above <- TreeAbove
  ChannelOf <- TreeOf
  Capacity <- OneInAll
  Sequential = {}
  Throttle <- NoThrottle
  Rank <- ByName
  MaxTime = 0
SPECIFICATION Spec
INVARIANT ViewAgrees
INVARIANT CapacityRespected
PROPERTY ImplementsQueueJob
SYMMETRY WorkerSymmetry
CHECK_DEADLOCK FALSE
