CONSTANTS
  j1 = j1
  j2 = j2
  j3 = j3
  Job = {j1, j2, j3}
  DependsOn <- Join
  Worker = {w1, w2}
  User = {u1}
  UserOps = {"done"}
  Requeueable <- FormStates
  Doneable <- FormDone
  Careful = FALSE
  Faults = {}
  MaxRetries = 0
  MaxRequests = 1
SPECIFICATION FairSpec
PROPERTY ReadyChildReleased
CHECK_DEADLOCK FALSE
