CONSTANTS
  j1 = j1
  j2 = j2
  j3 = j3
  Job = {j1, j2, j3}
  DependsOn <- Join
  Worker = {w1, w2}
  User = {u1}
  UserOps = {"requeue", "cancel"}
  Requeueable <- FormStates
  Doneable <- FormDone
  Careful = FALSE
  Faults = {"dispatch", "request", "handler"}
  MaxRetries = 1
  MaxRequests = 1
SPECIFICATION FairSpec
INVARIANT NoForgottenChild
INVARIANT ExecutingIsStarted
PROPERTY EnqueuedMovesOn
PROPERTY ReadyChildReleased
CHECK_DEADLOCK FALSE
