CONSTANTS
  j1 = j1
  j2 = j2
  j3 = j3
  Job = {j1, j2, j3}
  DependsOn <- Join
  Worker = {w1, w2}
  User = {u1}
  UserOps = {"requeue", "done"}
  Requeueable <- WizardStates
  Doneable <- WizardDone
  Careful = TRUE
  Faults = {"crash", "release", "dispatch", "request", "handler"}
  MaxRetries = 0
  MaxRequests = 1
SPECIFICATION Spec
INVARIANT TypeOK
INVARIANT ParentsFirst
INVARIANT SingleExecution
PROPERTY OnlyUsersReopen
 
SYMMETRY JoinSymmetry
CHECK_DEADLOCK FALSE
