CONSTANTS
  a = a
  b = b
  Company = {w1, w2}
  Session = {s1, s2}
  Part = {a, b}
  Job = {j1, j2}
  Options <- SomeOptions
  JobChannels <- SomeChannels
  MaxRestarts = 1
  MaxDepth = 2
  MaxRecords = 3
SPECIFICATION Spec
INVARIANT TypeOK
 
INVARIANT EntriesAreKept
INVARIANT OwnChannelsLimit
INVARIANT SameChannel
SYMMETRY ConfigSymmetry
CHECK_DEADLOCK FALSE
