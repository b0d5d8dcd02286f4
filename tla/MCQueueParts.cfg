CONSTANTS
  j1 = j1
  j2 = j2
  j3 = j3
  root = root
  sub = sub
  leaf = leaf
  Job = {j1, j2, j3}
  Channel = {root, sub, leaf}
  Root = root
  Above <- BranchAbove
  ChannelOf <- BranchChannelOf
  Capacity <- BranchCapacity
  Sequential = {leaf}
  Throttle <- BranchThrottle
  Rank <- ByName
  MaxTime = 2
  Object <- FewObjects
  Order <- FewOrders
  FirstEta <- FewEtas
  LastTime = 2
  Try <- Keys
  Value <- Values
  Asked = {0, 5}
  Interval = 600
  MaxTries = 11
SPECIFICATION PartsSpec
INVARIANT ChannelsTypeOK
INVARIANT ConsistentFlow
INVARIANT PassIsComplete
INVARIANT ActsAsSet
INVARIANT PostponedAsConfigured
PROPERTY NoOvertaking
PROPERTY SleepsUntilNeeded
