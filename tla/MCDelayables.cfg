CONSTANTS
  Delayable = {d1, d2, d3}
  Compound = {c1, c2}
  Single = {s1}
  User = {u1}
  Key = {k1, k2}
  NoKey = NoKey
  MaxOnDone = 1
  MaxFailures = 1
SPECIFICATION Spec
INVARIANT TypeOK
INVARIANT FlatOrderKept
INVARIANT DirectRunsAll
INVARIANT OnlyGrandchildrenStranded
PROPERTY KeyedWorkIsKept
SYMMETRY DelaySymmetry
CHECK_DEADLOCK FALSE
