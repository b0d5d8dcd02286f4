CONSTANTS
  r1 = r1
  r2 = r2
  u1 = u1
  u2 = u2
  x1 = x1
  north = north
  south = south
  Request = {r1}
  User = {u1, u2}
  Product = {x1}
  Dest = {north, south}
  Contents <- SomeContents
  OnHand <- TwoInStock
  MaxQty = 2
  MaxPickings = 4
SPECIFICATION Spec
INVARIANT TypeOK
INVARIANT DistinctLines
INVARIANT ExportIsReceivable
INVARIANT InTransitIsAccurate
SYMMETRY UserSymmetry
CHECK_DEADLOCK FALSE
