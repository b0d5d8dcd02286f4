CONSTANTS
  north = north
  south = south
  Warehouse = {north, south}
  Orders <- ThreeOrders
  Qty = {1, 2}
  Price = {9}
  Extra = 3
  MaxOps = 4
SPECIFICATION Spec
INVARIANT TypeOK
 
PROPERTY LayersFollowStock
SYMMETRY WarehouseSymmetry
CHECK_DEADLOCK FALSE
