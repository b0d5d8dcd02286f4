--------------------------- MODULE MCWarehouseCost ---------------------------
(* Instances of WarehouseCost for TLC: two warehouses, and three purchase    *)
(* orders: cheap, dear, and of two lines.                                    *)
EXTENDS WarehouseCost, TLC

CONSTANTS north, south

Line(n, p) == [qty |-> n, price |-> p]
ThreeOrders == {<<Line(1, 1)>>, <<Line(2, 4)>>, <<Line(1, 4), Line(2, 1)>>}

WarehouseSymmetry == Permutations(Warehouse)

==============================================================================
