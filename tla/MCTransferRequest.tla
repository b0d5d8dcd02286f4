-------------------------- MODULE MCTransferRequest --------------------------
(* Instances of TransferRequest for TLC: one product, two destinations.      *)
EXTENDS TransferRequest, TLC

CONSTANTS r1, r2, u1, u2, x1, north, south

To(d, n) == [product |-> x1, dest |-> d, qty |-> n]

\* One line, two lines, and two lines for the same product and destination.
SomeContents == {<<To(north, 2)>>, <<To(north, 2), To(south, 1)>>,
                 <<To(north, 1), To(north, 1)>>}
TwoInStock == x1 :> 2

UserSymmetry == Permutations(User)

==============================================================================
