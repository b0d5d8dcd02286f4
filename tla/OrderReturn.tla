----------------------------- MODULE OrderReturn -----------------------------
(***************************************************************************)
(* Returns of sales and purchases (a1_sale_return, a1_purchase_return).    *)
(*                                                                         *)
(* This is about one line of one order, a sale or a purchase: the checks   *)
(* and the returns of another line are its own.  A return order is made by *)
(* the wizard of the order, by that of a vendor bill, from a picking, or   *)
(* by hand in the form; it is confirmed, its goods come back, and it may   *)
(* be cancelled.  What the line says of itself, x_returned_qty, is the     *)
(* basis of the next wizard.                                               *)
(*                                                                         *)
(* Quantities are numbers of some unit of measure.  The line has its own,  *)
(* so has the product for what is purchased (uom_po_id), and the product   *)
(* one that stock is kept in: goods are counted in the latter.  All units  *)
(* are rounded to the same step, and a quantity is a number of steps.      *)
(***************************************************************************)
EXTENDS Integers, Sequences, Functions

CONSTANTS
  User,
  Ordered,     \* quantity on the line
  Packings,    \* how many goods the unit of the line and uom_po_id may hold
  MaxReturns   \* bound of the model: number of return orders

ASSUME ReturnAssumption ==
  /\ Ordered \in Nat \ {0} /\ MaxReturns \in Nat
  /\ Packings \subseteq [line : Nat \ {0}, purchase : Nat \ {0}]

NoWizard == <<>>

VARIABLES
  side,     \* whether the order is a sale or a purchase
  packing,  \* the units of its line and product
  shipped,  \* quantities of its pickings that are done, in the unit of the line
  returns,  \* return orders
  wizard    \* the return wizard that a user has open

vars == <<side, packing, shipped, returns, wizard>>

\* Mutant of Up: the units are swapped.
UpReversed(goods, per) == goods * per

\* Uom._compute_quantity of goods, for a unit that holds as many as per: it rounds up.
Up(goods, per) ==
  CHOOSE n \in 0..goods : n * per >= goods /\ \A m \in 0..(n - 1) : m * per < goods

Goods(r) == returns[r].qty * returns[r].unit

SumOf(rs) == SumFunction([r \in rs |-> returns[r].qty])

GoodsOf(rs) == SumFunction([r \in rs |-> Goods(r)])

\* qty_delivered, qty_received
Moved == SumFunction(shipped)

Valid == {r \in DOMAIN returns : returns[r].state # "cancel"}

\* Mutant of SaleReturnedQty: only confirmed returns count.
ReturnedQtyConfirmed ==
  SumOf({r \in Valid : returns[r].linked /\ returns[r].state = "confirmed"})

\* _compute_returned_qty: x_returned_qty.  Numbers are added whatever their units.
\* Lines that a user entered in the form are not linked to those they return.
SaleReturnedQty == SumOf({r \in Valid : returns[r].linked})

\* The same of a line of a purchase, over x_purchase_returned_line_ids.
PurchaseReturnedQty == SumOf({r \in Valid : returns[r].linked})

------------------------------------------------------------------------------
(* How a return order comes about                                            *)

Ship(q) ==
  /\ Moved + q <= Ordered
  /\ shipped' = Append(shipped, q)
  /\ UNCHANGED <<side, packing, returns, wizard>>

\* The goods that are really left, whatever returns are linked to.
Left == Moved * packing.line - GoodsOf(Valid)

\* It counts for less on the line than it returns.
Undercounted(r) == returns[r].linked => Goods(r) > returns[r].qty * packing.line

\* A wizard reads what is left when it opens.  The goods that are left then, if it
\* sees all that are on returns, are for the properties only.
Open(u, of, left) ==
  /\ wizard' = [wizard EXCEPT ![u] =
       [of |-> of, left |-> left,
        truly |-> IF \E r \in Valid : Undercounted(r) THEN {} ELSE {Left}]]
  /\ UNCHANGED <<side, packing, shipped, returns>>

\* _onchange_sale_id of the wizard of a sale
OpenSaleWizard(u) == side = "sale" /\ Open(u, "order", Moved - SaleReturnedQty)

\* _onchange_purchase_id of that of a purchase
OpenPurchaseWizard(u) ==
  side = "purchase" /\ Open(u, "order", Moved - PurchaseReturnedQty)

\* _onchange_purchase_ids of that of a bill, for the orders of its lines
OpenBillWizard(u) ==
  side = "purchase" /\ Open(u, "bill", Moved - PurchaseReturnedQty)

Add(q, unit, linked) ==
  /\ Len(returns) < MaxReturns
  /\ returns' = Append(returns,
       [linked |-> linked, qty |-> q, unit |-> unit, state |-> "draft",
        demand |-> 0, back |-> 0])

Close(u) ==
  /\ wizard' = [wizard EXCEPT ![u] = NoWizard]
  /\ UNCHANGED <<side, packing, shipped>>

IsOpen(u, of) == wizard[u] # NoWizard /\ wizard[u].of = of

\* button_create_return of the wizard of a sale
SaleCreateReturn(u, q) ==
  /\ side = "sale" /\ IsOpen(u, "order")
  /\ 0 < q /\ q <= wizard[u].left
  /\ Add(q, packing.line, TRUE)
  /\ Close(u)

\* of a purchase
PurchaseCreateReturn(u, q) ==
  /\ side = "purchase" /\ IsOpen(u, "order")
  /\ 0 < q /\ q <= wizard[u].left
  /\ Add(q, packing.line, TRUE)
  /\ Close(u)

\* of a bill, which skips a selected line of quantity zero for the sake of the
\* others and makes an order of its own for each order on the bill
BillCreateReturn(u, q) ==
  /\ IsOpen(u, "bill")
  /\ IF q > 0 THEN q <= wizard[u].left /\ Add(q, packing.line, TRUE) ELSE UNCHANGED returns
  /\ Close(u)

\* action_wizard_sale_stock_picking_return of q goods: compared with what the
\* picking moved, not with what was returned of it before; zero is not refused.
\* The return is in uom_po_id.
SalePickingReturn(i, q) ==
  /\ side = "sale" /\ q <= shipped[i] * packing.line
  /\ Add(Up(q, packing.purchase), packing.purchase, TRUE)
  /\ UNCHANGED <<side, packing, shipped, wizard>>

\* action_wizard_purchase_stock_picking_return
PurchasePickingReturn(i, q) ==
  /\ side = "purchase" /\ q <= shipped[i] * packing.line
  /\ Add(Up(q, packing.purchase), packing.purchase, TRUE)
  /\ UNCHANGED <<side, packing, shipped, wizard>>

\* _onchange_x_origin_sale_id: the form copies the lines of the order, with
\* product_qty for the quantity and no unit: the product's own.
SaleFormReturn ==
  /\ side = "sale" /\ Add(Ordered * packing.line, 1, FALSE)
  /\ UNCHANGED <<side, packing, shipped, wizard>>

\* _onchange_x_origin_purchase_id, with the unit
PurchaseFormReturn ==
  /\ side = "purchase" /\ Add(Ordered, packing.line, FALSE)
  /\ UNCHANGED <<side, packing, shipped, wizard>>

------------------------------------------------------------------------------
(* Its life                                                                  *)

Update(r, new) ==
  /\ returns' = [returns EXCEPT ![r] = new]
  /\ UNCHANGED <<side, packing, shipped, wizard>>

\* The units there are of the product.
Units == {1, packing.line, packing.purchase}

\* The user edits the line of a draft; write refuses other products only.  Bound of
\* the model, in ChangeQty below: no more goods than were ordered.
SaleChangeQty(r, q, unit) ==
  /\ side = "sale" /\ returns[r].state = "draft"
  /\ Update(r, [returns[r] EXCEPT !.qty = q, !.unit = unit])

PurchaseChangeQty(r, q, unit) ==
  /\ side = "purchase" /\ returns[r].state = "draft"
  /\ Update(r, [returns[r] EXCEPT !.qty = q, !.unit = unit])

\* action_confirm of a sale: its picking goes the other way.  What is expected and
\* what comes back are goods.
Confirm(r) ==
  /\ side = "sale" /\ returns[r].state = "draft"
  /\ Update(r, [returns[r] EXCEPT !.state = "confirmed", !.demand = Goods(r)])

\* button_confirm of a purchase only asks for an approval,
Send(r) ==
  /\ side = "purchase" /\ returns[r].state = "draft"
  /\ Update(r, [returns[r] EXCEPT !.state = "to approve"])

\* and button_approve creates the picking.
Approve(r) ==
  /\ returns[r].state = "to approve"
  /\ Update(r, [returns[r] EXCEPT !.state = "confirmed", !.demand = Goods(r)])

\* Mutant of Validate: more may come back than is expected.
ValidateRedundant(r, q, backorder) ==
  /\ returns[r].demand > 0
  /\ Update(r, [returns[r] EXCEPT !.back = @ + q,
                                  !.demand = IF backorder THEN @ - q ELSE 0])

\* button_validate of its picking: no more than the demand.
Validate(r, q, backorder) ==
  /\ q <= returns[r].demand
  /\ Update(r, [returns[r] EXCEPT !.back = @ + q,
                                  !.demand = IF backorder THEN @ - q ELSE 0])

\* Odoo cancels the open picking; it refuses a purchase whose goods have moved,
\* but not a sale.
Cancel(r) ==
  /\ returns[r].state \in {"draft", "to approve", "confirmed"}
  /\ side = "purchase" => returns[r].back = 0
  /\ Update(r, [returns[r] EXCEPT !.state = "cancel", !.demand = 0])

\* Set to draft.  Bound of the model: not once goods have come back, because
\* what Odoo would expect again then is its own affair.
Redraft(r) ==
  /\ returns[r].state = "cancel" /\ returns[r].back = 0
  /\ Update(r, [returns[r] EXCEPT !.state = "draft"])

------------------------------------------------------------------------------
Init ==
  /\ side \in {"sale", "purchase"} /\ packing \in Packings
  /\ shipped = <<>>
  /\ returns = <<>>
  /\ wizard = [u \in User |-> NoWizard]

WizardStep(u) ==
  \/ OpenSaleWizard(u) \/ OpenPurchaseWizard(u) \/ OpenBillWizard(u)
  \/ \E q \in 0..Ordered :
       SaleCreateReturn(u, q) \/ PurchaseCreateReturn(u, q) \/ BillCreateReturn(u, q)

PickingReturn ==
  \E i \in DOMAIN shipped, q \in 0..(Ordered * packing.line) :
    SalePickingReturn(i, q) \/ PurchasePickingReturn(i, q)

FormReturn == SaleFormReturn \/ PurchaseFormReturn

ChangeQty(r) ==
  \E q \in 1..Ordered, unit \in Units :
    /\ q * unit <= Ordered * packing.line
    /\ SaleChangeQty(r, q, unit) \/ PurchaseChangeQty(r, q, unit)

OrderStep ==
  \/ \E q \in 1..Ordered : Ship(q)
  \/ PickingReturn \/ FormReturn

ReturnStep(r) ==
  \/ ChangeQty(r)
  \/ \E q \in 1..Goods(r), b \in BOOLEAN : Validate(r, q, b)
  \/ Confirm(r) \/ Send(r) \/ Approve(r) \/ Cancel(r) \/ Redraft(r)

Next ==
  \/ \E u \in User : WizardStep(u)
  \/ \E r \in DOMAIN returns : ReturnStep(r)
  \/ OrderStep

Spec == Init /\ [][Next]_vars

------------------------------------------------------------------------------
(* Properties                                                                *)

Return == [linked : BOOLEAN, qty : 0..(Ordered * packing.line), unit : Units,
           state : {"draft", "to approve", "confirmed", "cancel"},
           demand : Nat, back : Nat]

TypeOK ==
  /\ side \in {"sale", "purchase"} /\ packing \in Packings
  /\ shipped \in Seq(1..Ordered) /\ Moved <= Ordered
  /\ returns \in Seq(Return)
  /\ wizard \in [User -> {NoWizard} \cup
                   [of : {"order", "bill"}, left : Int, truly : SUBSET Int]]

Overdrawn == Left < 0

\* A wizard that was opened before another return was made or changed, or that
\* cannot see one that was entered in the form or is in a larger unit.
Misled(u) == wizard[u] # NoWizard /\ wizard[u].truly # {Left}

\* More goods are put on return orders than were moved only by what the wizards do
\* not guard against: such a wizard, a picking, a user who enters, edits or reopens
\* a return.  A wizard alone returns no more than is left, however many returns, in
\* whatever states, came before it
\* (sale_return_wizard.py:95, purchase_return_wizard.py:103, :109 of the bill's).
WizardsReturnWhatIsLeft ==
  [][Overdrawn' /\ ~Overdrawn =>
       \/ \E u \in User : Misled(u) /\ WizardStep(u)
       \/ PickingReturn \/ FormReturn
       \/ \E r \in DOMAIN returns : Redraft(r) \/ ChangeQty(r)]_vars

\* More goods came back by r than are on it, or it is cancelled and counts for none.
Uncounted(r) ==
  returns[r].back > IF returns[r].state = "cancel" THEN 0 ELSE Goods(r)

\* Goods that came back are on a return order that counts in x_returned_qty, through
\* partial pickings, backorders, edits and cancellations, until a user cancels a
\* return of a sale whose goods have come back: they can then be returned again.
GoodsAreCounted ==
  [][\A r \in DOMAIN returns : Uncounted(r)' /\ ~Uncounted(r) =>
       side = "sale" /\ returns[r].back > 0 /\ Cancel(r)]_vars

------------------------------------------------------------------------------
(* Inductive strengthenings, for the proofs of module OrderReturnProofs       *)

\* What is expected to come back by a return, and what has, is on it.
ReturnsInv ==
  \A r \in DOMAIN returns :
    /\ returns[r].back + returns[r].demand <= Goods(r)
    /\ returns[r].state \in {"draft", "to approve"} =>
         returns[r].back = 0 /\ returns[r].demand = 0
    /\ returns[r].state = "cancel" => returns[r].demand = 0

\* A wizard that sees all returns offers no more than is left.
WizardInv ==
  \A u \in User : wizard[u] # NoWizard =>
    \A goods \in wizard[u].truly : wizard[u].left * packing.line <= goods

==============================================================================
