---------------------------- MODULE WarehouseCost ----------------------------
(***************************************************************************)
(* The average cost of one product in each warehouse                       *)
(* (sh_warehouse_avg_costing, with the overrides of a1_sale_return and     *)
(* a1_stock_transfer_request): a line of sh.warehouse.cost per warehouse,  *)
(* and the valuation layers, of which the code reads the sums per          *)
(* warehouse.  The product's costing method is AVCO.                       *)
(*                                                                         *)
(* An amount is exact here, a pair <<numerator, denominator>> in lowest    *)
(* terms; the code computes with floats and rounds some of them to the     *)
(* currency.                                                               *)
(*                                                                         *)
(* The quantity of a move that is done may be corrected: Odoo then calls   *)
(* product_price_update_before_done, _create_in_svl and _create_out_svl    *)
(* with the difference, their forced quantity.                             *)
(*                                                                         *)
(* An operation is a transaction, whose snapshot is that of its beginning. *)
(* A move into a warehouse reads the sum of the layers of others and       *)
(* writes only the cost line, so another that moves the same stock may     *)
(* have been committed since.                                              *)
(***************************************************************************)
EXTENDS Integers, Sequences, FiniteSets, FiniteSetsExt

CONSTANTS
  Warehouse,
  Orders,     \* purchase orders: sequences of lines [qty, price]
  Qty,        \* quantities of a move that is no receipt, and of corrections
  Price,      \* prices from elsewhere: of sale order lines, or product.standard_price
  Extra,      \* landed cost of a receipt, and what a revaluation adds
  MaxOps      \* bound of the model: number of operations

ASSUME CostAssumption ==
  /\ \A o \in Orders : o \in Seq([qty : Nat \ {0}, price : Nat])
  /\ Qty \subseteq Nat \ {0}
  /\ Price \subseteq Nat /\ Extra \in Nat \ {0} /\ MaxOps \in Nat

NoCost == <<>>   \* there is no line for the warehouse
NoMove == 0      \* of a layer that no done move into a warehouse has

VARIABLES
  cost,      \* sh.warehouse.cost
  quantity,  \* sum of the quantities of the layers of a warehouse
  value,     \* sum of their values
  onhand,    \* sum of the quants of a warehouse
  transit,   \* units of transfer requests between two warehouses that have not arrived
  done,      \* moves into warehouses that are done, and what gives each its price
  layers,    \* the layers that entered, oldest first: their move and remaining_qty
  sold,      \* deliveries that are done, with the worth of their layers and of the first
  reads,     \* quantities of the layers of a warehouse that open transactions have read
  ops

vars == <<cost, quantity, value, onhand, transit, done, layers, sold, reads, ops>>

------------------------------------------------------------------------------
(* Amounts                                                                   *)

Abs(n) == IF n < 0 THEN -n ELSE n

\* Of a pair of numbers, by Euclid's algorithm.
gcd[p \in Nat \X Nat] == IF p[2] = 0 THEN p[1] ELSE gcd[<<p[2], p[1] % p[2]>>]

Amount(n, d) ==
  LET g == gcd[<<Abs(n), Abs(d)>>]
  IN  IF d < 0 THEN <<-(n \div g), Abs(d) \div g>> ELSE <<n \div g, d \div g>>

Plus(a, b) == Amount(a[1] * b[2] + b[1] * a[2], a[2] * b[2])
Times(a, n) == Amount(a[1] * n, a[2])
Over(a, n) == Amount(a[1], a[2] * n)

\* v and the sums of v and the first amounts of the sequence a.
Totals(v, a) ==
  LET Sum[i \in 0..Len(a)] == IF i = 0 THEN v ELSE Plus(Sum[i - 1], a[i]) IN Sum

Amounts == Int \X (Nat \ {0})
Whole(n) == <<n, 1>>
Positive(a) == <<Abs(a[1]), a[2]>>
CostOf(w) == IF cost[w] = NoCost THEN Whole(0) ELSE cost[w]

------------------------------------------------------------------------------
(* Moves in                                                                  *)

\* n and the sums of n and the first numbers of the sequence q.
Running(n, q) ==
  LET Sum[i \in 0..Len(q)] == IF i = 0 THEN n ELSE Sum[i - 1] + q[i] IN Sum

Quantities(moves) == [i \in 1..Len(moves) |-> moves[i].qty]

\* Mutant of Averages: the quantity of the moves before is not counted.
AveragesForgetful(c, n, moves) ==
  LET After[i \in 0..Len(moves)] ==
        IF i = 0 THEN c
        ELSE Over(Plus(Times(After[i - 1], n), Times(moves[i].price, moves[i].qty)),
                  n + moves[i].qty)
  IN  After

\* product_price_update_before_done: c and the average after each move in turn;
\* n is the quantity in the layers of the warehouse before them.
Averages(c, n, moves) ==
  LET N == Running(n, Quantities(moves))
      After[i \in 0..Len(moves)] ==
        IF i = 0 THEN c
        ELSE Over(Plus(Times(After[i - 1], N[i - 1]), Times(moves[i].price, moves[i].qty)),
                  N[i])
  IN  After

\* The average would divide by zero: the whole transaction is rolled back.
Computable(n, moves) == \A i \in 1..Len(moves) : Running(n, Quantities(moves))[i] # 0

Step == ops < MaxOps /\ ops' = ops + 1

\* get_quantity_from_valuation in a transaction that will move stock into w.
Read(w) ==
  /\ Step
  /\ cost[w] # NoCost
  /\ reads' = [reads EXCEPT ![w] = @ \cup {quantity[w]}]
  /\ UNCHANGED <<cost, quantity, value, onhand, transit, done, layers, sold>>

\* What it has read: now, or before others were committed.
Known(w) == {quantity[w]} \cup reads[w]

\* product_price_update_before_done, then _create_in_svl: the average of w is updated
\* with the prices of the moves and the quantity q that was read, and each has a layer
\* of its unit cost.  Others that have read w fail when they write its line, and start
\* again.
Enter(w, q, moves) ==
  /\ Computable(q, moves)
  /\ cost' = [cost EXCEPT ![w] = Averages(CostOf(w), q, moves)[Len(moves)]]
  /\ reads' = [reads EXCEPT ![w] = {}]
  /\ quantity' = [quantity EXCEPT ![w] = Running(@, Quantities(moves))[Len(moves)]]
  /\ value' = [value EXCEPT ![w] =
                 Totals(@, [i \in 1..Len(moves) |->
                              Times(moves[i].unit, moves[i].qty)])[Len(moves)]]
  /\ onhand' = [onhand EXCEPT ![w] = Running(@, Quantities(moves))[Len(moves)]]

\* Moves into w of those quantities are done, each with its layer.
Done(w, qtys, prices) ==
  /\ done' = done \o [i \in 1..Len(qtys) |-> [wh |-> w, qty |-> qtys[i], price |-> prices[i]]]
  /\ layers' = layers \o [i \in 1..Len(qtys) |-> [move |-> Len(done) + i, left |-> qtys[i]]]

\* A receipt: _get_price_unit takes the price of the purchase order line.
Receive(w, q, lines) ==
  LET prices == [i \in 1..Len(lines) |-> Whole(lines[i].price)]
  IN  /\ Step
      /\ Enter(w, q, [i \in 1..Len(lines) |-> [qty   |-> lines[i].qty,
                                               price |-> prices[i], unit |-> prices[i]]])
      /\ Done(w, Quantities(lines), prices)
      /\ UNCHANGED <<transit, sold>>

\* A move of n units into w at price c.
Single(n, c) == <<[qty |-> n, price |-> c, unit |-> Positive(c)]>>

\* _get_price_unit of a move that returns delivery i: the mean of its layers.
MeanOf(i) == IF sold[i].qty = 0 THEN Whole(0) ELSE Over(sold[i].worth, sold[i].qty)

\* A picking of the return wizard.
ReturnDelivery(w, q, i, n) ==
  /\ Step
  /\ Enter(w, q, Single(n, MeanOf(i)))
  /\ Done(w, <<n>>, <<MeanOf(i)>>)
  /\ UNCHANGED <<transit, sold>>

\* A move of a return order (a1_sale_return) brings n units: it has the price of the
\* order line where the warehouse has no cost.  Its layer is valued as m units at the
\* cost of the delivery they come from, or at that of the warehouse after the update.
Bring(w, q, n, m) ==
  \E s \in Price :
    LET price == IF CostOf(w) = Whole(0) THEN Whole(s) ELSE CostOf(w)
        after == Averages(CostOf(w), q, <<[qty |-> n, price |-> price]>>)[1]
        first == {Over(Positive(sold[i].first), sold[i].qty) :
                    i \in {j \in DOMAIN sold : sold[j].qty # 0}}
    IN  /\ Computable(q, <<[qty |-> n]>>)
        /\ \E c \in first \cup {after} :
             Enter(w, q, <<[qty |-> n, price |-> price, unit |-> Over(Times(c, m), n)]>>)

ReturnOrder(w, q, n) ==
  /\ Step
  /\ Bring(w, q, n, n)
  /\ Done(w, <<n>>, <<NoCost>>)
  /\ UNCHANGED <<transit, sold>>

\* The receipt of a transfer: the cost of the source warehouse now.
TransferIn(v, w, q, n) ==
  /\ Step
  /\ n <= transit[<<v, w>>]
  /\ Enter(w, q, Single(n, CostOf(v)))
  /\ Done(w, <<n>>, <<v>>)
  /\ transit' = [transit EXCEPT ![<<v, w>>] = @ - n]
  /\ UNCHANGED sold

------------------------------------------------------------------------------
(* Moves out                                                                 *)

\* Mutant of Consumed: a layer gives what is asked, not what it has.
ConsumedUnbounded(n) ==
  LET Left == Running(0, [i \in 1..Len(layers) |-> layers[i].left])
      Taken(i) == IF n <= Left[i - 1] THEN 0 ELSE n - Left[i - 1]
  IN  [i \in DOMAIN layers |-> [layers[i] EXCEPT !.left = @ - Taken(i)]]

\* _run_fifo: n units leave the oldest layers of the product, in whatever
\* warehouse they are.
Consumed(n) ==
  LET Left == Running(0, [i \in 1..Len(layers) |-> layers[i].left])
      Taken(i) == IF n <= Left[i - 1] THEN 0
                  ELSE IF n - Left[i - 1] < layers[i].left THEN n - Left[i - 1]
                  ELSE layers[i].left
  IN  [i \in DOMAIN layers |-> [layers[i] EXCEPT !.left = @ - Taken(i)]]

\* Mutant of Leave: the layer keeps the warehouse of the destination.
LeaveToDestination(w, n) ==
  /\ onhand' = [onhand EXCEPT ![w] = @ - n]
  /\ layers' = Consumed(n)
  /\ UNCHANGED <<cost, quantity, value, done, reads>>

\* _create_out_svl: at the cost of the warehouse.  The layer gets the warehouse
\* of the destination, which is none outside of the company, unless that cost is
\* not zero.
Leave(w, n) ==
  /\ onhand' = [onhand EXCEPT ![w] = @ - n]
  /\ layers' = Consumed(n)
  /\ IF CostOf(w) # Whole(0)
     THEN /\ quantity' = [quantity EXCEPT ![w] = @ - n]
          /\ value' = [value EXCEPT ![w] = Plus(@, Times(CostOf(w), -n))]
     ELSE UNCHANGED <<quantity, value>>
  /\ UNCHANGED <<cost, done, reads>>

\* What n units are worth in the layer of a move out of w: where w has no cost, at the
\* standard price s.
WorthOut(w, n, s) == Times(IF CostOf(w) = Whole(0) THEN Whole(s) ELSE CostOf(w), n)

Deliver(w, n) ==
  /\ Step
  /\ Leave(w, n)
  /\ \E s \in Price :
       sold' = Append(sold, [wh |-> w, qty |-> n, worth |-> WorthOut(w, n, s),
                             first |-> WorthOut(w, n, s)])
  /\ UNCHANGED transit

\* The picking out of a transfer request, to the transit location.
Export(w, v, n) ==
  /\ w # v
  /\ Leave(w, n)
  /\ transit' = [transit EXCEPT ![<<w, v>>] = @ + n]
  /\ UNCHANGED sold

\* _validate_available_qty compares with the stock of all warehouses.
TransferOut(w, v, n) ==
  /\ Step
  /\ n <= MapThenSumSet(LAMBDA u : onhand[u], Warehouse)
  /\ Export(w, v, n)

\* A plain internal transfer: the two layers it once had are commented out.
Relocate(w, v, n) ==
  /\ Step
  /\ w # v
  /\ onhand' = [onhand EXCEPT ![w] = @ - n, ![v] = @ + n]
  /\ UNCHANGED <<cost, quantity, value, transit, done, layers, sold, reads>>

\* _action_done of a replenishment move between warehouses: quants move and
\* costs change, with no layer; a new line gets the source's cost per unit moved.
Replenish(w, v, n) ==
  LET own == IF cost[v] = NoCost THEN 0 ELSE onhand[v]
      new == IF cost[v] # NoCost
             THEN Plus(Times(cost[v], own), Times(CostOf(w), n))
             ELSE CostOf(w)
  IN  /\ Step
      /\ w # v
      /\ IF cost[v] = NoCost /\ cost[w] = NoCost THEN UNCHANGED <<cost, reads>>
         ELSE /\ own + n # 0
              /\ cost' = [cost EXCEPT ![v] = Over(new, own + n)]
              /\ reads' = [reads EXCEPT ![v] = {}]
      /\ onhand' = [onhand EXCEPT ![w] = @ - n, ![v] = @ + n]
      /\ UNCHANGED <<quantity, value, transit, done, layers, sold>>

------------------------------------------------------------------------------
(* Corrections of moves that are done                                        *)

\* The quantity of done move i is changed by k; of a transfer, against what is in
\* transit.
Correct(i, k) ==
  /\ done' = [done EXCEPT ![i].qty = @ + k]
  /\ transit' = IF done[i].price \in Warehouse
                THEN [transit EXCEPT ![<<done[i].price, done[i].wh>>] = @ - k]
                ELSE transit

\* _get_price_unit of done move i, which is of no return order.
PriceOf(i) == IF done[i].price \in Warehouse THEN CostOf(done[i].price) ELSE done[i].price

\* n more units came in: they arrive as the move did, at its price now.
RaiseIn(i, q, n) ==
  /\ Step
  /\ done[i].price # NoCost
  /\ Enter(done[i].wh, q, Single(n, PriceOf(i)))
  /\ Correct(i, n)
  /\ layers' = Append(layers, [move |-> i, left |-> n])
  /\ UNCHANGED sold

\* As many, by a return order: the layer of the correction is valued once more as all
\* that the move had brought.
RaiseReturn(i, q, n) ==
  /\ Step
  /\ done[i].price = NoCost
  /\ Bring(done[i].wh, q, n, done[i].qty)
  /\ Correct(i, n)
  /\ layers' = Append(layers, [move |-> i, left |-> n])
  /\ UNCHANGED sold

\* n fewer came in: _create_out_svl of a move whose source is in no warehouse, at the
\* standard price; the layer has the warehouse of the destination.
LowerIn(i, n) ==
  LET w == done[i].wh
  IN  /\ Step
      /\ n <= done[i].qty
      /\ onhand' = [onhand EXCEPT ![w] = @ - n]
      /\ quantity' = [quantity EXCEPT ![w] = @ - n]
      /\ \E s \in Price : value' = [value EXCEPT ![w] = Plus(@, Whole(-n * s))]
      /\ layers' = Consumed(n)
      /\ Correct(i, -n)
      /\ UNCHANGED <<cost, sold, reads>>

\* Delivery i with k more units, worth a.
Corrected(i, k, a) == [sold[i] EXCEPT !.qty = @ + k, !.worth = Plus(@, a)]

\* n more were delivered: as a delivery.
RaiseDelivery(i, n) ==
  LET w == sold[i].wh
  IN  /\ Step
      /\ Leave(w, n)
      /\ \E s \in Price :
           sold' = [sold EXCEPT ![i] = Corrected(i, n, WorthOut(w, n, s))]
      /\ UNCHANGED transit

\* n fewer left w: no cost is updated, as the move is not in, and the layer has the
\* warehouse of the destination, none.
Regain(w, n) ==
  /\ onhand' = [onhand EXCEPT ![w] = @ + n]
  /\ layers' = Append(layers, [move |-> NoMove, left |-> n])
  /\ UNCHANGED <<cost, quantity, value, done, reads>>

\* Of a delivery, at the price of its sale order line.
LowerDelivery(i, n) ==
  /\ Step
  /\ n <= sold[i].qty
  /\ Regain(sold[i].wh, n)
  /\ \E s \in Price :
       sold' = [sold EXCEPT ![i] = Corrected(i, -n, Whole(-n * s))]
  /\ UNCHANGED transit

\* Of a transfer whose goods have not all arrived.
RaiseTransferOut(w, v, n) ==
  /\ Step
  /\ transit[<<w, v>>] > 0
  /\ Export(w, v, n)

LowerTransferOut(w, v, n) ==
  /\ Step
  /\ n <= transit[<<w, v>>]
  /\ Regain(w, n)
  /\ transit' = [transit EXCEPT ![<<w, v>>] = @ - n]
  /\ UNCHANGED sold

------------------------------------------------------------------------------
(* Changes of value                                                          *)

\* action_validate_revaluation: the wizard refuses a product without stock, and
\* a warehouse without a line; that a warehouse with a line is empty it does not.
Revalue(w) ==
  /\ Step
  /\ MapThenSumSet(LAMBDA v : quantity[v], Warehouse) > 0
  /\ \E i \in DOMAIN layers : layers[i].left > 0
  /\ cost[w] # NoCost
  /\ value' = [value EXCEPT ![w] = Plus(@, Whole(Extra))]
  /\ cost' = [cost EXCEPT ![w] =
                Plus(@, IF quantity[w] > 0 THEN Over(Whole(Extra), quantity[w])
                        ELSE Whole(Extra))]
  /\ reads' = [reads EXCEPT ![w] = {}]
  /\ UNCHANGED <<quantity, onhand, transit, done, layers, sold>>

\* What is left of the layers of done move i.
Remaining(i) ==
  Running(0, [k \in 1..Len(layers) |-> IF layers[k].move = i THEN layers[k].left
                                      ELSE 0])[Len(layers)]

\* button_validate of a landed cost over the done moves is: each bears its share
\* as far as it is still in stock, and the total is added in every warehouse
\* they went to.
Land(is) ==
  LET share(i) == Over(Whole(Extra * Remaining(i)), done[i].qty)
      total(js) == Totals(Whole(0), [i \in 1..Len(done) |->
                                      IF i \in js THEN share(i) ELSE Whole(0)])[Len(done)]
      into == {done[i].wh : i \in is}
  IN  /\ Step
      /\ is # {} /\ \A i \in is : done[i].qty # 0
      /\ \A w \in into : cost[w] = NoCost \/ quantity[w] # 0
      /\ value' = [w \in Warehouse |->
                     Plus(value[w], total({i \in is : done[i].wh = w}))]
      /\ cost' = [w \in Warehouse |->
                    IF w \in into /\ cost[w] # NoCost
                    THEN Plus(cost[w], Over(total(is), quantity[w])) ELSE cost[w]]
      /\ reads' = [w \in Warehouse |-> IF w \in into THEN {} ELSE reads[w]]
      /\ UNCHANGED <<quantity, onhand, transit, done, layers, sold>>

------------------------------------------------------------------------------
Init ==
  /\ cost = [w \in Warehouse |-> NoCost]
  /\ quantity = [w \in Warehouse |-> 0]
  /\ value = [w \in Warehouse |-> Whole(0)]
  /\ onhand = [w \in Warehouse |-> 0]
  /\ transit = [p \in Warehouse \X Warehouse |-> 0]
  /\ done = <<>>
  /\ layers = <<>>
  /\ sold = <<>>
  /\ reads = [w \in Warehouse |-> {}]
  /\ ops = 0

MoveIn(w, q) ==
  \/ \E lines \in Orders : Receive(w, q, lines)
  \/ \E n \in Qty : ReturnOrder(w, q, n)
  \/ \E i \in DOMAIN sold, n \in Qty : ReturnDelivery(w, q, i, n)
  \/ \E v \in Warehouse, n \in Qty : TransferIn(v, w, q, n)
  \/ \E i \in DOMAIN done, n \in Qty :
       done[i].wh = w /\ (RaiseIn(i, q, n) \/ RaiseReturn(i, q, n))

WarehouseStep(w) ==
  \/ Read(w)
  \/ \E q \in Known(w) : MoveIn(w, q)
  \/ \E n \in Qty : Deliver(w, n)
  \/ \E v \in Warehouse, n \in Qty : \/ TransferOut(w, v, n) \/ Relocate(w, v, n)
                                     \/ Replenish(w, v, n) \/ RaiseTransferOut(w, v, n)
                                     \/ LowerTransferOut(w, v, n)
  \/ Revalue(w)

Correction(n) ==
  \/ \E i \in DOMAIN done : LowerIn(i, n)
  \/ \E i \in DOMAIN sold : RaiseDelivery(i, n) \/ LowerDelivery(i, n)

Next ==
  \/ \E w \in Warehouse : WarehouseStep(w)
  \/ \E n \in Qty : Correction(n)
  \/ \E is \in SUBSET DOMAIN done : Land(is)

Spec == Init /\ [][Next]_vars

------------------------------------------------------------------------------
(* Properties                                                                *)

TypeOK ==
  /\ \A w \in Warehouse : cost[w] \in {NoCost} \cup Amounts /\ value[w] \in Amounts
  /\ quantity \in [Warehouse -> Int]
  /\ onhand \in [Warehouse -> Int]
  /\ transit \in [Warehouse \X Warehouse -> Int]
  /\ \A i \in DOMAIN layers : layers[i].left \in Nat
  /\ \A i \in DOMAIN sold : sold[i].qty \in Nat /\ sold[i].worth \in Amounts
  /\ reads \in [Warehouse -> SUBSET Int]
  /\ ops \in 0..MaxOps

\* What every operation keeps, of which TypeOK is a part: where moves are done there
\* is a cost line, as Enter writes it.
CostInv ==
  /\ cost \in [Warehouse -> {NoCost} \cup Amounts]
  /\ value \in [Warehouse -> Amounts]
  /\ quantity \in [Warehouse -> Int]
  /\ onhand \in [Warehouse -> Int]
  /\ transit \in [Warehouse \X Warehouse -> Int]
  /\ done \in Seq([wh : Warehouse, qty : Nat, price : Warehouse \cup Amounts \cup {NoCost}])
  /\ \A i \in DOMAIN done : cost[done[i].wh] # NoCost
  /\ layers \in Seq([move : Nat, left : Nat])
  /\ sold \in Seq([wh : Warehouse, qty : Nat, worth : Amounts, first : Amounts])
  /\ reads \in [Warehouse -> SUBSET Int]
  /\ ops \in 0..MaxOps

\* What the layers of w are worth beyond its cost line, and the units in it that
\* the layers do not count.
Drift(w) == Plus(value[w], Times(CostOf(w), -quantity[w]))
Gap(w) == onhand[w] - quantity[w]

\* The line of sh.warehouse.cost, which each operation updates by a formula of
\* its own, and the layers, which others create, come apart only where the code
\* has two sources for one amount: a move in is averaged with a quantity that a
\* transaction committed since has changed, a return order is valued at another price
\* than it is averaged with, a receipt is corrected downwards at the standard price
\* with no update of the line, a replenishment has no layers, a landed cost is
\* added in full in each of several warehouses, a revaluation changes the cost
\* of a warehouse without stock, and a negative price is made positive in the
\* layer.  Receipts, deliveries, transfers, their other corrections and the other
\* revaluations keep the difference, in any order (stock_move.py:104, :145).
CostFollowsLayers ==
  [][\A w \in Warehouse : Drift(w)' # Drift(w) =>
       \/ \E q \in reads[w] \ {quantity[w]} : MoveIn(w, q)
       \/ \E n \in Qty : ReturnOrder(w, quantity[w], n)
       \/ \E i \in DOMAIN done, n \in Qty :
            done[i].wh = w /\ \/ LowerIn(i, n) \/ RaiseReturn(i, quantity[w], n)
                              \/ RaiseIn(i, quantity[w], n) /\ PriceOf(i)[1] < 0
       \/ \E i \in DOMAIN sold, n \in Qty :
            ReturnDelivery(w, quantity[w], i, n) /\ MeanOf(i)[1] < 0
       \/ \E v \in Warehouse, n \in Qty :
            \/ Replenish(v, w, n)
            \/ TransferIn(v, w, quantity[w], n) /\ CostOf(v)[1] < 0
       \/ \E is \in SUBSET DOMAIN done :
            Cardinality({done[i].wh : i \in is}) > 1 /\ Land(is)
       \/ quantity[w] <= 0 /\ Revalue(w)]_vars

\* The quantity the average is computed with, read from the layers
\* (get_quantity_from_valuation), moves away from what is in the warehouse only
\* where the code writes no layer, by an internal transfer or a replenishment, or one
\* without the warehouse: of what leaves it at no cost, and of what is corrected not
\* to have left it.
LayersFollowStock ==
  [][\A w \in Warehouse : Gap(w)' # Gap(w) =>
       \/ \E v \in Warehouse, n \in Qty : \/ Replenish(w, v, n) \/ Replenish(v, w, n)
                                          \/ Relocate(w, v, n) \/ Relocate(v, w, n)
                                          \/ LowerTransferOut(w, v, n)
                                          \/ CostOf(w) = Whole(0)
                                             /\ (TransferOut(w, v, n) \/ RaiseTransferOut(w, v, n))
       \/ \E n \in Qty : CostOf(w) = Whole(0) /\ Deliver(w, n)
       \/ \E i \in DOMAIN sold, n \in Qty :
            sold[i].wh = w /\ \/ LowerDelivery(i, n)
                              \/ CostOf(w) = Whole(0) /\ RaiseDelivery(i, n)]_vars

==============================================================================
