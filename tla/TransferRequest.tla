--------------------------- MODULE TransferRequest ---------------------------
(***************************************************************************)
(* Stock transfer requests (a1_stock_transfer_request): a document with a  *)
(* workflow, the pickings that carry its goods from the source warehouse   *)
(* to the transit location ("out") and from there to the destinations      *)
(* ("in"), and the users who work on both.                                 *)
(*                                                                         *)
(* The handlers of the buttons test no state: the form hides a button that *)
(* does not fit the state it was loaded with.  A user's page is therefore  *)
(* a variable, and it may be older than the row.  Requests are internal    *)
(* ones, the only type the field transfer_request_type admits; all of them *)
(* leave from one source warehouse.  No product is tracked by serials.     *)
(***************************************************************************)
EXTENDS Integers, Sequences, FiniteSets, SequencesExt

CONSTANTS
  Request, User, Product, Dest,
  Contents,      \* the request_line_ids that users enter: sequences of lines
  OnHand,        \* quantity of each product in the warehouses at first
  MaxQty,        \* bound of the model: quantities
  MaxPickings    \* bound of the model: number of pickings

Line == [product : Product, dest : Dest, qty : 1..MaxQty]

ASSUME TransferAssumption ==
  /\ MaxQty \in Nat /\ MaxPickings \in Nat
  /\ Contents \subseteq Seq(Line)
  /\ OnHand \in [Product -> Nat]

RequestStates == {"draft", "posted", "manager_approved", "am_wh_approved",
                  "in_transit", "done", "reject", "cancel"}
PickingStates == {"open", "done", "cancel"}
NoRow == "none"
NoPage == [req |-> NoRow, state |-> NoRow]

VARIABLES
  state,       \* state of each request; NoRow before creation, after deletion
  lines,       \* request_line_ids
  pickings,    \* the stock.picking rows of the requests
  stock,       \* quantity of each product on hand in all warehouses together
  page         \* what each user's form shows: a request and a state of it

vars == <<state, lines, pickings, stock, page>>

Distinct(ls) ==
  \A i, k \in DOMAIN ls :
    ls[i].product = ls[k].product /\ ls[i].dest = ls[k].dest => i = k

Of(r, ps, kind) == {p \in Range(ps) : p.req = r /\ p.kind = kind}

\* The pickings at the indices is, in an order that does not matter.
At(is) == LET order == SetToSeq(is) IN [k \in DOMAIN order |-> pickings[order[k]]]

------------------------------------------------------------------------------
(* The document                                                              *)

Create(r, ls) ==
  /\ state[r] = NoRow
  /\ state' = [state EXCEPT ![r] = "draft"]
  /\ lines' = [lines EXCEPT ![r] = ls]
  /\ UNCHANGED <<pickings, stock, page>>

\* A user loads the form of a request.
Open(u, r) ==
  /\ state[r] # NoRow
  /\ page' = [page EXCEPT ![u] = [req |-> r, state |-> state[r]]]
  /\ UNCHANGED <<state, lines, pickings, stock>>

\* The deletion of a line takes its moves along (ondelete='cascade').
WithoutLines(ps, r, n) ==
  LET Kept(p) == IF p.req = r
                 THEN [p EXCEPT !.moves = {m \in @ : m.line <= n}] ELSE p
  IN  [i \in DOMAIN ps |-> Kept(ps[i])]

\* Mutant of Edit: write does not validate the lines.
EditUnchecked(u, ls) ==
  LET r == page[u].req
  IN  /\ page[u].state \in {"draft", "posted", "manager_approved"}
      /\ state[r] # NoRow
      /\ lines' = [lines EXCEPT ![r] = ls]
      /\ pickings' = WithoutLines(pickings, r, Len(ls))
      /\ page' = [page EXCEPT ![u] = [req |-> r, state |-> state[r]]]
      /\ UNCHANGED <<state, stock>>

\* write, with request_line_ids among the values: the form lets a user change
\* the lines before the last approval, and duplicates roll the change back.
Edit(u, ls) ==
  LET r == page[u].req
  IN  /\ page[u].state \in {"draft", "posted", "manager_approved"}
      /\ state[r] # NoRow
      /\ Distinct(ls)
      /\ lines' = [lines EXCEPT ![r] = ls]
      /\ pickings' = WithoutLines(pickings, r, Len(ls))
      /\ page' = [page EXCEPT ![u] = [req |-> r, state |-> state[r]]]
      /\ UNCHANGED <<state, stock>>

\* A button whose handler writes the state, whatever it was.
Press(u, shown, target) ==
  LET r == page[u].req
  IN  /\ page[u].state \in shown
      /\ state[r] # NoRow
      /\ state' = [state EXCEPT ![r] = target]
      /\ page' = [page EXCEPT ![u] = [req |-> r, state |-> target]]
      /\ UNCHANGED <<lines, pickings, stock>>

ActionDraft(u) == Press(u, {"reject", "cancel"}, "draft")
ActionPost(u) == Press(u, {"draft"}, "posted") /\ Distinct(lines[page[u].req])
ActionManagerApprove(u) == Press(u, {"posted"}, "manager_approved")
ActionReject(u) == Press(u, {"posted", "manager_approved"}, "reject")
ActionCancel(u) ==
  Press(u, RequestStates \ {"am_wh_approved", "done", "cancel"}, "cancel")

\* unlink: the pickings of the request go with it.
Unlink(r) ==
  /\ state[r] \in {"draft", "cancel"}
  /\ state' = [state EXCEPT ![r] = NoRow]
  /\ lines' = [lines EXCEPT ![r] = <<>>]
  /\ pickings' = At({i \in DOMAIN pickings : pickings[i].req # r})
  /\ page' = [u \in User |-> IF page[u].req = r THEN NoPage ELSE page[u]]
  /\ UNCHANGED <<stock>>

\* Mutant of MoveOf: the quantity is not prepared.
MoveWithoutQuantity(ls, i) ==
  [line |-> i, product |-> ls[i].product, demand |-> ls[i].qty, qty |-> 0]

\* _prepare_stock_move_vals
MoveOf(ls, i) ==
  [line |-> i, product |-> ls[i].product, demand |-> ls[i].qty, qty |-> ls[i].qty]

\* _get_picking_data_foreach_location: the moves for each destination.
MovesTo(r, d) == {MoveOf(lines[r], i) : i \in {k \in DOMAIN lines[r] : lines[r][k].dest = d}}

\* _prepare_picking, with the moves
PickingOut(r, d) ==
  [req |-> r, kind |-> "out", dest |-> d, state |-> "open", moves |-> MovesTo(r, d)]

\* _create_picking_incoming_outgoing: one picking to the transit location for
\* each destination among the lines.
PickingsOut(r) ==
  LET order == SetToSeq({lines[r][i].dest : i \in DOMAIN lines[r]})
  IN  [k \in DOMAIN order |-> PickingOut(r, order[k])]

\* The one handler of a button that does not trust the page.
CheckApproveState(r) == state[r] = "manager_approved"

\* action_am_approve: requests are approved one by one or, from the list, several
\* at once in one transaction, which is the same thing.
ActionAmApprove(r) ==
  /\ CheckApproveState(r)
  /\ pickings' = pickings \o PickingsOut(r)
  /\ Len(pickings') <= MaxPickings
  /\ state' = [state EXCEPT ![r] = "am_wh_approved"]
  /\ UNCHANGED <<lines, stock, page>>

------------------------------------------------------------------------------
(* The pickings                                                              *)

\* The user enters the quantity of a move.
SetQuantity(i, q) ==
  /\ pickings[i].state = "open"
  /\ \E m \in pickings[i].moves :
       pickings' = [pickings EXCEPT ![i] =
         [@ EXCEPT !.moves = (pickings[i].moves \ {m}) \cup {[m EXCEPT !.qty = q]}]]
  /\ UNCHANGED <<state, lines, stock, page>>

\* action_cancel of stock.picking, which these modules leave as it is.
CancelPicking(i) ==
  /\ pickings[i].state = "open"
  /\ pickings' = [pickings EXCEPT ![i] = [@ EXCEPT !.state = "cancel"]]
  /\ UNCHANGED <<state, lines, stock, page>>

\* _get_product_export_total_qty
ExportQty(p, x) ==
  SumFunction([m \in {m \in p.moves : m.product = x} |-> m.qty])

\* _check_quantity_with_transfer_request: what is received is what is expected.
MatchesDemand(p) == p.kind = "in" => \A m \in p.moves : m.qty = m.demand

\* validate_redundant_export_import
WithinDemand(p) == \A m \in p.moves : m.qty <= m.demand

\* _validate_available_qty: the warehouse it asks for, source_warehouse_id, is in
\* no form and empty, and so the stock of all warehouses counts.
Available(p) ==
  p.kind = "out" => \A x \in Product : ExportQty(p, x) <= stock[x]

\* button_validate raises no error for p; each of several sees the same stock.
MayValidate(p) ==
  p.state = "open" /\ MatchesDemand(p) /\ WithinDemand(p) /\ Available(p)

\* Mutant of PickingIn: the demand is expected, not what leaves.
PickingInOfDemand(p) ==
  [p EXCEPT !.kind = "in", !.moves = {[m EXCEPT !.qty = m.demand] : m \in @}]

\* _prepare_move_copy_values: what leaves is expected.
MoveIn(m) == [m EXCEPT !.demand = m.qty]

\* _create_picking_in, called before the picking out is done.
PickingIn(p) == [p EXCEPT !.kind = "in", !.moves = {MoveIn(m) : m \in @}]

Left(p) == {m \in p.moves : m.qty < m.demand}

\* The backorder of p: what is left of its moves.
Backorder(p) ==
  [p EXCEPT !.moves = {[m EXCEPT !.demand = m.demand - m.qty,
                                 !.qty = m.demand - m.qty] : m \in Left(p)}]

\* Mutant of CheckState: one picking out that is done is enough.
CheckStateOfAny(s, outs, ins) ==
  LET AllDone(ps) == ps # {} /\ \A p \in ps : p.state = "done"
  IN  IF AllDone(ins) THEN "done"
      ELSE IF \E p \in outs : p.state = "done" THEN "in_transit"
      ELSE s

\* _check_and_update_state, from the pickings out and in of a request.
CheckState(s, outs, ins) ==
  LET AllDone(ps) == ps # {} /\ \A p \in ps : p.state = "done"
  IN  IF AllDone(ins) THEN "done"
      ELSE IF AllDone(outs) THEN "in_transit"
      ELSE s

\* _check_and_update_transfer_request_state, once the pickings are done.
Updated(reqs) ==
  [r \in Request |->
     IF r \in reqs /\ state[r] # "done"
     THEN CheckState(state[r], Of(r, pickings', "out"), Of(r, pickings', "in"))
     ELSE state[r]]

Chosen(is, kind) == {i \in is : pickings[i].kind = kind}

Done(is) ==
  [i \in DOMAIN pickings |->
     IF i \in is THEN [pickings[i] EXCEPT !.state = "done"] ELSE pickings[i]]

PickingsIn(is) ==
  LET outs == At(Chosen(is, "out")) IN [k \in DOMAIN outs |-> PickingIn(outs[k])]

Backorders(is) ==
  LET ps == At({i \in is : Left(pickings[i]) # {}})
  IN  [k \in DOMAIN ps |-> Backorder(ps[k])]

\* Quantity of x that the chosen pickings of a kind move.
MovedQty(is, kind, x) ==
  SumFunction([i \in Chosen(is, kind) |-> ExportQty(pickings[i], x)])

\* button_validate of the pickings at the indices is, from the form of one or
\* the list of several; the user decides whether what is left is backordered.
ButtonValidate(is, backorder) ==
  /\ is # {}
  /\ \A i \in is : MayValidate(pickings[i])
  /\ pickings' = (Done(is) \o PickingsIn(is))
                    \o (IF backorder THEN Backorders(is) ELSE <<>>)
  /\ Len(pickings') <= MaxPickings
  /\ stock' = [x \in Product |-> stock[x] - MovedQty(is, "out", x) + MovedQty(is, "in", x)]
  /\ state' = Updated({pickings[i].req : i \in is})
  /\ UNCHANGED <<lines, page>>

\* Sum of a field of the moves of line n of r, over its pickings of a kind.
OfLine(p, n) == {m \in p.moves : m.line = n}

LineTotal(p, n, field) == SumFunction([m \in OfLine(p, n) |-> m[field]])

Total(r, n, kind, states, field) ==
  SumFunction([i \in {i \in DOMAIN pickings : /\ pickings[i].req = r
                                              /\ pickings[i].kind = kind
                                              /\ pickings[i].state \in states}
                 |-> LineTotal(pickings[i], n, field)])

\* _compute_quantity of line n: what its moves that are done took to the transit
\* location (export_qty) or brought from there (receive_qty).
LineQty(r, n, kind) == Total(r, n, kind, {"done"}, "qty")

------------------------------------------------------------------------------
Init ==
  /\ state = [r \in Request |-> NoRow]
  /\ lines = [r \in Request |-> <<>>]
  /\ pickings = <<>>
  /\ stock = OnHand
  /\ page = [u \in User |-> NoPage]

UserStep(u) ==
  \/ \E r \in Request : Open(u, r)
  \/ \E ls \in Contents : Edit(u, ls)
  \/ ActionDraft(u) \/ ActionPost(u) \/ ActionManagerApprove(u)
  \/ ActionReject(u) \/ ActionCancel(u)

RequestStep(r) ==
  \/ \E ls \in Contents : Create(r, ls)
  \/ ActionAmApprove(r)
  \/ Unlink(r)

PickingStep ==
  \/ \E i \in DOMAIN pickings :
       CancelPicking(i) \/ \E q \in 1..MaxQty : SetQuantity(i, q)
  \/ \E is \in SUBSET DOMAIN pickings, b \in BOOLEAN : ButtonValidate(is, b)

Next ==
  \/ \E u \in User : UserStep(u)
  \/ \E r \in Request : RequestStep(r)
  \/ PickingStep

Spec == Init /\ [][Next]_vars

------------------------------------------------------------------------------
(* Properties                                                                *)

Move == [line : Nat \ {0}, product : Product, demand : 1..MaxQty, qty : 1..MaxQty]
Picking == [req : Request, kind : {"out", "in"}, dest : Dest,
            state : PickingStates, moves : SUBSET Move]

TypeOK ==
  /\ state \in [Request -> RequestStates \cup {NoRow}]
  /\ lines \in [Request -> Seq(Line)]
  /\ pickings \in Seq(Picking)
  /\ stock \in [Product -> Int]
  /\ page \in [User -> {NoPage} \cup [req : Request, state : RequestStates]]

\* A request that has left draft has one line per product and destination,
\* whoever edits it from whatever page: create does not validate the lines, only
\* action_post and write do (stock_transfer_request.py:340, :606).
DistinctLines ==
  \A r \in Request :
    state[r] \in {"posted", "manager_approved", "am_wh_approved", "in_transit", "done"}
    => Distinct(lines[r])

\* What left the source for a line is what the pickings in expect or have
\* received for it: no goods are lost or made up in transit by backorders,
\* changed quantities and second approvals (stock_picking.py:86, :262).
ExportIsReceivable ==
  \A r \in Request : \A n \in DOMAIN lines[r] :
    LET exported == LineQty(r, n, "out")
        expected == Total(r, n, "in", PickingStates, "demand")
        arrived  == LineQty(r, n, "in")
    IN  expected = exported /\ arrived <= exported

\* A request in transit has sent all it ever planned to send and still has
\* something to receive (stock_transfer_request.py:314-317): its state follows
\* the pickings though nobody recomputes it.
InTransitIsAccurate ==
  \A r \in Request :
    state[r] = "in_transit" =>
      /\ \A p \in Of(r, pickings, "out") : p.state = "done"
      /\ \E p \in Of(r, pickings, "in") : p.state # "done"

------------------------------------------------------------------------------
(* Inductive strengthenings, for module TransferRequestProofs                *)

\* No page, no picking and no line is about a request without a row; what shows or
\* follows from a request past its draft has seen its lines distinct.
RowsInv ==
  /\ \A r \in Request :
       state[r] = NoRow => /\ \A u \in User : page[u].req = r => page[u] = NoPage
                           /\ \A i \in DOMAIN pickings : pickings[i].req # r
  /\ \A u \in User :
       page[u].state \in {"posted", "manager_approved", "am_wh_approved", "in_transit", "done"}
       => Distinct(lines[page[u].req])
  /\ \A i \in DOMAIN pickings : Distinct(lines[pickings[i].req])

\* A picking has finitely many moves, one for a line; one that is received has
\* brought what was expected.
MovesInv ==
  \A i \in DOMAIN pickings :
    /\ IsFiniteSet(pickings[i].moves)
    /\ \A m, k \in pickings[i].moves : m.line = k.line => m = k
    /\ pickings[i].kind = "in" /\ pickings[i].state = "done" =>
         \A m \in pickings[i].moves : m.qty = m.demand

DoneOuts == {i \in DOMAIN pickings : pickings[i].kind = "out" /\ pickings[i].state = "done"}
Ins == {i \in DOMAIN pickings : pickings[i].kind = "in"}

\* What p took to the transit location, q expects from there, line by line.
Twins(p, q) ==
  /\ p.req = q.req
  /\ \A m \in p.moves : \E k \in q.moves : k.line = m.line /\ k.demand = m.qty
  /\ \A k \in q.moves : \E m \in p.moves : k.line = m.line /\ k.demand = m.qty

\* Each picking out that is done has a picking in of its own, and there are no others.
PairedInv ==
  \E f \in Bijection(DoneOuts, Ins) :
    \A i \in DoneOuts : Twins(pickings[i], pickings[f[i]])

==============================================================================
