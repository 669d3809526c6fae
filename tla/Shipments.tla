----------------------------- MODULE Shipments -----------------------------
(***************************************************************************)
(* The consignments of one order: assigning a courier, following the       *)
(* parcel, the courier's bill kept on the order, and the settlement of the *)
(* cash the courier collected.                                             *)
(*                                                                         *)
(* A request reads, then writes the shipment and sums the bill over what   *)
(* is committed and its own rows, then writes the order and commits.       *)
(* Abstracted: tracking numbers, weights, dates; PICKED_UP to RETURNING    *)
(* are steps between BOOKED and DELIVERED with no rule of their own; money *)
(* is counted in small units. lockOrderBooks makes a settlement one step.  *)
(***************************************************************************)
EXTENDS Naturals, FiniteSets, FiniteSetsExt, Sums

CONSTANTS
    Couriers,
    Dispatchers,   \* requests of staff under way at once
    Charges,       \* what a courier may charge
    Due,           \* what an unpaid order has still to pay
    MaxParcels,    \* bound: shipments of the order
    MaxDispatches  \* bound: requests

ASSUME ShipmentsAssumption ==
    Charges \subseteq Nat /\ {Due, MaxParcels, MaxDispatches} \subseteq Nat

VARIABLES
    parcels,      \* shipments, by row number
    order,        \* open, unpaid, and courier_cost
    dispatch,     \* per request: what it has read and holds back
    cashBook,     \* the order's COD in the cash book, and what was moved out of it
    met,          \* history: two transactions have written at the same time
    dispatched    \* requests so far

shipmentVars == <<parcels, order, dispatch, cashBook, met, dispatched>>

-----------------------------------------------------------------------------
ParcelRows == 1..MaxParcels
NoParcel == [status |-> "none"]
NoDispatch == [at |-> "none"]
Closed == {"CANCELLED", "RETURNED"}
Statuses == {"PENDING", "BOOKED", "DELIVERED"} \cup Closed
CodStatuses == {"PENDING", "COLLECTED", "REMITTED", "NOT_APPLICABLE"}

Sent(rows) == {i \in ParcelRows : rows[i] # NoParcel}
ActiveIn(rows) == {i \in Sent(rows) : rows[i].status \notin Closed}
WithOpenWrite == {d \in Dispatchers : dispatch[d].at = "commit"}
HeldRows == UNION {dispatch[d].held : d \in WithOpenWrite}

Billed(rows) == {i \in Sent(rows) : rows[i].status # "CANCELLED"}
Bill(rows) == SumOf([i \in Billed(rows) |-> rows[i].charge + rows[i].back], Billed(rows))

\* syncCourierCost leaves the order alone when nothing is left to sum.
Synced(rows) ==
    IF \A i \in Sent(rows) : rows[i].status = "CANCELLED" THEN {} ELSE {Bill(rows)}

\* The rows d writes, held back until it commits.
HoldBack(d, rows, held) ==
    /\ dispatch' = [dispatch EXCEPT ![d] = [at |-> "commit", held |-> held, rows |-> [i \in held |-> rows[i]], cost |-> Synced(rows)]]
    /\ met' = (met \/ WithOpenWrite # {})
    /\ UNCHANGED <<parcels, order, cashBook, dispatched>>

GiveUp(d) ==
    /\ dispatch' = [dispatch EXCEPT ![d] = NoDispatch]
    /\ UNCHANGED <<parcels, order, cashBook, met, dispatched>>

-----------------------------------------------------------------------------
Asks(d) ==
    /\ dispatch[d] = NoDispatch /\ dispatched < MaxDispatches
    /\ dispatched' = dispatched + 1

\* assign reads the order and its active shipment.
ReadAssign(d, q, tracked, charge) ==
    /\ Asks(d) /\ order.open
    /\ dispatch' = [dispatch EXCEPT ![d] = [at |-> "assign", courier |-> q, tracked |-> tracked, charge |-> charge, unpaid |-> order.unpaid,
                                            active |-> {[id |-> i, row |-> parcels[i]] : i \in ActiveIn(parcels)}]]
    /\ UNCHANGED <<parcels, order, cashBook, met>>

\* shipments_one_active: a write that leaves a row active waits for others that hold
\* an active row of the order, and fails if there are two then.
FitsOneActive(rows) == Cardinality(ActiveIn(rows)) <= 1
ActiveHeld ==
    ActiveIn(parcels) \cap HeldRows # {}
    \/ \E e \in WithOpenWrite : \E i \in dispatch[e].held : dispatch[e].rows[i].status \notin Closed

\* Variant: the index is missing.
WriteUnchecked(d, rows, held) == held \cap HeldRows = {} /\ HoldBack(d, rows, held)

Write(d, rows, held) ==
    /\ held \cap HeldRows = {}
    /\ ActiveIn(rows) \subseteq ActiveIn(parcels) \/ ~ActiveHeld
    /\ IF FitsOneActive(rows) THEN HoldBack(d, rows, held) ELSE GiveUp(d)

\* The shipment of the same courier is updated; a tracking number books it.
AssignSame(d) ==
    /\ dispatch[d].at = "assign"
    /\ \E a \in dispatch[d].active :
         /\ a.row.courier = dispatch[d].courier
         /\ LET books == dispatch[d].tracked /\ ~a.row.booked IN
              Write(d, [parcels EXCEPT ![a.id].charge = dispatch[d].charge,
                                       ![a.id].booked = @ \/ books,
                                       ![a.id].status = IF books THEN "BOOKED" ELSE @], {a.id})

\* Another courier: the shipment that was active is cancelled, and a new one made.
AssignOther(d) ==
    /\ dispatch[d].at = "assign"
    /\ \A a \in dispatch[d].active : a.row.courier # dispatch[d].courier
    /\ LET old == {a.id : a \in dispatch[d].active}
           new == Cardinality(Sent(parcels)) + 1
           due == IF dispatch[d].unpaid THEN Due ELSE 0
           row == [status |-> IF dispatch[d].tracked THEN "BOOKED" ELSE "PENDING", booked |-> dispatch[d].tracked,
                   courier |-> dispatch[d].courier, charge |-> dispatch[d].charge, back |-> 0,
                   cod |-> due, codStatus |-> IF due > 0 THEN "PENDING" ELSE "NOT_APPLICABLE"]
       IN /\ new \in ParcelRows
          /\ Write(d, [i \in ParcelRows |-> IF i = new THEN row
                                            ELSE IF i \in old THEN [parcels[i] EXCEPT !.status = "CANCELLED"] ELSE parcels[i]],
                   old \cup {new})

-----------------------------------------------------------------------------
\* update: what staff or the courier report, one column at a time.
Reports ==
    [column : {"status"}, value : Statuses] \cup [column : {"charge", "back"}, value : Charges]
    \cup [column : {"codStatus"}, value : CodStatuses]

\* A closed shipment keeps its status, one without COD has none to report.
ReadUpdate(d, i, report) ==
    /\ Asks(d) /\ i \in Sent(parcels)
    /\ report.column = "status" /\ parcels[i].status \in Closed => report.value = parcels[i].status
    /\ report.column = "codStatus" /\ parcels[i].cod = 0 => report.value = "NOT_APPLICABLE"
    /\ dispatch' = [dispatch EXCEPT ![d] = [at |-> "update", row |-> i, report |-> report]]
    /\ UNCHANGED <<parcels, order, cashBook, met>>

WriteUpdate(d) ==
    /\ dispatch[d].at = "update"
    /\ LET i == dispatch[d].row
           told == dispatch[d].report
           books == told.column = "status" /\ told.value = "BOOKED"
       IN Write(d, [parcels EXCEPT ![i][told.column] = told.value, ![i].booked = @ \/ books], {i})

\* The order's row is written last; a request that waits for it has summed already.
CommitDispatch(d) ==
    /\ d \in WithOpenWrite
    /\ parcels' = [i \in ParcelRows |-> IF i \in dispatch[d].held THEN dispatch[d].rows[i] ELSE parcels[i]]
    /\ order' = [order EXCEPT !.cost = IF dispatch[d].cost = {} THEN @ ELSE CHOOSE n \in dispatch[d].cost : TRUE]
    /\ dispatch' = [dispatch EXCEPT ![d] = NoDispatch]
    /\ UNCHANGED <<cashBook, met, dispatched>>

\* codRemittance of some shipments: their COD is booked into cash unless the order's has
\* been, and the whole of it leaves cash, for the account that received it (not cash
\* itself) and for what the courier kept.
Remit(rows) ==
    /\ rows # {} /\ rows \subseteq Sent(parcels) \ HeldRows
    /\ \A i \in rows : parcels[i].codStatus \in {"PENDING", "COLLECTED"} /\ parcels[i].cod > 0
    /\ cashBook' = [in |-> IF cashBook.in = 0 THEN Due ELSE cashBook.in,
                    out |-> cashBook.out + MapThenSumSet(LAMBDA i : parcels[i].cod, rows)]
    /\ parcels' = [i \in ParcelRows |-> IF i \in rows THEN [parcels[i] EXCEPT !.codStatus = "REMITTED"] ELSE parcels[i]]
    /\ UNCHANGED <<order, dispatch, met, dispatched>>

\* The desk delivers the order, or closes it; the cash of a delivery is booked by the books.
Delivered ==
    /\ order.open /\ order.unpaid
    /\ order' = [order EXCEPT !.unpaid = FALSE]
    /\ cashBook' = [cashBook EXCEPT !.in = IF @ = 0 THEN Due ELSE @]
    /\ UNCHANGED <<parcels, dispatch, met, dispatched>>

CloseOrder ==
    /\ order.open
    /\ order' = [order EXCEPT !.open = FALSE]
    /\ UNCHANGED <<parcels, dispatch, cashBook, met, dispatched>>

-----------------------------------------------------------------------------
ShipmentsInit ==
    /\ parcels = [i \in ParcelRows |-> NoParcel]
    /\ order = [open |-> TRUE, unpaid |-> TRUE, cost |-> 0]
    /\ dispatch = [d \in Dispatchers |-> NoDispatch]
    /\ cashBook = [in |-> 0, out |-> 0]
    /\ met = FALSE
    /\ dispatched = 0

ShipmentsNext ==
    \/ Delivered \/ CloseOrder
    \/ \E rows \in SUBSET ParcelRows : Remit(rows)
    \/ \E d \in Dispatchers :
         \/ AssignSame(d) \/ AssignOther(d) \/ WriteUpdate(d) \/ CommitDispatch(d)
         \/ \E q \in Couriers, tracked \in BOOLEAN, n \in Charges : ReadAssign(d, q, tracked, n)
         \/ \E i \in ParcelRows, report \in Reports : ReadUpdate(d, i, report)

ShipmentsSpec == ShipmentsInit /\ [][ShipmentsNext]_shipmentVars

-----------------------------------------------------------------------------
ShipmentsTypeOK ==
    /\ \A i \in Sent(parcels) : parcels[i].status \in Statuses /\ parcels[i].cod \in {0, Due}
    /\ order \in [open : BOOLEAN, unpaid : BOOLEAN, cost : Nat]

\* "One active shipment per order" (shipments.service.ts:27), also when two requests
\* assign a courier, or report on shipments that were active when they looked.
OneActive == FitsOneActive(parcels)

\* "orders.courier_cost = sum of delivery and return charge of shipments that were not
\* cancelled" (shipments.service.ts:158): so it is while no two transactions have
\* written at once and one such shipment is left.
CostFollowsInTurns ==
    ~met /\ Synced(parcels) # {} => order.cost = Bill(parcels)

\* "The actual courier bill flows into orders.courier_cost" (:28): with two active
\* shipments it would be counted twice.
ParcelsAndBill == OneActive /\ CostFollowsInTurns

\* The same without conditions: the last shipment may be cancelled, and two sums miss
\* each other's rows.
CostFollows == WithOpenWrite = {} => order.cost = Bill(parcels)

\* A settlement "must not count it twice" (cashbook.service.ts:287): no more is moved
\* out of cash than was booked into it.
SettledFromBook == cashBook.out <= cashBook.in

\* "A cancelled or returned shipment's status cannot be changed"
\* (shipments.service.ts:128).
ClosedStaysClosed ==
    [][\A i \in Sent(parcels) : parcels[i].status \in Closed => parcels'[i].status \in Closed]_shipmentVars
=============================================================================
