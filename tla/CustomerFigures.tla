-------------------------- MODULE CustomerFigures --------------------------
(***************************************************************************)
(* The CRM figures cached on a customer's row: orders, live orders,        *)
(* cancelled orders, money spent.  Two writers keep them, and they do not  *)
(* count alike: the order desk adds and subtracts inside its own           *)
(* transactions (a PENDING order counts as live and as money spent, a      *)
(* delivered one no longer as live), and a listener recomputes them from   *)
(* the customer's orders after every order event (a PENDING order counts   *)
(* as neither, a delivered one as live).                                   *)
(*                                                                         *)
(* A recompute locks the customer's row, reads the orders, then writes: two*)
(* steps between which the desk may commit anything that leaves the row    *)
(* alone.  Events are kept in memory.                                      *)
(* Abstracted: the dates of the first and last order.                      *)
(***************************************************************************)
EXTENDS OrderEvents, Sums

CONSTANTS
    Total,      \* [Orders -> Nat], orders.grand_total
    Handlers,   \* recomputes under way at the same time
    MaxAsked    \* bound: recomputes staff ask for by hand

ASSUME TotalAssumption == Total \in [Orders -> Nat] /\ MaxAsked \in Nat

VARIABLES
    figures,     \* the cached columns, per customer
    owed,        \* events not handled yet, per customer
    recompute,   \* what each handler has read, under the customer's row lock
    lost,        \* customers with an event that nobody handled (history)
    restarts,
    asked

crm == <<figures, owed, recompute, lost, restarts, asked>>
figureVars == <<vars, crm>>

-----------------------------------------------------------------------------
Live      == {"CONFIRMED", "PROCESSING", "HANDED_TO_COURIER", "OUT_FOR_DELIVERY", "DELIVERED"}
Figures   == [orders : Nat, live : Int, cancelled : Int, spent : Int]
NoFigures == [orders |-> 0, live |-> 0, cancelled |-> 0, spent |-> 0]

Waiting == [customer |-> "none"]

OrdersOf(c) == {o \in Orders : CustomerOf[o] = c /\ Placed(o)}
InStage(c, stages) == {o \in OrdersOf(c) : orders[o].status \in stages}

\* aggregateOrders over what the database holds now.
Aggregate(c) ==
    [orders    |-> Cardinality(OrdersOf(c)),
     live      |-> Cardinality(InStage(c, Live)),
     cancelled |-> Cardinality(InStage(c, Terminal)),
     spent     |-> SumOf(Total, InStage(c, Live))]

-----------------------------------------------------------------------------
\* What the desk adds to the row when order o goes from one status to another:
\* placement, closing, voiding and reopening.
Adjusted(f, o, from, to) ==
    CASE from = "UNPLACED" ->
            [f EXCEPT !.orders = @ + 1, !.live = @ + 1, !.spent = @ + Total[o]]
      [] to \in Terminal ->
            [f EXCEPT !.live = IF from \in Open THEN Clamp(@ - 1) ELSE @,
                      !.cancelled = @ + 1, !.spent = @ - Total[o]]
      [] from \in Terminal ->
            [f EXCEPT !.live = @ + 1, !.cancelled = Clamp(@ - 1), !.spent = @ + Total[o]]
      [] to = "DELIVERED" ->
            [f EXCEPT !.live = Clamp(@ - 1)]
      [] OTHER -> f

\* A request writes orders of one customer; its UPDATE of the customer's row waits
\* for the recompute that has the row locked.
Locked(c) == \E h \in Handlers : recompute[h].customer = c
UpdatesCustomer(from, to) == from \in {"UNPLACED"} \cup Terminal \/ to \in {"DELIVERED"} \cup Terminal

Adjust(o) ==
    LET c == CustomerOf[o]
    IN  /\ UpdatesCustomer(orders[o].status, orders'[o].status) => ~Locked(c)
        /\ figures' = [figures EXCEPT ![c] = Adjusted(@, o, orders[o].status, orders'[o].status)]

DeskWithFigures ==
    /\ DeskStep
    /\ IF Moved = {}
       THEN UNCHANGED <<figures, owed>>
       ELSE \E o \in Moved :
              /\ Adjust(o)
              /\ owed' = [owed EXCEPT ![CustomerOf[o]] = @ + 1]
    /\ UNCHANGED <<recompute, lost, restarts, asked>>

-----------------------------------------------------------------------------
\* Variant: recomputes of the same customer do not wait for each other.
ReadOrdersUnlocked(h, c) ==
    /\ recompute[h] = Waiting
    /\ recompute' = [recompute EXCEPT ![h] = [customer |-> c, result |-> Aggregate(c)]]

\* SELECT ... FOR UPDATE, then read the orders.
ReadOrders(h, c) ==
    /\ recompute[h] = Waiting
    /\ ~Locked(c)
    /\ recompute' = [recompute EXCEPT ![h] = [customer |-> c, result |-> Aggregate(c)]]

\* Variant: an event that finds a recompute of its customer under way is taken
\* for a duplicate and dropped.
OnOrderEventOnce(h, c) ==
    /\ owed[c] > 0
    /\ ReadOrders(h, c) \/ (Locked(c) /\ UNCHANGED recompute)
    /\ owed' = [owed EXCEPT ![c] = @ - 1]
    /\ UNCHANGED <<vars, figures, lost, restarts, asked>>

\* An order event reaches the listener.
OnOrderEvent(h, c) ==
    /\ owed[c] > 0
    /\ ReadOrders(h, c)
    /\ owed' = [owed EXCEPT ![c] = @ - 1]
    /\ UNCHANGED <<vars, figures, lost, restarts, asked>>

\* Staff ask for the figures of one customer.
AskRecompute(h, c) ==
    /\ asked < MaxAsked
    /\ OrdersOf(c) # {}
    /\ ReadOrders(h, c)
    /\ asked' = asked + 1
    /\ UNCHANGED <<vars, figures, owed, lost, restarts>>

WriteFigures(h) ==
    /\ recompute[h] # Waiting
    /\ LET c == recompute[h].customer
       IN  /\ figures' = [figures EXCEPT ![c] = recompute[h].result]
           /\ lost' = lost \ {c}
    /\ recompute' = [recompute EXCEPT ![h] = Waiting]
    /\ UNCHANGED <<vars, owed, restarts, asked>>

\* The retries are used up: recomputeQuietly logs and returns.
GiveUp(h) ==
    /\ recompute[h] # Waiting
    /\ lost' = lost \cup {recompute[h].customer}
    /\ recompute' = [recompute EXCEPT ![h] = Waiting]
    /\ UNCHANGED <<vars, figures, owed, restarts, asked>>

Restart ==
    /\ restarts < MaxRestarts
    /\ restarts' = restarts + 1
    /\ DropRequests
    /\ lost' = lost \cup {c \in Customers : owed[c] > 0 \/ Locked(c)}
    /\ owed' = [c \in Customers |-> 0]
    /\ recompute' = [h \in Handlers |-> Waiting]
    /\ UNCHANGED <<figures, asked>>

-----------------------------------------------------------------------------
FiguresInit ==
    /\ Init
    /\ figures = [c \in Customers |-> NoFigures]
    /\ owed = [c \in Customers |-> 0]
    /\ recompute = [h \in Handlers |-> Waiting]
    /\ lost = {}
    /\ restarts = 0
    /\ asked = 0

Handle(h) == \E c \in Customers : OnOrderEvent(h, c)

FiguresNext ==
    \/ DeskWithFigures
    \/ \E h \in Handlers :
         \/ Handle(h)
         \/ \E c \in Customers : AskRecompute(h, c)
         \/ WriteFigures(h)
         \/ GiveUp(h)
    \/ Restart

\* The event loop gets to every pending event, and a transaction ends.
FiguresFairness ==
    \A h \in Handlers : WF_figureVars(Handle(h)) /\ WF_figureVars(WriteFigures(h) \/ GiveUp(h))

FiguresSpec == FiguresInit /\ [][FiguresNext]_figureVars /\ FiguresFairness

-----------------------------------------------------------------------------
FiguresTypeOK ==
    /\ figures \in [Customers -> Figures]
    /\ owed \in [Customers -> Nat]
    /\ \A h \in Handlers :
         recompute[h] = Waiting \/ recompute[h] \in [customer : Customers, result : Figures]
    /\ lost \subseteq Customers

Settled(c) == owed[c] = 0 /\ ~Locked(c)

\* Replayed, duplicated and reordered events converge: once every event of a
\* customer has been handled, the figures are those of the orders, whatever
\* the desk added and subtracted meanwhile.
FiguresConverge == \A c \in Customers : Settled(c) /\ c \notin lost => figures[c] = Aggregate(c)

\* Once the desk is quiet, every customer whose events reached the listener
\* ends up with figures that stay right.
FiguresSettle == \A c \in Customers : <>[](c \in lost \/ figures[c] = Aggregate(c))

\* "Keeps [the figures] in sync" (customer-aggregates.service.ts:8), whatever
\* became of the events.
FiguresInSync == \A c \in Customers : Settled(c) => figures[c] = Aggregate(c)
=============================================================================
