----------------------- MODULE CustomerFigures_proofs -----------------------
(***************************************************************************)
(* The cached CRM figures of a customer converge on what the orders say,   *)
(* for every set of orders, customers, sessions and listeners.             *)
(***************************************************************************)
EXTENDS CustomerFigures, Sums_proofs, TLAPS

-----------------------------------------------------------------------------
(* A step of the desk writes one order's row at most, so that the one      *)
(* event it publishes tells of all that it changed.                        *)

RowsOfOrders == orders = [o \in Orders |-> orders[o]]
OneRowWritten == \E o : \A x \in Orders \ {o} : orders'[x] = orders[x]

\* An UPDATE of one row leaves the others as they are.
LEMMA RowWritten ==
    ASSUME RowsOfOrders, NEW o, NEW row, orders' = [orders EXCEPT ![o] = row]
    PROVE  OneRowWritten /\ RowsOfOrders'
<1>1. orders' = [x \in Orders |-> IF x = o THEN row ELSE orders[x]]
      BY DEF RowsOfOrders
<1>2. \A x \in Orders \ {o} : orders'[x] = orders[x]
      BY <1>1
<1>3. orders' = [x \in Orders |-> orders'[x]]
      BY <1>1
<1> QED BY <1>2, <1>3 DEF RowsOfOrders, OneRowWritten

\* Placement and every step of a request write one row, or none.
LEMMA DeskWritesOne ==
    ASSUME RowsOfOrders, DeskStep
    PROVE  OneRowWritten /\ RowsOfOrders'
<1>1. ASSUME NEW o \in Orders, Place(o) PROVE OneRowWritten /\ RowsOfOrders'
  <2>1. orders' = [orders EXCEPT ![o] = [NoRow(o) EXCEPT !.status = "PENDING", !.held = TRUE]]
        BY <1>1 DEF Place
  <2> QED BY <2>1, RowWritten
<1>2. CASE UNCHANGED orders
      BY <1>2 DEF RowsOfOrders, OneRowWritten
<1>3. ASSUME NEW s \in Sessions, WritePlanned(s) PROVE OneRowWritten /\ RowsOfOrders'
  <2>1. orders' = [orders EXCEPT ![work[s].order] = Written(orders[work[s].order], work[s].plan)]
        BY <1>3 DEF WritePlanned
  <2> QED BY <2>1, RowWritten
<1>4. ASSUME NEW s \in Sessions, WriteMarkPaid(s) PROVE OneRowWritten /\ RowsOfOrders'
  <2>1. orders' = [orders EXCEPT ![work[s].order] = Paid(orders[work[s].order])] \/ orders' = orders
        BY <1>4 DEF WriteMarkPaid
  <2> QED BY <1>2, <2>1, RowWritten
<1>5. ASSUME NEW s \in Sessions, WriteCapture(s) PROVE OneRowWritten /\ RowsOfOrders'
  <2>1. \E row : orders' = [orders EXCEPT ![work[s].order] = row]
        BY <1>5 DEF WriteCapture
  <2> QED BY <2>1, RowWritten
<1>6. ASSUME NEW s \in Sessions, SessionStep(s) PROVE OneRowWritten /\ RowsOfOrders'
  <2>1. \/ UNCHANGED orders
        \/ WritePlanned(s) \/ WriteMarkPaid(s) \/ WriteCapture(s)
        BY <1>6 DEF SessionStep, ReadTransition, ReadReopen, ReadMarkPaid, ReadCapture, DecideAutoCancel,
                    ReadAutoCancel, RollBackPlanned
  <2> QED BY <1>2, <1>3, <1>4, <1>5, <2>1
<1> QED BY <1>1, <1>6 DEF DeskStep

-----------------------------------------------------------------------------
(* What a recompute has read is what it would read again, until an event   *)
(* waits; and while none waits and none is under way, the row has it.      *)

Recomputing(h, c) == recompute[h] # Waiting /\ recompute[h].customer = c
FiguresFollow ==
    \A c \in Customers : owed[c] = 0 =>
        /\ \A h \in Handlers : Recomputing(h, c) => recompute[h].result = Aggregate(c)
        /\ c \notin lost /\ (\A h \in Handlers : ~Recomputing(h, c)) => figures[c] = Aggregate(c)

FiguresInv ==
    /\ RowsOfOrders
    /\ figures = [c \in Customers |-> figures[c]] /\ owed \in [Customers -> Nat]
    /\ recompute = [h \in Handlers |-> recompute[h]]
    /\ FiguresFollow

\* What the aggregate query reads is the status of the customer's orders.
LEMMA AggregateSame ==
    ASSUME NEW c, \A o \in Orders : CustomerOf[o] = c => orders'[o].status = orders[o].status
    PROVE  Aggregate(c)' = Aggregate(c)
<1>1. OrdersOf(c)' = OrdersOf(c)
      BY DEF OrdersOf, Placed
<1>2. \A S : InStage(c, S)' = InStage(c, S)
      BY <1>1 DEF InStage, OrdersOf
<1> QED BY <1>1, <1>2 DEF Aggregate

\* A customer's row starts with the figures of no orders.
LEMMA FiguresInitial == FiguresInit => FiguresInv
<1> SUFFICES ASSUME FiguresInit PROVE FiguresInv
    OBVIOUS
<1>1. RowsOfOrders /\ \A o \in Orders : orders[o].status = "UNPLACED"
      BY DEF FiguresInit, Init, RowsOfOrders, NoRow
<1>2. ASSUME NEW c \in Customers PROVE Aggregate(c) = NoFigures
  <2>1. OrdersOf(c) = {} /\ InStage(c, Live) = {} /\ InStage(c, Terminal) = {}
        BY <1>1 DEF OrdersOf, Placed, InStage
  <2>2. Cardinality({}) = 0
        BY FS_EmptySet
  <2>3. SumOf(Total, {}) = 0
        BY SumEmpty
  <2>4. /\ Cardinality(OrdersOf(c)) = 0 /\ Cardinality(InStage(c, Live)) = 0
        /\ Cardinality(InStage(c, Terminal)) = 0 /\ SumOf(Total, InStage(c, Live)) = 0
        BY <2>1, <2>2, <2>3
  <2> QED BY <2>4 DEF Aggregate, NoFigures
<1>3. FiguresFollow
      BY <1>2 DEF FiguresInit, FiguresFollow, Recomputing
<1> QED BY <1>1, <1>3 DEF FiguresInit, FiguresInv

\* The desk moves an order: its customer is owed an event; nobody else's
\* orders, figures or events change.
LEMMA DeskFiguresStep ==
    ASSUME FiguresInv, DeskWithFigures
    PROVE  FiguresInv'
<1>1. RowsOfOrders' /\ OneRowWritten /\ UNCHANGED <<recompute, lost>>
      BY DeskWritesOne DEF DeskWithFigures, FiguresInv
<1>2. CASE Moved = {}
  <2>1. \A c \in Customers : Aggregate(c)' = Aggregate(c)
        BY <1>2, AggregateSame DEF Moved
  <2>2. UNCHANGED <<figures, owed>>
        BY <1>2 DEF DeskWithFigures
  <2> QED BY <1>1, <2>1, <2>2 DEF FiguresInv, FiguresFollow, Recomputing
<1>3. CASE Moved # {}
  <2>1. PICK o \in Moved : Adjust(o) /\ owed' = [owed EXCEPT ![CustomerOf[o]] = @ + 1]
        BY <1>3 DEF DeskWithFigures
  <2>2. o \in Orders /\ CustomerOf[o] \in Customers
        BY OrderDataAssumption DEF Moved
  <2>3. \A x \in Orders \ {o} : orders'[x].status = orders[x].status
        BY <1>1 DEF OneRowWritten, Moved
  <2> DEFINE d == CustomerOf[o]
  <2>4. figures' = [c \in Customers |-> figures'[c]] /\ \A c \in Customers \ {d} : figures'[c] = figures[c]
        BY <2>1 DEF Adjust, FiguresInv
  <2>5. owed' \in [Customers -> Nat] /\ owed'[d] > 0 /\ \A c \in Customers \ {d} : owed'[c] = owed[c]
        BY <2>1, <2>2 DEF FiguresInv
  <2>6. \A c \in Customers \ {d} : Aggregate(c)' = Aggregate(c)
        BY <2>3, AggregateSame
  <2> HIDE DEF d
  <2>7. FiguresFollow'
        BY <1>1, <2>4, <2>5, <2>6 DEF FiguresInv, FiguresFollow, Recomputing
  <2> QED BY <1>1, <2>4, <2>5, <2>7 DEF FiguresInv
<1> QED BY <1>2, <1>3

\* A recompute reads: with the lock, so that no other one of the customer is under way.
LEMMA ReadOrdersStep ==
    ASSUME FiguresInv, NEW h \in Handlers, NEW c \in Customers, ReadOrders(h, c), UNCHANGED <<vars, figures, lost>>,
           owed' \in [Customers -> Nat], \A d \in Customers \ {c} : owed'[d] = owed[d]
    PROVE  FiguresInv'
<1>1. orders' = orders
      BY DEF vars
<1>2. \A d \in Customers : Aggregate(d)' = Aggregate(d)
      BY <1>1, AggregateSame
<1> DEFINE v == [customer |-> c, result |-> Aggregate(c)]
<1>3. recompute' = [recompute EXCEPT ![h] = v] /\ recompute[h] = Waiting /\ \A g \in Handlers : recompute[g].customer # c
      BY DEF ReadOrders, Locked
<1>4. v.customer = c /\ v.result = Aggregate(c) /\ v # Waiting
      BY DEF Waiting
<1> HIDE DEF v
<1>5. recompute' = [g \in Handlers |-> recompute'[g]] /\ \A g \in Handlers : recompute'[g] = IF g = h THEN v ELSE recompute[g]
      BY <1>3 DEF FiguresInv
<1>6. FiguresFollow'
  <2> SUFFICES ASSUME NEW d \in Customers, owed'[d] = 0
               PROVE  /\ \A g \in Handlers : Recomputing(g, d)' => recompute'[g].result = Aggregate(d)
                      /\ d \notin lost /\ (\A g \in Handlers : ~Recomputing(g, d)') => figures[d] = Aggregate(d)
      BY <1>2 DEF FiguresFollow
  <2>1. CASE d = c
        BY <1>3, <1>4, <1>5, <2>1 DEF Recomputing
  <2>2. CASE d # c
        BY <1>3, <1>4, <1>5, <2>2 DEF FiguresInv, FiguresFollow, Recomputing
  <2> QED BY <2>1, <2>2
<1> QED BY <1>1, <1>5, <1>6 DEF FiguresInv, RowsOfOrders

\* It writes, or gives up: then the lock is free.
LEMMA EndOfRecompute ==
    ASSUME FiguresInv, NEW h \in Handlers, WriteFigures(h) \/ GiveUp(h)
    PROVE  FiguresInv'
<1> DEFINE c == recompute[h].customer
<1>1. /\ recompute[h] # Waiting /\ recompute' = [recompute EXCEPT ![h] = Waiting] /\ orders' = orders /\ owed' = owed
      /\ \/ figures' = [figures EXCEPT ![c] = recompute[h].result] /\ lost' = lost \ {c}
         \/ figures' = figures /\ lost' = lost \cup {c}
      BY DEF WriteFigures, GiveUp, vars
<1>2. \A d \in Customers : Aggregate(d)' = Aggregate(d)
      BY <1>1, AggregateSame
<1>3. recompute' = [g \in Handlers |-> recompute'[g]] /\ \A g \in Handlers : recompute'[g] = IF g = h THEN Waiting ELSE recompute[g]
      BY <1>1 DEF FiguresInv
<1>4. figures' = [d \in Customers |-> figures'[d]] /\ \A d \in Customers \ {c} : figures'[d] = figures[d]
      BY <1>1 DEF FiguresInv
<1>5. \A d \in Customers, g \in Handlers : Recomputing(g, d)' <=> g # h /\ Recomputing(g, d)
      BY <1>3 DEF Recomputing
<1>6. FiguresFollow'
  <2> SUFFICES ASSUME NEW d \in Customers, owed[d] = 0
               PROVE  /\ \A g \in Handlers : Recomputing(g, d)' => recompute'[g].result = Aggregate(d)
                      /\ d \notin lost' /\ (\A g \in Handlers : ~Recomputing(g, d)') => figures'[d] = Aggregate(d)
      BY <1>1, <1>2 DEF FiguresFollow
  <2>1. \A g \in Handlers : Recomputing(g, d)' => recompute'[g].result = Aggregate(d)
        BY <1>3, <1>5 DEF FiguresInv, FiguresFollow
  <2>2. CASE d = c
    <3>1. recompute[h].result = Aggregate(d)
          BY <1>1, <2>2 DEF FiguresInv, FiguresFollow, Recomputing
    <3>2. d \notin lost' => figures'[d] = Aggregate(d)
          BY <1>1, <2>2, <3>1 DEF FiguresInv
    <3> QED BY <2>1, <3>2
  <2>3. CASE d # c
    <3>1. \A g \in Handlers : Recomputing(g, d) => Recomputing(g, d)'
          BY <1>5, <2>3 DEF Recomputing
    <3> QED BY <1>1, <1>4, <2>1, <2>3, <3>1 DEF FiguresInv, FiguresFollow
  <2> QED BY <2>2, <2>3
<1> QED BY <1>1, <1>3, <1>4, <1>6 DEF FiguresInv, RowsOfOrders

\* The process stops: a customer whose event or recompute is dropped is a lost one.
LEMMA RestartStep ==
    ASSUME FiguresInv, Restart
    PROVE  FiguresInv'
<1>1. /\ orders' = orders /\ figures' = figures
      /\ lost' = lost \cup {c \in Customers : owed[c] > 0 \/ Locked(c)}
      /\ owed' = [c \in Customers |-> 0] /\ recompute' = [h \in Handlers |-> Waiting]
      BY DEF Restart, DropRequests
<1>2. \A d \in Customers : Aggregate(d)' = Aggregate(d)
      BY <1>1, AggregateSame
<1>3. \A d \in Customers, g \in Handlers : ~Recomputing(g, d)'
      BY <1>1 DEF Recomputing
<1>4. \A d \in Customers : d \notin lost' => d \notin lost /\ owed[d] = 0 /\ \A g \in Handlers : ~Recomputing(g, d)
  <2> SUFFICES ASSUME NEW d \in Customers, d \notin lost'
               PROVE  d \notin lost /\ owed[d] = 0 /\ \A g \in Handlers : ~Recomputing(g, d)
      OBVIOUS
  <2>1. d \notin lost /\ ~(owed[d] > 0) /\ ~Locked(d)
        BY <1>1
  <2>2. owed[d] \in Nat
        BY DEF FiguresInv
  <2> QED BY <2>1, <2>2 DEF Locked, Recomputing
<1>5. FiguresFollow'
      BY <1>1, <1>2, <1>3, <1>4 DEF FiguresInv, FiguresFollow
<1> QED BY <1>1, <1>5 DEF FiguresInv, RowsOfOrders

\* Every step keeps the invariant.
LEMMA FiguresStep ==
    ASSUME FiguresInv, [FiguresNext]_figureVars
    PROVE  FiguresInv'
<1>1. CASE DeskWithFigures
      BY <1>1, DeskFiguresStep
<1>2. ASSUME NEW h \in Handlers, NEW c \in Customers, OnOrderEvent(h, c) PROVE FiguresInv'
  <2>1. /\ ReadOrders(h, c) /\ UNCHANGED <<vars, figures, lost>>
        /\ owed[c] > 0 /\ owed' = [owed EXCEPT ![c] = @ - 1]
        BY <1>2 DEF OnOrderEvent
  <2>2. owed' \in [Customers -> Nat] /\ \A d \in Customers \ {c} : owed'[d] = owed[d]
        BY <2>1 DEF FiguresInv
  <2> QED BY <2>1, <2>2, ReadOrdersStep
<1>3. ASSUME NEW h \in Handlers, NEW c \in Customers, AskRecompute(h, c) PROVE FiguresInv'
  <2>1. ReadOrders(h, c) /\ UNCHANGED <<vars, figures, lost>> /\ owed' = owed
        BY <1>3 DEF AskRecompute
  <2>2. owed' \in [Customers -> Nat]
        BY <2>1 DEF FiguresInv
  <2> QED BY <2>1, <2>2, ReadOrdersStep
<1>4. ASSUME NEW h \in Handlers, WriteFigures(h) \/ GiveUp(h) PROVE FiguresInv'
      BY <1>4, EndOfRecompute
<1>5. CASE Restart
      BY <1>5, RestartStep
<1>6. CASE UNCHANGED figureVars
  <2>1. UNCHANGED <<orders, figures, owed, recompute, lost>>
        BY <1>6 DEF figureVars, crm, vars
  <2>2. \A d \in Customers : Aggregate(d)' = Aggregate(d)
        BY <2>1, AggregateSame
  <2> QED BY <2>1, <2>2 DEF FiguresInv, FiguresFollow, RowsOfOrders, Recomputing
<1> QED BY <1>1, <1>2, <1>3, <1>4, <1>5, <1>6 DEF FiguresNext, Handle

\* Once every event of a customer has been handled, the figures are those of
\* the orders, whatever the desk added and subtracted meanwhile
\* (customer-aggregates.service.ts).
THEOREM FiguresConvergeCorrect == FiguresSpec => []FiguresConverge
<1>1. FiguresInv => FiguresConverge
      BY DEF FiguresInv, FiguresFollow, FiguresConverge, Settled, Locked, Recomputing
<1> QED BY <1>1, FiguresInitial, FiguresStep, PTL DEF FiguresSpec
=============================================================================
