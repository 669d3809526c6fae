---------------------------- MODULE OrderEvents ----------------------------
(***************************************************************************)
(* What the order desk tells the rest of the system.  Services emit their  *)
(* events in memory once their transaction has committed; a restart        *)
(* forgets the events nobody has handled yet and rolls back the requests   *)
(* in flight.  Modules that listen to the desk extend this one.  The stock *)
(* room does not change orders and is left out of them.                    *)
(***************************************************************************)
EXTENDS OrderDesk

CONSTANT MaxRestarts   \* bound: restarts of the process

ASSUME RestartsAssumption == MaxRestarts \in Nat

DeskStep ==
    \/ \E o \in Orders : Place(o)
    \/ \E s \in Sessions : SessionStep(s)

\* Orders this step publishes OrderPlaced or OrderStatusChanged for.
Moved == {o \in Orders : orders'[o].status # orders[o].status}

\* Orders this step publishes OrderPaid for.
PaidNow == {o \in Orders : orders[o].payment = "UNPAID" /\ orders'[o].payment = "PAID"}

\* What a restart leaves of the requests in flight.
DropRequests ==
    /\ work' = [s \in Sessions |-> Idle]
    /\ UNCHANGED <<orders, stock, listed, coupons>>
=============================================================================
