---------------------------- MODULE OrderStatus ----------------------------
(***************************************************************************)
(* The pure rules of the order lifecycle: which moves a snapshot of an     *)
(* order permits and what each of them must do.  No state: the services    *)
(* that read, plan and write are in OrderDesk and the modules that extend  *)
(* it.  Dates are abstracted to whether they are set; reasons and notes to *)
(* whether they are given.                                                 *)
(***************************************************************************)
EXTENDS Integers

Open     == {"PENDING", "CONFIRMED", "PROCESSING", "HANDED_TO_COURIER", "OUT_FOR_DELIVERY"}
Terminal == {"CANCELLED", "RETURNED"}
Status   == Open \cup {"DELIVERED"} \cup Terminal
ReturnableFrom == {"HANDED_TO_COURIER", "OUT_FOR_DELIVERY", "DELIVERED"}

Rank == [PENDING |-> 0, CONFIRMED |-> 1, PROCESSING |-> 2, HANDED_TO_COURIER |-> 3,
         OUT_FOR_DELIVERY |-> 4, DELIVERED |-> 5, CANCELLED |-> -1, RETURNED |-> -1]

IsShippedStage(s) == Rank[s] >= Rank["HANDED_TO_COURIER"]
RegressTarget(s)  == IF s = "PROCESSING" THEN {"CONFIRMED"} ELSE {}

Methods  == {"COD", "SSLCOMMERZ"}
Payments == {"UNPAID", "PAID", "REFUNDED"}
Actors   == {"STAFF", "CUSTOMER", "SYSTEM", "WEBHOOK"}
Effects  == {"NONE", "RESERVE", "FULFIL", "RELEASE", "RESTOCK"}

\* What the planner sees of an order row.
Snapshot == [status : Status, method : Methods, payment : Payments,
             held : BOOLEAN, shipped : BOOLEAN]
\* credit: the request carries a non-blank reason for a credit note.
Request  == [to : Status, mode : {"advance", "regress"}, actor : Actors, credit : BOOLEAN]
\* What a move must do, for whoever writes it; actor is whom the history names.
Plan     == [to : Status, stock : Effects, markPaid : BOOLEAN, actor : Actors]

AwaitingPayment(o) == o.method = "SSLCOMMERZ" /\ o.payment = "UNPAID"

-----------------------------------------------------------------------------
RegressAllowed(o, r) ==
    /\ r.mode = "regress"
    /\ r.actor = "STAFF"
    /\ r.to \in RegressTarget(o.status)

VoidAllowed(o, r) ==
    /\ r.mode = "advance"
    /\ \/ r.to = "CANCELLED" /\ o.status \in Open
       \/ r.to = "RETURNED" /\ o.status \in ReturnableFrom
    /\ r.actor = "CUSTOMER" => r.to = "CANCELLED" /\ o.status = "PENDING"
    /\ o.status # "PENDING" => r.credit

ForwardAllowed(o, r) ==
    /\ r.mode = "advance"
    /\ r.to \notin Terminal
    /\ Rank[r.to] >= Rank[o.status]
    /\ r.actor # "CUSTOMER"
    /\ ~(o.status = "PENDING" /\ AwaitingPayment(o))

\* planTransition answers ok.
TransitionAllowed(o, r) ==
    /\ o.status \notin Terminal
    /\ o.status # r.to
    /\ RegressAllowed(o, r) \/ VoidAllowed(o, r) \/ ForwardAllowed(o, r)

\* Variant: stock leaves at every shipped stage, not at the first.
TransitionEffectEachStage(o, r) ==
    CASE r.to \in Terminal -> IF o.shipped THEN "RESTOCK" ELSE IF o.held THEN "RELEASE" ELSE "NONE"
      [] r.mode = "advance" /\ IsShippedStage(r.to) -> "FULFIL"
      [] OTHER -> "NONE"

TransitionEffect(o, r) ==
    CASE r.to \in Terminal -> IF o.shipped THEN "RESTOCK" ELSE IF o.held THEN "RELEASE" ELSE "NONE"
      [] r.mode = "advance" /\ IsShippedStage(r.to) /\ ~o.shipped -> "FULFIL"
      [] OTHER -> "NONE"

\* The plan planTransition returns when it answers ok.
TransitionPlan(o, r) ==
    [to       |-> r.to,
     stock    |-> TransitionEffect(o, r),
     markPaid |-> r.to = "DELIVERED" /\ o.payment = "UNPAID",
     actor    |-> r.actor]

-----------------------------------------------------------------------------
\* Variant: a reopened order never waits for payment again.
ReopenAllowedUnpaid(o, to) ==
    o.status \in Terminal /\ to \in {"PENDING", "CONFIRMED"}

\* planReopen answers ok: staff, a closed order, and an unpaid online order
\* only back to PENDING.  Without an explicit target the default below is
\* always one of these two.
ReopenAllowed(o, to) ==
    /\ o.status \in Terminal
    /\ to \in {"PENDING", "CONFIRMED"}
    /\ to = "CONFIRMED" => ~AwaitingPayment(o)

\* A reopened order restarts as a fresh hold of its units.
ReopenPlan(to) == [to |-> to, stock |-> "RESERVE", markPaid |-> FALSE, actor |-> "STAFF"]
=============================================================================
