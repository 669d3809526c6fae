------------------------------ MODULE Refunds ------------------------------
(***************************************************************************)
(* Money back on one paid order.  A refund by hand completes when it is    *)
(* recorded; one through the gateway is recorded as PROCESSING, sent       *)
(* outside the transaction, and settled with the gateway's answer, then or *)
(* when staff refresh it.  The order's amount_refunded, its payment status *)
(* and the cash ledger move with a COMPLETED refund.                       *)
(*                                                                         *)
(* create() reads the order before its SERIALIZABLE transaction, which sums*)
(* the refunds in flight; its retries keep that first reading.  Settling is*)
(* READ COMMITTED: it looks at the refund without locking it, then writes. *)
(* Abstracted: what the money is for; audit rows; which payment is returned*)
(* (one, of the whole amount).                                             *)
(***************************************************************************)
EXTENDS Integers, FiniteSets, Sums

CONSTANTS
    Admins,     \* staff requests in flight at the same time
    Ids,        \* bound: refunds of the order
    Paid        \* orders.amount_paid

ASSUME RefundsAssumption == Paid \in Nat \ {0} /\ IsFiniteSet(Ids)

VARIABLES
    refunds,    \* refund rows
    refunded,   \* orders.amount_refunded
    payment,    \* orders.payment_status
    booked,     \* live REFUND entries of the cash ledger, per refund
    bank,       \* what the gateway has done about a refund
    desk        \* what each request is about to do

refundVars == <<refunds, refunded, payment, booked, bank, desk>>

-----------------------------------------------------------------------------
RefundStatus == {"PROCESSING", "COMPLETED", "FAILED"}
NoRefund     == [status |-> "none"]
Refund       == [status : RefundStatus, amount : 1..Paid, gateway : BOOLEAN, ref : BOOLEAN]
Free         == [pc |-> "free"]
Requests ==
    {Free}
    \cup [pc : {"read"}, seen : 0..Paid]
    \cup [pc : {"calling", "failing"}, id : Ids]
    \cup [pc : {"answered", "settling"}, id : Ids, says : RefundStatus, creating : BOOLEAN]

AmountOf(S)    == SumOf([id \in S |-> refunds[id].amount], S)
InStatus(s)    == {id \in Ids : refunds[id].status = s}

PaymentStatusAfterRefund(sum) ==
    CASE sum <= 0 -> "PAID" [] sum >= Paid -> "REFUNDED" [] OTHER -> "PARTIALLY_REFUNDED"

\* CHECK orders_refund_lte_paid.
RefundLtePaid(sum) == sum <= Paid

\* Variant: the ledger does not look for the entry first.
EntriesAfterAgain(id) == booked[id] + 1

\* recordRefund posts unless a live entry is there.
EntriesAfter(id) == IF booked[id] > 0 THEN booked[id] ELSE booked[id] + 1

\* The order's row stays locked from the increment to the commit.
ApplyCompleted(id, amount) ==
    /\ RefundLtePaid(refunded + amount)
    /\ refunded' = refunded + amount
    /\ payment' = PaymentStatusAfterRefund(refunded')
    /\ booked' = [booked EXCEPT ![id] = EntriesAfter(id)]

Become(a, w) == desk' = [desk EXCEPT ![a] = w]
OrderKept    == UNCHANGED <<refunded, payment, booked>>

-----------------------------------------------------------------------------
ReadOrder(a) ==
    /\ desk[a] = Free
    /\ Become(a, [pc |-> "read", seen |-> refunded])
    /\ UNCHANGED <<refunds, bank>> /\ OrderKept

\* checkRefund, with the sum as it was read and the refunds in flight as they are.
CheckRefund(seen, amount) == amount <= Paid - seen - AmountOf(InStatus("PROCESSING"))

CreateByHand(a) ==
    /\ desk[a].pc = "read"
    /\ \E id \in InStatus("none"), amount \in 1..Paid :
         /\ CheckRefund(desk[a].seen, amount)
         /\ refunds' = [refunds EXCEPT ![id] =
                          [status |-> "COMPLETED", amount |-> amount, gateway |-> FALSE, ref |-> FALSE]]
         /\ ApplyCompleted(id, amount)
    /\ Become(a, Free)
    /\ UNCHANGED bank

CreateAtGateway(a) ==
    /\ desk[a].pc = "read"
    /\ \E id \in InStatus("none"), amount \in 1..Paid :
         /\ CheckRefund(desk[a].seen, amount)
         /\ refunds' = [refunds EXCEPT ![id] =
                          [status |-> "PROCESSING", amount |-> amount, gateway |-> TRUE, ref |-> FALSE]]
         /\ Become(a, [pc |-> "calling", id |-> id])
    /\ UNCHANGED bank /\ OrderKept

\* Refused by checkRefund, or rolled back by the CHECK.
Refused(a) ==
    /\ desk[a].pc = "read"
    /\ Become(a, Free)
    /\ UNCHANGED <<refunds, bank>> /\ OrderKept

SaysOf(state) ==
    CASE state = "returned" -> "COMPLETED" [] state = "refused" -> "FAILED" [] OTHER -> "PROCESSING"

\* The gateway acts on the request; its answer may be lost.
CallGateway(a) ==
    /\ desk[a].pc = "calling"
    /\ LET id == desk[a].id
       IN  \E state \in {"returned", "processing", "refused"} :
             /\ bank' = [bank EXCEPT ![id] = state]
             /\ \/ Become(a, [pc |-> "answered", id |-> id, says |-> SaysOf(state), creating |-> TRUE])
                \/ Become(a, [pc |-> "failing", id |-> id])
    /\ UNCHANGED refunds /\ OrderKept

BankDecides(id) ==
    /\ bank[id] = "processing"
    /\ \E state \in {"returned", "refused"} : bank' = [bank EXCEPT ![id] = state]
    /\ UNCHANGED <<refunds, desk>> /\ OrderKept

\* Staff refresh a refund that has a reference.
Refresh(a, id) ==
    /\ desk[a] = Free
    /\ refunds[id].status = "PROCESSING" /\ refunds[id].ref
    /\ Become(a, [pc |-> "answered", id |-> id, says |-> SaysOf(bank[id]), creating |-> FALSE])
    /\ UNCHANGED <<refunds, bank>> /\ OrderKept

\* settleGateway: a completed refund is left alone ...
ReadRefund(a) ==
    /\ desk[a].pc = "answered"
    /\ IF refunds[desk[a].id].status = "COMPLETED"
       THEN Become(a, Free)
       ELSE Become(a, [desk[a] EXCEPT !.pc = "settling"])
    /\ UNCHANGED <<refunds, bank>> /\ OrderKept

\* ... any other takes the answer, whatever it has become since that look.
WriteRefund(a) ==
    /\ desk[a].pc = "settling"
    /\ LET id   == desk[a].id
           says == desk[a].says
       IN  /\ refunds' = [refunds EXCEPT ![id].status = says, ![id].ref = @ \/ says # "FAILED"]
           /\ IF says = "COMPLETED" THEN ApplyCompleted(id, refunds[id].amount) ELSE OrderKept
    /\ Become(a, Free)
    /\ UNCHANGED bank

\* The settling transaction fails, on the CHECK or otherwise: create() goes on to
\* its catch, a refresh just reports the error.
AbortSettle(a) ==
    /\ desk[a].pc = "settling"
    /\ Become(a, IF desk[a].creating THEN [pc |-> "failing", id |-> desk[a].id] ELSE Free)
    /\ UNCHANGED <<refunds, bank>> /\ OrderKept

MarkFailed(a) ==
    /\ desk[a].pc = "failing"
    /\ refunds' = [refunds EXCEPT ![desk[a].id].status = "FAILED"]
    /\ Become(a, Free)
    /\ UNCHANGED bank /\ OrderKept

-----------------------------------------------------------------------------
RefundsInit ==
    /\ refunds = [id \in Ids |-> NoRefund]
    /\ refunded = 0
    /\ payment = "PAID"
    /\ booked = [id \in Ids |-> 0]
    /\ bank = [id \in Ids |-> "none"]
    /\ desk = [a \in Admins |-> Free]

RefundsNext ==
    \/ \E a \in Admins :
         \/ ReadOrder(a) \/ CreateByHand(a) \/ CreateAtGateway(a) \/ Refused(a)
         \/ CallGateway(a)
         \/ \E id \in Ids : Refresh(a, id)
         \/ ReadRefund(a) \/ WriteRefund(a) \/ AbortSettle(a) \/ MarkFailed(a)
    \/ \E id \in Ids : BankDecides(id)

RefundsSpec == RefundsInit /\ [][RefundsNext]_refundVars

-----------------------------------------------------------------------------
RefundsTypeOK ==
    /\ refunds \in [Ids -> {NoRefund} \cup Refund]
    /\ refunded \in 0..Paid
    /\ payment \in {"PAID", "PARTIALLY_REFUNDED", "REFUNDED"}
    /\ booked \in [Ids -> Nat]
    /\ bank \in [Ids -> {"none", "processing", "returned", "refused"}]
    /\ desk \in [Admins -> Requests]

\* Settled twice or from two sides, a refund is one entry in the cash ledger, which
\* never shows more going out than the order does; the payment status is the one
\* that goes with the order's sum, and every COMPLETED refund is in that sum.
RefundsAgree ==
    /\ \A id \in Ids : booked[id] <= 1
    /\ AmountOf({id \in Ids : booked[id] > 0}) <= refunded
    /\ payment = PaymentStatusAfterRefund(refunded)
    /\ AmountOf(InStatus("COMPLETED")) <= refunded

\* amount_refunded is the sum of the completed refunds (refunds.service.ts:19-21,
\* "order paid/refunded totals, the cash ledger ... change in one transaction").
RefundsAddUp == refunded = AmountOf(InStatus("COMPLETED"))

\* "Paid - already refunded - refunds in flight, so two admins cannot refund the
\* same money" (refund-math.ts:9): what is refunded and in flight was paid.
AdmittedWithinPaid == refunded + AmountOf(InStatus("PROCESSING")) <= Paid

\* A refund sent to the gateway "may stay PROCESSING until the bank confirms"
\* (refunds.service.ts:18): one that the bank has paid out is not on record FAILED.
ReturnedNotFailed == \A id \in Ids : bank[id] = "returned" => refunds[id].status # "FAILED"
=============================================================================
