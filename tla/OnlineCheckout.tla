-------------------------- MODULE OnlineCheckout ---------------------------
(***************************************************************************)
(* Payment attempts at the SSLCOMMERZ gateway, next to the order desk.     *)
(*                                                                         *)
(* Every attempt is a payments row with its own tran_id (order, number).   *)
(* Starting one is several transactions: read and count, supersede the     *)
(* open ones, insert, open the session.  An attempt is settled from four   *)
(* sides: the browser coming back (success or fail), the gateway's IPN,    *)
(* the reconciler.  Each of them asks the gateway, waits, and then runs a  *)
(* conditional UPDATE; outcomes reach the desk as events in memory.        *)
(*                                                                         *)
(* Clock: `old` holds the attempts past EXPIRE_AFTER_MIN; a request ends   *)
(* before the reconciler looks at its attempt (5 minutes).                 *)
(* Abstracted: amounts (each attempt asks for the whole order), fees, the  *)
(* ledger entry that commits with SUCCESS, unsigned IPNs, who may pay.     *)
(***************************************************************************)
EXTENDS OrderEvents

CONSTANTS
    Shoppers,      \* checkout requests in flight at the same time
    Workers,       \* settlements in flight at the same time
    MaxAttempts    \* bound: attempts per order

ASSUME AttemptsAssumption == MaxAttempts \in Nat \ {0}

VARIABLES
    pay,        \* payments.status per tran_id; "none" when there is no row
    gateway,    \* what happened at the gateway
    notices,    \* browser redirects and IPNs the gateway has caused
    processed,  \* payment_events with processed_at
    checkout,   \* what each checkout request is about to do
    asked,      \* what each settlement was told by the gateway
    succeeded,  \* payment.succeeded events not handled yet
    failed,     \* payment.failed events not handled yet
    old,        \* attempts initiated more than 45 minutes ago
    restarts

attemptVars  == <<pay, gateway, notices, processed, checkout, asked, succeeded, failed, old, restarts>>
checkoutVars == <<vars, attemptVars>>

-----------------------------------------------------------------------------
Tran          == Orders \X (1..MaxAttempts)
OrderOf(t)    == t[1]
OPEN          == {"INITIATED", "PENDING"}
PaymentStatus == OPEN \cup {"SUCCESS", "FAILED", "CANCELLED", "EXPIRED"}
Attempts(o)   == {t \in Tran : OrderOf(t) = o /\ pay[t] # "none"}

Notice     == {"success", "ipn", "fail", "ipnFail"}
Confirming == {"success", "ipn"}               \* carry a val_id

NoRequest == [pc |-> "idle"]
Requests  == {NoRequest} \cup [pc : {"counted", "superseded", "opening"}, tran : Tran]

Aims       == {"SUCCESS", "FAILED", "EXPIRED", "PENDING", "nothing"}
Settlement == {NoRequest} \cup [tran : Tran, via : Notice \cup {"job"}, aim : Aims]

-----------------------------------------------------------------------------
(* Starting an attempt.                                                    *)

Begin(h, o) ==
    /\ checkout[h] = NoRequest
    /\ Placed(o) /\ orders[o].status \notin Terminal
    /\ orders[o].method = "SSLCOMMERZ" /\ orders[o].payment = "UNPAID"
    /\ LET n == Cardinality(Attempts(o)) + 1
       IN  n <= MaxAttempts /\ checkout' = [checkout EXCEPT ![h] = [pc |-> "counted", tran |-> <<o, n>>]]
    /\ UNCHANGED <<vars, pay, gateway, notices, processed, asked, succeeded, failed, old, restarts>>

\* The open attempts of the order are cancelled; nobody is told.
Superseded(o) ==
    [t \in Tran |-> IF t \in Attempts(o) /\ pay[t] \in OPEN THEN "CANCELLED" ELSE pay[t]]

Supersede(h) ==
    /\ checkout[h].pc = "counted"
    /\ pay' = Superseded(OrderOf(checkout[h].tran))
    /\ checkout' = [checkout EXCEPT ![h].pc = "superseded"]
    /\ UNCHANGED <<vars, gateway, notices, processed, asked, succeeded, failed, old, restarts>>

\* Variant: the attempts are counted again just before the insert.
CreateRecounting(h) ==
    /\ checkout[h].pc = "superseded"
    /\ LET o == OrderOf(checkout[h].tran)
           t == <<o, Cardinality(Attempts(o)) + 1>>
       IN  /\ t \in Tran
           /\ pay' = [pay EXCEPT ![t] = "INITIATED"]
           /\ checkout' = [checkout EXCEPT ![h] = [pc |-> "opening", tran |-> t]]
    /\ UNCHANGED <<vars, gateway, notices, processed, asked, succeeded, failed, old, restarts>>

\* tran_id is unique: the request that counted the same number fails.
Create(h) ==
    /\ checkout[h].pc = "superseded"
    /\ LET t == checkout[h].tran
       IN  IF pay[t] = "none"
           THEN /\ pay' = [pay EXCEPT ![t] = "INITIATED"]
                /\ checkout' = [checkout EXCEPT ![h].pc = "opening"]
           ELSE /\ checkout' = [checkout EXCEPT ![h] = NoRequest]
                /\ UNCHANGED pay
    /\ UNCHANGED <<vars, gateway, notices, processed, asked, succeeded, failed, old, restarts>>

\* The gateway opens the session, or the row is FAILED whatever it was.
OpenSession(h) ==
    /\ checkout[h].pc = "opening"
    /\ LET t == checkout[h].tran
       IN  \/ gateway' = [gateway EXCEPT ![t] = "session"] /\ UNCHANGED pay
           \/ pay' = [pay EXCEPT ![t] = "FAILED"] /\ UNCHANGED gateway
    /\ checkout' = [checkout EXCEPT ![h] = NoRequest]
    /\ UNCHANGED <<vars, notices, processed, asked, succeeded, failed, old, restarts>>

-----------------------------------------------------------------------------
(* The shopper at the gateway.  A declined card may be tried again in the  *)
(* same session; the session of a superseded attempt stays open.           *)

ShopperPays(t) ==
    /\ gateway[t] \in {"session", "declined"}
    /\ \E result \in {"paid", "paidOtherAmount"} : gateway' = [gateway EXCEPT ![t] = result]
    /\ notices' = notices \cup {<<n, t>> : n \in Confirming}
    /\ UNCHANGED <<vars, pay, processed, checkout, asked, succeeded, failed, old, restarts>>

ShopperDeclined(t) ==
    /\ gateway[t] = "session"
    /\ gateway' = [gateway EXCEPT ![t] = "declined"]
    /\ notices' = notices \cup {<<n, t>> : n \in Notice \ Confirming}
    /\ UNCHANGED <<vars, pay, processed, checkout, asked, succeeded, failed, old, restarts>>

NoRequestFor(t) == \A h \in Shoppers : checkout[h] # NoRequest => checkout[h].tran # t

Grow(t) ==
    /\ pay[t] # "none" /\ t \notin old
    /\ NoRequestFor(t)
    /\ old' = old \cup {t}
    /\ UNCHANGED <<vars, pay, gateway, notices, processed, checkout, asked, succeeded, failed, restarts>>

-----------------------------------------------------------------------------
(* Settlement: ask, wait, write.                                           *)

\* Variant: an answer for another amount passes.
AimsAnyAmount(t, via, fallback) ==
    CASE gateway[t] \in {"paid", "paidOtherAmount"} ->
            {"SUCCESS", "PENDING"} \cup (IF via \in Confirming THEN {} ELSE {"nothing"})
      [] gateway[t] = "declined" -> {"FAILED", "nothing"}
      [] OTHER -> {fallback, "nothing",
                   IF fallback = "EXPIRED" /\ pay[t] = "PENDING" THEN "EXPIRED" ELSE "PENDING"}

\* The status that the gateway's answer makes the settlement go for.  A capture
\* is validated, or is not what was asked for, or cannot be validated now.  A
\* decline fails the attempt.  An attempt the gateway has no record of gets the
\* fallback; one it calls pending stays pending, or expires on the second look.
\* The status API may be unreachable.
AimsOf(t, via, fallback) ==
    CASE gateway[t] \in {"paid", "paidOtherAmount"} ->
            {IF gateway[t] = "paid" THEN "SUCCESS" ELSE "FAILED", "PENDING"}
            \cup (IF via \in Confirming THEN {} ELSE {"nothing"})
      [] gateway[t] = "declined" -> {"FAILED", "nothing"}
      [] OTHER -> {fallback, "nothing",
                   IF fallback = "EXPIRED" /\ pay[t] = "PENDING" THEN "EXPIRED" ELSE "PENDING"}

Ask(w, t, via, fallback) ==
    /\ asked[w] = NoRequest
    /\ \E aim \in AimsOf(t, via, fallback) :
         asked' = [asked EXCEPT ![w] = [tran |-> t, via |-> via, aim |-> aim]]
    /\ UNCHANGED <<vars, pay, gateway, notices, processed, checkout, succeeded, failed, old, restarts>>

\* A redirect or an IPN, first or again; a processed event row makes it a
\* duplicate.  Only a signed fail redirect carries a fallback.
Deliver(w, n, t) ==
    /\ <<n, t>> \in notices \ processed
    /\ \E fallback \in IF n = "fail" THEN {"nothing", "FAILED"} ELSE {"nothing"} : Ask(w, t, n, fallback)

\* Variant: the reconciler never gives up on an attempt.
ReconcilePatiently(w, t) ==
    /\ pay[t] \in OPEN
    /\ NoRequestFor(t)
    /\ Ask(w, t, "job", "nothing")

\* The reconciler takes up an open attempt.
Reconcile(w, t) ==
    /\ pay[t] \in OPEN
    /\ NoRequestFor(t)
    /\ Ask(w, t, "job", IF t \in old THEN "EXPIRED" ELSE "nothing")

\* Variant: UPDATE ... WHERE id, whatever the attempt has become.
CloseAnyway(t, status) ==
    /\ pay' = [pay EXCEPT ![t] = status]
    /\ failed' = failed \cup {t}
    /\ UNCHANGED succeeded

\* fail(): UPDATE ... WHERE status IN OPEN; the desk is told when a row matched.
Close(t, status) ==
    /\ IF pay[t] \in OPEN
       THEN pay' = [pay EXCEPT ![t] = status] /\ failed' = failed \cup {t}
       ELSE UNCHANGED <<pay, failed>>
    /\ UNCHANGED succeeded

\* confirm(): UPDATE ... WHERE status NOT IN (SUCCESS, REFUNDED).
Capture(t) ==
    /\ IF pay[t] # "SUCCESS"
       THEN pay' = [pay EXCEPT ![t] = "SUCCESS"] /\ succeeded' = succeeded \cup {t}
       ELSE UNCHANGED <<pay, succeeded>>
    /\ UNCHANGED failed

MarkPending(t) ==
    /\ pay' = [pay EXCEPT ![t] = IF @ = "INITIATED" THEN "PENDING" ELSE @]
    /\ UNCHANGED <<succeeded, failed>>

Act(t, aim) ==
    CASE aim = "SUCCESS" -> Capture(t)
      [] aim \in {"FAILED", "EXPIRED"} -> Close(t, aim)
      [] aim = "PENDING" -> MarkPending(t)
      [] aim = "nothing" -> UNCHANGED <<pay, succeeded, failed>>

\* The write, and done() on the event row of a redirect or an IPN.
Settle(w) ==
    /\ asked[w] # NoRequest
    /\ Act(asked[w].tran, asked[w].aim)
    /\ processed' = processed \cup ({<<asked[w].via, asked[w].tran>>} \cap notices)
    /\ asked' = [asked EXCEPT ![w] = NoRequest]
    /\ UNCHANGED <<vars, gateway, notices, checkout, old, restarts>>

\* The write fails: the error is stored and the event stays unprocessed.
FailToSettle(w) ==
    /\ asked[w] # NoRequest
    /\ asked' = [asked EXCEPT ![w] = NoRequest]
    /\ UNCHANGED <<vars, pay, gateway, notices, processed, checkout, succeeded, failed, old, restarts>>

-----------------------------------------------------------------------------
(* The desk's side.                                                        *)

DeskKeeps == UNCHANGED <<pay, gateway, notices, processed, checkout, asked, old, restarts>>

\* onGatewaySuccess; an order that is not UNPAID returns early.
OnSucceeded(s, t) ==
    /\ Free(s)
    /\ t \in succeeded
    /\ IF orders[OrderOf(t)].payment = "UNPAID" THEN ReadCapture(s, OrderOf(t)) ELSE UNCHANGED vars
    /\ succeeded' = succeeded \ {t}
    /\ UNCHANGED failed /\ DeskKeeps

Alive(o, except) == {t \in Attempts(o) \ {except} : pay[t] \in OPEN \cup {"SUCCESS"}}

\* onGatewayFailure: cancel unless the order moved on or another attempt is alive.
OnFailed(s, t) ==
    /\ Free(s)
    /\ t \in failed
    /\ IF orders[OrderOf(t)].status = "PENDING" /\ orders[OrderOf(t)].payment = "UNPAID"
          /\ Alive(OrderOf(t), t) = {}
       THEN DecideAutoCancel(s, OrderOf(t), "WEBHOOK")
       ELSE UNCHANGED vars
    /\ failed' = failed \ {t}
    /\ UNCHANGED succeeded /\ DeskKeeps

\* cancelStaleUnpaid looks at captured and pending attempts, not at fresh ones.
Sweep(s, o) ==
    /\ \A t \in Attempts(o) : pay[t] \notin {"SUCCESS", "PENDING"}
    /\ DecideAutoCancel(s, o, "SYSTEM")
    /\ UNCHANGED <<succeeded, failed>> /\ DeskKeeps

DeskWithCheckout ==
    \/ /\ \/ \E o \in Orders : Place(o)
          \/ \E s \in Sessions :
               \/ \E o \in Orders : ReadTransition(s, o) \/ ReadReopen(s, o) \/ ReadMarkPaid(s, o)
               \/ ReadAutoCancel(s) \/ WritePlanned(s) \/ RollBackPlanned(s)
               \/ WriteMarkPaid(s) \/ WriteCapture(s)
       /\ UNCHANGED attemptVars
    \/ \E s \in Sessions :
         \/ \E t \in Tran : OnSucceeded(s, t) \/ OnFailed(s, t)
         \/ \E o \in Orders : Sweep(s, o)

Restart ==
    /\ restarts < MaxRestarts
    /\ restarts' = restarts + 1
    /\ DropRequests
    /\ checkout' = [h \in Shoppers |-> NoRequest]
    /\ asked' = [w \in Workers |-> NoRequest]
    /\ succeeded' = {} /\ failed' = {}
    /\ UNCHANGED <<pay, gateway, notices, processed, old>>

-----------------------------------------------------------------------------
CheckoutInit ==
    /\ Init
    /\ pay = [t \in Tran |-> "none"]
    /\ gateway = [t \in Tran |-> "none"]
    /\ notices = {} /\ processed = {}
    /\ checkout = [h \in Shoppers |-> NoRequest]
    /\ asked = [w \in Workers |-> NoRequest]
    /\ succeeded = {} /\ failed = {} /\ old = {}
    /\ restarts = 0

CheckoutNext ==
    \/ DeskWithCheckout
    \/ \E h \in Shoppers :
         \/ \E o \in Orders : Begin(h, o)
         \/ Supersede(h) \/ Create(h) \/ OpenSession(h)
    \/ \E t \in Tran : ShopperPays(t) \/ ShopperDeclined(t) \/ Grow(t)
    \/ \E w \in Workers :
         \/ \E t \in Tran : Reconcile(w, t) \/ \E n \in Notice : Deliver(w, n, t)
         \/ Settle(w) \/ FailToSettle(w)
    \/ Restart

\* The gateway was reached, and had a capture validated.
Definite(t, aim) == aim # "nothing" /\ (gateway[t] \in {"paid", "paidOtherAmount"} => aim # "PENDING")
Learn(w, t)  == Reconcile(w, t) /\ Definite(t, asked'[w].aim)
Record(w, t) ==
    /\ asked[w] # NoRequest /\ asked[w].via = "job" /\ asked[w].tran = t
    /\ Definite(t, asked[w].aim)
    /\ Settle(w)

\* A request goes on, time passes, the cron job keeps coming back to an open
\* attempt, is answered sooner or later, and its write succeeds sooner or later.
CheckoutFairness ==
    /\ \A h \in Shoppers : WF_checkoutVars(Supersede(h) \/ Create(h) \/ OpenSession(h))
    /\ \A w \in Workers : WF_checkoutVars(Settle(w) \/ FailToSettle(w))
    /\ \A t \in Tran :
         /\ WF_checkoutVars(Grow(t))
         /\ SF_checkoutVars(\E w \in Workers : Learn(w, t))
         /\ SF_checkoutVars(\E w \in Workers : Record(w, t))

CheckoutSpec     == CheckoutInit /\ [][CheckoutNext]_checkoutVars
FairCheckoutSpec == CheckoutSpec /\ CheckoutFairness

-----------------------------------------------------------------------------
CheckoutTypeOK ==
    /\ pay \in [Tran -> PaymentStatus \cup {"none"}]
    /\ gateway \in [Tran -> {"none", "session", "declined", "paid", "paidOtherAmount"}]
    /\ processed \subseteq notices /\ notices \subseteq Notice \X Tran
    /\ checkout \in [Shoppers -> Requests]
    /\ asked \in [Workers -> Settlement]
    /\ succeeded \subseteq {t \in Tran : pay[t] = "SUCCESS"}
    /\ failed \subseteq {t \in Tran : pay[t] \notin OPEN}
    /\ old \subseteq Tran

\* However requests for the same order overlap, at most one of its attempts is
\* open: the unique tran_id settles who wins, because the attempts are counted
\* before the open ones are superseded.
SingleOpenAttempt == \A o \in Orders : Cardinality({t \in Attempts(o) : pay[t] \in OPEN}) <= 1

\* "A success callback, the IPN and the reconciler racing each other produce
\* exactly one SUCCESS and one event" (payment-settlement.service.ts:23-25), and the
\* success is for good, whatever late answer, retry or superseding request still runs.
OneSuccessOneEvent ==
    [][\A t \in Tran :
         /\ t \in succeeded' \ succeeded <=> pay[t] # "SUCCESS" /\ pay'[t] = "SUCCESS"
         /\ pay[t] = "SUCCESS" => pay'[t] = "SUCCESS"]_checkoutVars

\* Only what the gateway captured, in the amount asked for, is ever a SUCCESS.
CaptureReal == \A t \in Tran : pay[t] = "SUCCESS" => gateway[t] = "paid"

\* The safety net: no attempt stays open for ever, even when the browser and the
\* IPN never come back and the process restarts half-way.
AttemptsSettle == \A t \in Tran : pay[t] \in OPEN ~> pay[t] \notin OPEN

\* An order is charged once (payment-checkout.service.ts:56, "a still-open
\* earlier attempt is superseded by this one").
ChargedOnce == \A o \in Orders : Cardinality({t \in Attempts(o) : pay[t] = "SUCCESS"}) <= 1

\* A processed delivery of a capture has recorded it, or has left the attempt to
\* the reconciler (payment-events.service.ts:18, "an earlier delivery that failed
\* mid-way is handed back for another attempt").
ProcessedIsRecorded ==
    \A t \in Tran, n \in Confirming :
        <<n, t>> \in processed /\ gateway[t] = "paid" => pay[t] \in OPEN \cup {"SUCCESS"}

\* Nothing about the order is under way or pending.
QuietOrder(o) ==
    /\ \A t \in succeeded : OrderOf(t) # o
    /\ \A s \in Sessions : work[s] # Idle => work[s].order # o

\* "Gateway captured the money -> mark paid" (order-payment.service.ts:54): once
\* everything has been handled, a captured attempt's order is not unpaid.
CaptureReachesOrder ==
    \A t \in Tran : pay[t] = "SUCCESS" /\ QuietOrder(OrderOf(t)) => orders[OrderOf(t)].payment # "UNPAID"
=============================================================================
