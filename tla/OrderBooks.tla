----------------------------- MODULE OrderBooks -----------------------------
(***************************************************************************)
(* The accounting papers of an order (invoice, receipt, credit note) and   *)
(* its cash-on-delivery and courier entries in the cashbook.  A listener   *)
(* asks the issuer to bring an order's papers up to date after every order *)
(* or payment event.  The issuer takes the order's advisory lock, reads the*)
(* order and its papers, decides what is missing, and writes it: two steps *)
(* between which the desk may move the order, for the desk does not take   *)
(* that lock.  The cashbook takes it for remittances and courier payments, *)
(* not for reversals.                                                      *)
(*                                                                         *)
(* Papers are numbered per order, in the order they were issued; amounts,  *)
(* addresses and document numbers are abstracted.  The hint an event       *)
(* carries is left out: cancelled_from is always set when it would be used.*)
(***************************************************************************)
EXTENDS OrderEvents, Sequences

CONSTANTS
    Clerks,        \* transactions on the books at the same time
    MaxByHand      \* bound: resyncs, remittances, courier payments and reversals

ASSUME ByHandAssumption == MaxByHand \in Nat

VARIABLES
    cancelledFrom,  \* orders.cancelled_from
    papers,         \* financial_documents of each order
    cod,            \* COD_REMITTANCE entries of each order that are not reversed
    courier,        \* COURIER_PAYMENT entries of each order that are not reversed
    owed,           \* events not handled yet, per order
    clerk,          \* what each transaction holds the lock for and will write
    behind,         \* orders with a lost event or a reversed entry (history)
    sold,           \* orders that have been live (history)
    byHand,
    restarts

paperVars == <<cancelledFrom, papers, cod, courier, owed, clerk, behind, sold, byHand, restarts>>
booksVars == <<vars, paperVars>>

-----------------------------------------------------------------------------
Live     == {"CONFIRMED", "PROCESSING", "HANDED_TO_COURIER", "OUT_FOR_DELIVERY", "DELIVERED"}
Dead     == {"CANCELLED", "RETURNED"}
Shipped  == {"HANDED_TO_COURIER", "OUT_FOR_DELIVERY", "DELIVERED"}
Prepaid  == {"SSLCOMMERZ"}

Invoice          == [kind |-> "INVOICE", of |-> 0, reverseCourier |-> FALSE]
Receipt          == [kind |-> "RECEIPT", of |-> 0, reverseCourier |-> FALSE]
CreditNote(i, r) == [kind |-> "CREDIT_NOTE", of |-> i, reverseCourier |-> r]

OfKind(o, kind)  == {i \in DOMAIN papers[o] : papers[o][i].kind = kind}
Credited(o)      == {papers[o][i].of : i \in OfKind(o, "CREDIT_NOTE")}
LiveInvoices(o)  == OfKind(o, "INVOICE") \ Credited(o)

\* planBooks: what is missing, read off the order and its papers.
ReverseCourier(o) == orders[o].status # "RETURNED" /\ cancelledFrom[o] \notin Shipped

MissingIf(live, o) ==
    LET prepaid == orders[o].method \in Prepaid
        paid    == orders[o].payment # "UNPAID"
        moneyIn == paid \/ (~prepaid /\ orders[o].status = "DELIVERED")
        invoice == live /\ LiveInvoices(o) = {}
        receipt == live /\ moneyIn /\ OfKind(o, "RECEIPT") = {}
    IN  [invoice |-> invoice,
         receipt |-> receipt,
         credit  |-> {i \in LiveInvoices(o) : /\ orders[o].status \in Dead
                                              /\ \A j \in LiveInvoices(o) : j <= i},
         reverse |-> ReverseCourier(o),
         cashIn  |-> ~prepaid /\ live /\ (receipt \/ OfKind(o, "RECEIPT") # {}) /\ cod[o] = 0]

\* Variant: an invoice is for the moment of confirmation only.
MissingOnceConfirmed(o) == MissingIf(orders[o].status = "CONFIRMED", o)

Missing(o) == MissingIf(orders[o].status \in Live, o)

-----------------------------------------------------------------------------
(* The desk, and what its events owe the books.                            *)

\* Variant: the books do not listen to payments.
EventsOfStatusOnly(o) == IF o \in Moved /\ Placed(o) THEN 1 ELSE 0

\* OrderStatusChanged, OrderPaid, and the PaymentSucceeded that also reaches
\* the desk.
EventsOf(o) ==
    Cardinality({e \in {"status", "paid", "captured"} :
        \/ e = "status" /\ o \in Moved /\ Placed(o)
        \/ e = "paid" /\ o \in PaidNow
        \/ e = "captured" /\ \E s \in Sessions : /\ Free(s)
                                                 /\ work'[s].pc = "capturing"
                                                 /\ work'[s].order = o})

DeskWithEvents ==
    /\ DeskStep
    /\ cancelledFrom' = [o \in Orders |->
                           IF o \notin Moved THEN cancelledFrom[o]
                           ELSE IF orders'[o].status \in Dead THEN orders[o].status ELSE "none"]
    /\ owed' = [o \in Orders |-> owed[o] + EventsOf(o)]
    /\ sold' = sold \cup {o \in Orders : orders'[o].status \in Live}
    /\ UNCHANGED <<papers, cod, courier, clerk, behind, byHand, restarts>>

-----------------------------------------------------------------------------
(* The issuer.                                                             *)

Off == [job |-> "none"]
Locked(o) == \E k \in Clerks : clerk[k] # Off /\ clerk[k].order = o

\* Variant: nobody takes the lock.
TakeUnlocked(k, o) == clerk[k] = Off

\* pg_advisory_xact_lock: one transaction per order.
Take(k, o) == clerk[k] = Off /\ ~Locked(o)

ReadBooks(k, o) ==
    /\ Take(k, o)
    /\ Placed(o)
    /\ clerk' = [clerk EXCEPT ![k] = [job |-> "sync", order |-> o, missing |-> Missing(o)]]

OnEvent(k, o) ==
    /\ owed[o] > 0
    /\ ReadBooks(k, o)
    /\ owed' = [owed EXCEPT ![o] = @ - 1]
    /\ UNCHANGED <<vars, cancelledFrom, papers, cod, courier, behind, sold, byHand, restarts>>

\* Staff ask for the books of an order to be brought up to date.
Resync(k, o) ==
    /\ byHand < MaxByHand
    /\ byHand' = byHand + 1
    /\ ReadBooks(k, o)
    /\ UNCHANGED <<vars, cancelledFrom, papers, cod, courier, owed, behind, sold, restarts>>

\* Variant: a credit note is issued for the order, not against its invoice.
IssuedWithoutReference(m) ==
    (IF m.invoice THEN <<Invoice>> ELSE <<>>)
    \o (IF m.receipt THEN <<Receipt>> ELSE <<>>)
    \o (IF m.credit # {} THEN <<CreditNote(0, m.reverse)>> ELSE <<>>)

Issued(m) ==
    (IF m.invoice THEN <<Invoice>> ELSE <<>>)
    \o (IF m.receipt THEN <<Receipt>> ELSE <<>>)
    \o (IF m.credit # {} THEN <<CreditNote(CHOOSE i \in m.credit : TRUE, m.reverse)>> ELSE <<>>)

WriteBooks(k) ==
    /\ clerk[k].job = "sync"
    /\ LET o == clerk[k].order
           m == clerk[k].missing
       IN  /\ papers' = [papers EXCEPT ![o] = @ \o Issued(m)]
           /\ cod' = [cod EXCEPT ![o] = IF m.cashIn THEN @ + 1 ELSE @]
    /\ clerk' = [clerk EXCEPT ![k] = Off]
    /\ UNCHANGED <<vars, cancelledFrom, courier, owed, behind, sold, byHand, restarts>>

\* The retries are used up: the listener logs and returns.
FailBooks(k) ==
    /\ clerk[k].job = "sync"
    /\ behind' = behind \cup {clerk[k].order}
    /\ clerk' = [clerk EXCEPT ![k] = Off]
    /\ UNCHANGED <<vars, cancelledFrom, papers, cod, courier, owed, sold, byHand, restarts>>

-----------------------------------------------------------------------------
(* The cashbook, by hand.                                                  *)

\* The courier hands over the money of a parcel, or is paid for it: is it
\* booked already?  A parcel can be assigned while its order is still unpaid, at
\* any stage; shipments themselves are not modelled here.
ReadCash(k, o) ==
    /\ byHand < MaxByHand
    /\ byHand' = byHand + 1
    /\ Take(k, o)
    /\ \/ /\ Placed(o)
          /\ clerk' = [clerk EXCEPT ![k] = [job |-> "remit", order |-> o, booked |-> cod[o] > 0]]
       \/ /\ Placed(o) /\ orders[o].status # "PENDING"
          /\ courier[o] = 0
          /\ clerk' = [clerk EXCEPT ![k] = [job |-> "courier", order |-> o]]
    /\ UNCHANGED <<vars, cancelledFrom, papers, cod, courier, owed, behind, sold, restarts>>

WriteCash(k) ==
    /\ clerk[k].job \in {"remit", "courier"}
    /\ LET o == clerk[k].order
       IN  IF clerk[k].job = "remit"
           THEN /\ cod' = [cod EXCEPT ![o] = IF clerk[k].booked THEN @ ELSE @ + 1]
                /\ UNCHANGED courier
           ELSE /\ courier' = [courier EXCEPT ![o] = @ + 1]
                /\ UNCHANGED cod
    /\ clerk' = [clerk EXCEPT ![k] = Off]
    /\ UNCHANGED <<vars, cancelledFrom, papers, owed, behind, sold, byHand, restarts>>

\* An entry is reversed by an opposite one, without the lock; the next event of
\* the order books a cash-on-delivery entry anew.
Reverse(o) ==
    /\ byHand < MaxByHand
    /\ byHand' = byHand + 1
    /\ \/ cod[o] > 0 /\ cod' = [cod EXCEPT ![o] = @ - 1] /\ UNCHANGED courier
       \/ courier[o] > 0 /\ courier' = [courier EXCEPT ![o] = @ - 1] /\ UNCHANGED cod
    /\ behind' = behind \cup {o}
    /\ UNCHANGED <<vars, cancelledFrom, papers, owed, clerk, sold, restarts>>

Restart ==
    /\ restarts < MaxRestarts
    /\ restarts' = restarts + 1
    /\ DropRequests
    /\ behind' = behind \cup {o \in Orders : owed[o] > 0 \/ Locked(o)}
    /\ owed' = [o \in Orders |-> 0]
    /\ clerk' = [k \in Clerks |-> Off]
    /\ UNCHANGED <<cancelledFrom, papers, cod, courier, sold, byHand>>

-----------------------------------------------------------------------------
BooksInit ==
    /\ Init
    /\ cancelledFrom = [o \in Orders |-> "none"]
    /\ papers = [o \in Orders |-> <<>>]
    /\ cod = [o \in Orders |-> 0]
    /\ courier = [o \in Orders |-> 0]
    /\ owed = [o \in Orders |-> 0]
    /\ clerk = [k \in Clerks |-> Off]
    /\ behind = {}
    /\ sold = {}
    /\ byHand = 0
    /\ restarts = 0

Handle(k) == \E o \in Orders : OnEvent(k, o)
Finish(k) == WriteBooks(k) \/ FailBooks(k) \/ WriteCash(k)

BooksNext ==
    \/ DeskWithEvents
    \/ \E k \in Clerks :
         \/ Handle(k)
         \/ \E o \in Orders : Resync(k, o) \/ ReadCash(k, o)
         \/ WriteBooks(k)
         \/ FailBooks(k)
         \/ WriteCash(k)
    \/ \E o \in Orders : Reverse(o)
    \/ Restart

\* The event loop gets to every pending event, and a transaction ends.
BooksFairness == \A k \in Clerks : WF_booksVars(Handle(k)) /\ WF_booksVars(Finish(k))

BooksSpec == BooksInit /\ [][BooksNext]_booksVars /\ BooksFairness

-----------------------------------------------------------------------------
Paper == {Invoice, Receipt} \cup [kind : {"CREDIT_NOTE"}, of : Nat, reverseCourier : BOOLEAN]

BooksTypeOK ==
    /\ \A o \in Orders : \A i \in DOMAIN papers[o] : papers[o][i] \in Paper
    /\ cod \in [Orders -> Nat]
    /\ courier \in [Orders -> Nat]
    /\ owed \in [Orders -> Nat]
    /\ behind \cup sold \subseteq Orders

\* No paper twice, whatever the interleaving of events, resyncs and the
\* cashbook: at most one invoice that no credit note reverses, credit notes of
\* different invoices issued before them, one receipt, and one live entry of
\* each kind in the cashbook.
NoDuplicates ==
    \A o \in Orders :
        /\ Cardinality(LiveInvoices(o)) <= 1
        /\ Cardinality(OfKind(o, "RECEIPT")) <= 1
        /\ \A i \in OfKind(o, "CREDIT_NOTE") :
             /\ papers[o][i].of \in OfKind(o, "INVOICE")
             /\ papers[o][i].of < i
             /\ \A j \in OfKind(o, "CREDIT_NOTE") \ {i} : papers[o][j].of # papers[o][i].of
        /\ cod[o] <= 1
        /\ courier[o] <= 1

Settled(o) == owed[o] = 0 /\ ~Locked(o) /\ o \notin behind

UpToDate(o) ==
    /\ orders[o].status \in Live => LiveInvoices(o) # {}
    /\ orders[o].status \in Dead => LiveInvoices(o) = {}
    /\ orders[o].status \in Live /\ orders[o].payment # "UNPAID" => OfKind(o, "RECEIPT") # {}
    /\ orders[o].status = "DELIVERED" /\ orders[o].method \notin Prepaid => cod[o] = 1

\* Handling every event, in any order, brings the papers in line with the
\* order: a live order is invoiced, a closed one is not, the money of a live order
\* has a receipt, and a delivered cash order's money is in the cashbook.
PapersFollowOrder == \A o \in Orders : Settled(o) => UpToDate(o)

\* ... and it does come to that, once the desk is quiet.
PapersSettle == \A o \in Orders : <>[](o \in behind \/ UpToDate(o))

\* "INVOICE when the order becomes live" (document-policy.ts:7): an order that
\* was ever live has an invoice once its events are handled.
SalesInvoiced == \A o \in sold : Settled(o) => OfKind(o, "INVOICE") # {}

\* Events converge on the papers of the order as it is (document-policy.ts:16),
\* and "pending order gets nothing" (document-policy.spec.ts:16).
PendingNotInvoiced ==
    \A o \in Orders : Settled(o) /\ orders[o].status = "PENDING" => LiveInvoices(o) = {}
=============================================================================
