------------------------------ MODULE Cashbook ------------------------------
(***************************************************************************)
(* Cash accounts, the append-only cash book and the supplier bills it      *)
(* pays: manual entries, transfers, reversals, purchases and payments,     *)
(* editing an account and removing a supplier, by several clerks at once.  *)
(*                                                                         *)
(* Transactions are READ COMMITTED.  A payment locks its bill; a reversal, *)
(* an account's edit, a purchase and a supplier's removal read first and   *)
(* write later, unlocked: they are two steps, of which the second relies   *)
(* on what the first has read.                                             *)
(* Abstracted: memos, categories, dates, the bill's lines (their copies    *)
(* are StockLots!AddBatchOf); entries of orders are OrderBooks, Refunds.   *)
(***************************************************************************)
EXTENDS Integers, Sequences, FiniteSets, FiniteSetsExt, SequencesExt, Sums

CONSTANTS
    Accounts, Suppliers, Clerks,
    Amounts,       \* of entries and opening balances
    Totals,        \* of bills
    MaxEntries,    \* bound: rows in the book
    MaxBills       \* bound: bills

ASSUME CashAssumption ==
    /\ Amounts \cup Totals \subseteq Nat \ {0}
    /\ {MaxEntries, MaxBills} \subseteq Nat

VARIABLES
    account,   \* cash_accounts: open, and the opening balance
    book,      \* cash_transactions, in the order they were posted
    bills,     \* purchases: supplier, total, amount_paid
    suppliers, \* suppliers not removed
    clerk      \* per clerk: what the open request has read

cashVars == <<account, book, bills, suppliers, clerk>>

-----------------------------------------------------------------------------
AtRest == [at |-> "free"]
Nothing == 0

Opposite(dir) == IF dir = "IN" THEN "OUT" ELSE "IN"
Entry(a, dir, kind, n, bill, group) ==
    [account |-> a, dir |-> dir, kind |-> kind, amount |-> n, bill |-> bill, group |-> group, reverses |-> Nothing]

ReversedIn(b, e) == \E r \in DOMAIN b : b[r].reverses = e
Reversed(e) == ReversedIn(book, e)
Live == {e \in DOMAIN book : book[e].reverses = Nothing /\ ~Reversed(e)}

\* post: an account that is closed takes reversals only.
Post(entries) ==
    /\ Len(book) + Len(entries) <= MaxEntries
    /\ \A i \in DOMAIN entries : entries[i].reverses = Nothing => account[entries[i].account].open
    /\ book' = book \o entries

\* manualEntry, of a kind staff may write by hand.
ManualEntry(a, dir, n) ==
    /\ Post(<<Entry(a, dir, "MANUAL", n, Nothing, Nothing)>>)
    /\ UNCHANGED <<account, bills, suppliers, clerk>>

\* The group of a pair is named after its first leg.
Transfer(a, b, n) ==
    /\ a # b
    /\ LET group == Len(book) + 1 IN
         Post(<<Entry(a, "OUT", "TRANSFER", n, Nothing, group), Entry(b, "IN", "TRANSFER", n, Nothing, group)>>)
    /\ UNCHANGED <<account, bills, suppliers, clerk>>

\* create: the supplier is looked up, then the bill and a payment are written.
ReadSupplier(c, s) ==
    /\ clerk[c] = AtRest /\ s \in suppliers
    /\ clerk' = [clerk EXCEPT ![c] = [at |-> "bill", supplier |-> s]]
    /\ UNCHANGED <<account, book, bills, suppliers>>

CreateBill(c, total, paid, a) ==
    /\ clerk[c].at = "bill" /\ Len(bills) < MaxBills
    /\ paid <= total
    /\ bills' = Append(bills, [supplier |-> clerk[c].supplier, total |-> total, paid |-> paid])
    /\ IF paid = 0 THEN UNCHANGED book ELSE Post(<<Entry(a, "OUT", "PURCHASE_PAYMENT", paid, Len(bills'), Nothing)>>)
    /\ clerk' = [clerk EXCEPT ![c] = AtRest]
    /\ UNCHANGED <<account, suppliers>>

Outstanding(b) == bills[b].total - bills[b].paid

\* pay, under the lock on the bill.
Pay(b, n, a) ==
    /\ n <= Outstanding(b)
    /\ bills' = [bills EXCEPT ![b].paid = Min({@ + n, bills[b].total})]
    /\ Post(<<Entry(a, "OUT", "PURCHASE_PAYMENT", n, b, Nothing)>>)
    /\ UNCHANGED <<account, suppliers, clerk>>

\* A transfer is reversed as a pair; its second leg follows the first.
Legs(e) == IF book[e].group = Nothing THEN <<e>> ELSE <<book[e].group, book[e].group + 1>>

\* reverse: the entry and its other leg are read ...
ReadEntry(c, e) ==
    /\ clerk[c] = AtRest
    /\ book[e].reverses = Nothing
    /\ \A l \in Range(Legs(e)) : ~Reversed(l)
    /\ clerk' = [clerk EXCEPT ![c] = [at |-> "reverse", legs |-> Legs(e)]]
    /\ UNCHANGED <<account, book, bills, suppliers>>

\* Variant: the direction is copied with the rest.
ReversalSameWay(l, group) ==
    [book[l] EXCEPT !.group = group, !.reverses = l]

Reversal(l, group) ==
    [book[l] EXCEPT !.dir = Opposite(@), !.group = group, !.reverses = l]
Reversals(legs) ==
    [i \in DOMAIN legs |-> Reversal(legs[i], IF Len(legs) > 1 THEN Len(book) + 1 ELSE Nothing)]

\* What some entries paid of a bill.
PaidFor(b, entries) == SumOf([e \in entries |-> IF book[e].bill = b THEN book[e].amount ELSE 0], entries)

\* unpayPurchase, for a leg that paid a bill.
Unpaid(legs) ==
    [b \in DOMAIN bills |-> [bills[b] EXCEPT !.paid = Max({@ - PaidFor(b, Range(legs)), 0})]]

\* Variant: reverses_id is not unique.
WriteReversalAnyway(c) ==
    /\ clerk[c].at = "reverse"
    /\ Post(Reversals(clerk[c].legs))
    /\ bills' = Unpaid(clerk[c].legs)
    /\ clerk' = [clerk EXCEPT ![c] = AtRest]
    /\ UNCHANGED <<account, suppliers>>

\* ... and written back, unless a reversal of one came first (reverses_id is unique).
WriteReversal(c) ==
    /\ clerk[c].at = "reverse"
    /\ IF \E l \in Range(clerk[c].legs) : Reversed(l) THEN UNCHANGED <<book, bills>>
       ELSE Post(Reversals(clerk[c].legs)) /\ bills' = Unpaid(clerk[c].legs)
    /\ clerk' = [clerk EXCEPT ![c] = AtRest]
    /\ UNCHANGED <<account, suppliers>>

Used(a) == \E e \in DOMAIN book : book[e].account = a

\* update: an opening balance may change while the account has no entry.
ReadAccount(c, a, n) ==
    /\ clerk[c] = AtRest
    /\ n # account[a].opening /\ ~Used(a)
    /\ clerk' = [clerk EXCEPT ![c] = [at |-> "account", account |-> a, opening |-> n]]
    /\ UNCHANGED <<account, book, bills, suppliers>>

WriteAccount(c) ==
    /\ clerk[c].at = "account"
    /\ account' = [account EXCEPT ![clerk[c].account].opening = clerk[c].opening]
    /\ clerk' = [clerk EXCEPT ![c] = AtRest]
    /\ UNCHANGED <<book, bills, suppliers>>

SetActive(a) ==
    /\ account' = [account EXCEPT ![a].open = ~@]
    /\ UNCHANGED <<book, bills, suppliers, clerk>>

Due(s) == MapThenSumSet(Outstanding, {b \in DOMAIN bills : bills[b].supplier = s})

\* remove: what is due is read, then the supplier is marked as deleted.
ReadDue(c, s) ==
    /\ clerk[c] = AtRest /\ s \in suppliers /\ Due(s) = 0
    /\ clerk' = [clerk EXCEPT ![c] = [at |-> "remove", supplier |-> s]]
    /\ UNCHANGED <<account, book, bills, suppliers>>

RemoveSupplier(c) ==
    /\ clerk[c].at = "remove"
    /\ suppliers' = suppliers \ {clerk[c].supplier}
    /\ clerk' = [clerk EXCEPT ![c] = AtRest]
    /\ UNCHANGED <<account, book, bills>>

-----------------------------------------------------------------------------
CashInit ==
    /\ account = [a \in Accounts |-> [open |-> TRUE, opening |-> 0]]
    /\ book = <<>>
    /\ bills = <<>>
    /\ suppliers = Suppliers
    /\ clerk = [c \in Clerks |-> AtRest]

CashNext ==
    \/ \E a \in Accounts, n \in Amounts :
         \/ \E dir \in {"IN", "OUT"} : ManualEntry(a, dir, n)
         \/ \E b \in Accounts : Transfer(a, b, n)
         \/ \E b \in DOMAIN bills : Pay(b, n, a)
    \/ \E a \in Accounts : SetActive(a)
    \/ \E c \in Clerks :
         \/ WriteReversal(c) \/ WriteAccount(c) \/ RemoveSupplier(c)
         \/ \E s \in Suppliers : ReadSupplier(c, s) \/ ReadDue(c, s)
         \/ \E e \in DOMAIN book : ReadEntry(c, e)
         \/ \E a \in Accounts, n \in Amounts : ReadAccount(c, a, n)
         \/ \E a \in Accounts, total \in Totals, paid \in Amounts \cup {0} : CreateBill(c, total, paid, a)

CashSpec == CashInit /\ [][CashNext]_cashVars

-----------------------------------------------------------------------------
CashTypeOK ==
    /\ account \in [Accounts -> [open : BOOLEAN, opening : Nat]]
    /\ suppliers \subseteq Suppliers
    /\ \A b \in DOMAIN bills : bills[b].supplier \in Suppliers /\ bills[b].paid \in 0..bills[b].total
    /\ \A e \in DOMAIN book : book[e].account \in Accounts /\ book[e].reverses \in 0..(e - 1)
    /\ \A c \in Clerks : clerk[c].at \in {"free", "bill", "reverse", "account", "remove"}

\* "Reversing a supplier payment puts the amount back on the bill"
\* (cashbook.service.ts:237): what a bill says was paid is what the book still holds as
\* paid for it, whatever is paid and reversed at the same time; the clamps to 0 and to
\* the total hide nothing.
BillsMatchBook ==
    \A b \in DOMAIN bills :
        bills[b].paid = PaidFor(b, Live)

\* What entries come to on an account.
Balance(a, entries) ==
    SumOf([e \in entries |-> IF book[e].account # a THEN 0
                             ELSE IF book[e].dir = "IN" THEN book[e].amount ELSE -book[e].amount], entries)

\* An entry takes back what an original one did: where it did it, as much, the other way.
TakesBack(r, e) ==
    /\ book[e].reverses = Nothing
    /\ book[r].account = book[e].account /\ book[r].amount = book[e].amount
    /\ book[r].kind = book[e].kind /\ book[r].bill = book[e].bill
    /\ {book[r].dir, book[e].dir} = {"IN", "OUT"}

\* "Corrections are new opposite entries. A transfer is reversed as a pair"
\* (cashbook.service.ts:187): an entry and its reversal cancel out, so that the balance of
\* an account is that of its live entries; none is taken back twice, however many clerks
\* try at once; and the two legs of a transfer are both live or both reversed.
CorrectionsBalance ==
    /\ \A r \in DOMAIN book : book[r].reverses # Nothing => TakesBack(r, book[r].reverses)
    /\ \A e, f \in DOMAIN book : book[e].reverses # Nothing /\ book[e].reverses = book[f].reverses => e = f
    /\ \A e, f \in DOMAIN book : book[e].group # Nothing /\ book[e].group = book[f].group
                                     => (e \in Live <=> f \in Live)
    /\ \A a \in Accounts : Balance(a, DOMAIN book) = Balance(a, Live)

\* "An opening balance cannot change once there are entries" (cash-accounts.service.ts:59).
OpeningLocked == [][\A a \in Accounts : Used(a) => account'[a].opening = account[a].opening]_cashVars

\* "This supplier has dues, pay first" (suppliers.service.ts:102): nothing is owed to a
\* supplier that was removed.
RemovedIsPaid == \A s \in Suppliers \ suppliers : Due(s) = 0
=============================================================================
