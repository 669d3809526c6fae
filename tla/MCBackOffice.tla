---------------------------- MODULE MCBackOffice ----------------------------
(* Money and copies, one part at a time: three refunds of one order by two *)
(* members of staff; two accounts and a supplier's bill under two clerks;  *)
(* the lots of a product that two orders ask for; the lock of the payment  *)
(* reconciler over two replicas with a pool and three runs.                *)
EXTENDS Refunds, Cashbook, StockLots, ReconcilerLock

CONSTANTS o1, o2, a1, a2, r1, r2, r3, h1, h2, v1, c1, c2, x1, x2, d1, d2, n1, n2, n3

MCAdmins    == {a1, a2}
MCIds       == {r1, r2, r3}
MCAccounts  == {h1, h2}
MCSuppliers == {v1}
MCClerks    == {c1, c2}
MCAmounts   == {1}
MCTotals    == {2}
MCParcels   == {o1, o2}
MCLots      == 1..3
MCCopies    == (o1 :> 1) @@ (o2 :> 2)
MCCosts     == {1, 2}
MCReceipts  == {2}
MCReplicas  == {x1, x2}
MCConnections == {d1, d2}
MCRuns      == {n1, n2, n3}
Alike == Permutations(MCAccounts) \cup Permutations(MCClerks)

VARIABLE part

OfficeInit ==
    /\ part \in {"refunds", "cash", "lots", "lock"}
    /\ RefundsInit /\ CashInit /\ LotsInit /\ LockInit
    /\ part # "lots" => lot = NoLots /\ costPrice = 1 /\ parcel = [o \in Parcels |-> "here"]
OfficeNext ==
    \/ part = "refunds" /\ RefundsNext /\ UNCHANGED <<part, cashVars, lotVars, lockVars>>
    \/ part = "cash" /\ CashNext /\ UNCHANGED <<part, refundVars, lotVars, lockVars>>
    \/ part = "lots" /\ LotsNext /\ UNCHANGED <<part, refundVars, cashVars, lockVars>>
    \/ part = "lock" /\ LockNext /\ UNCHANGED <<part, refundVars, cashVars, lotVars>>
OfficeSpec == OfficeInit /\ [][OfficeNext]_<<part, refundVars, cashVars, lotVars, lockVars>>

\* Every part keeps to its types: refunds within what was paid, no bill paid beyond its
\* total, no lot below zero, as the CHECK constraints ask.
TypesOK == RefundsTypeOK /\ CashTypeOK /\ LotsTypeOK
=============================================================================
