-------------------------- MODULE BackOffice_proofs --------------------------
(***************************************************************************)
(* Money and copies behind the shop, for any number of staff, rows and     *)
(* amounts.                                                                *)
(***************************************************************************)
EXTENDS Refunds, Cashbook, StockLots, ReconcilerLock, Sums_proofs, SequenceTheorems

-----------------------------------------------------------------------------
(* Refunds. A settlement may be counted twice, but then in the order's sum  *)
(* and not in the ledger: what is COMPLETED, and what is booked, never      *)
(* exceeds that sum.                                                       *)

Recorded == Ids \ InStatus("none")
AtWork == {"calling", "failing", "answered", "settling"}

\* A refund that is booked, or that a request works on, is on record.
RefundsOnRecord ==
    /\ \A id \in Ids : booked[id] > 0 => id \in Recorded
    /\ \A a \in Admins : desk[a].pc \in AtWork => desk[a].id \in Recorded

RefundInv == RefundsTypeOK /\ RefundsOnRecord /\ RefundsAgree

AmountIn(rows, S) == SumOf([id \in S |-> rows[id].amount], S)
Booked == {id \in Ids : booked[id] > 0}

\* Amounts are natural numbers, of which fewer are not more.
LEMMA AmountsShrink ==
    ASSUME NEW S, IsFiniteSet(S), NEW rows, \A id \in S : rows[id].amount \in Nat,
           NEW T \in SUBSET S, NEW later, \A id \in T : later[id].amount = rows[id].amount
    PROVE  /\ AmountIn(later, T) \in Nat /\ AmountIn(rows, S) \in Nat
           /\ AmountIn(later, T) <= AmountIn(rows, S)
<1> DEFINE f == [id \in S |-> rows[id].amount]
           g == [id \in T |-> later[id].amount]
<1>1. NatsOn(f, S) /\ \A id \in T : g[id] = f[id]
      BY DEF NatsOn
<1> HIDE DEF f, g
<1>2. SumOf(g, T) \in Nat /\ SumOf(f, S) \in Nat /\ SumOf(g, T) <= SumOf(f, S)
      BY <1>1, SumShrinks, SumNat
<1> QED BY <1>2 DEF AmountIn, f, g

\* One more refund adds at most its amount.
LEMMA AmountsGrow ==
    ASSUME NEW S, IsFiniteSet(S), NEW rows, \A id \in S : rows[id].amount \in Nat,
           NEW a, NEW T \in SUBSET (S \cup {a}), NEW later, \A id \in T : later[id].amount \in Nat,
           \A id \in T \ {a} : later[id].amount = rows[id].amount
    PROVE  /\ AmountIn(later, T) \in Nat /\ AmountIn(rows, S) \in Nat
           /\ AmountIn(later, T) <= AmountIn(rows, S) + (IF a \in T THEN later[a].amount ELSE 0)
<1> DEFINE f == [id \in S |-> rows[id].amount]
           g == [id \in T |-> later[id].amount]
           n == IF a \in T THEN later[a].amount ELSE 0
<1>1. NatsOn(f, S) /\ NatsOn(g, T) /\ n \in Nat /\ (a \in T => g[a] = n) /\ \A id \in T \ {a} : g[id] = f[id]
      BY DEF NatsOn
<1> HIDE DEF f, g, n
<1>2. SumOf(g, T) \in Nat /\ SumOf(f, S) \in Nat /\ SumOf(g, T) <= SumOf(f, S) + n
      BY <1>1, SumGrowsBy, SumNat
<1> QED BY <1>2 DEF AmountIn, f, g, n

\* Rows on record have an amount, and there are finitely many.
LEMMA RecordedRows ==
    ASSUME RefundsTypeOK
    PROVE  /\ IsFiniteSet(Recorded)
           /\ \A id \in Recorded : refunds[id] \in Refund /\ refunds[id].amount \in 1..Paid
           /\ \A S \in SUBSET Recorded : IsFiniteSet(S)
<1>1. IsFiniteSet(Recorded)
      BY RefundsAssumption, FS_Subset DEF Recorded
<1> QED BY <1>1, FS_Subset DEF RefundsTypeOK, Recorded, InStatus, NoRefund, Refund

\* The initial state.
LEMMA RefundInitial == RefundsInit => RefundInv
<1> SUFFICES ASSUME RefundsInit PROVE RefundInv
    OBVIOUS
<1>1. RefundsTypeOK /\ RefundsOnRecord
      BY RefundsAssumption DEF RefundsInit, RefundsTypeOK, RefundsOnRecord, Requests, Free, AtWork
<1>2. {id \in Ids : booked[id] > 0} = {} /\ InStatus("COMPLETED") = {}
      BY DEF RefundsInit, InStatus, NoRefund
<1>3. AmountOf({}) = 0
      BY SumEmpty DEF AmountOf
<1>4. payment = PaymentStatusAfterRefund(refunded)
      BY RefundsAssumption DEF RefundsInit, PaymentStatusAfterRefund
<1> QED BY <1>1, <1>2, <1>3, <1>4 DEF RefundInv, RefundsAgree, RefundsInit

\* A row whose status changes, and no order's sum with it, leaves the sums in bounds,
\* unless it becomes COMPLETED.
LEMMA StatusAlone ==
    ASSUME RefundInv, OrderKept, InStatus("COMPLETED")' \subseteq InStatus("COMPLETED"),
           \A id \in Recorded : refunds'[id].amount = refunds[id].amount
    PROVE  RefundsAgree'
<1> DEFINE B == Booked
           C == InStatus("COMPLETED")
           D == InStatus("COMPLETED")'
<1>1. B \in SUBSET Recorded /\ C \in SUBSET Recorded /\ D \in SUBSET C
      BY DEF RefundInv, RefundsOnRecord, Recorded, InStatus, Booked
<1>2. /\ IsFiniteSet(B) /\ IsFiniteSet(C)
      /\ \A id \in B \cup C : refunds[id].amount \in Nat /\ refunds'[id].amount = refunds[id].amount
      BY <1>1, RecordedRows, RefundsAssumption DEF RefundInv
<1> HIDE DEF B, C, D
<1>3. /\ AmountIn(refunds', B) \in Nat /\ AmountIn(refunds', B) <= AmountIn(refunds, B)
      /\ AmountIn(refunds', D) \in Nat /\ AmountIn(refunds', D) <= AmountIn(refunds, C)
      /\ AmountIn(refunds, B) \in Nat /\ AmountIn(refunds, C) \in Nat
      BY <1>1, <1>2, AmountsShrink
<1>4. AmountIn(refunds, B) <= refunded /\ AmountIn(refunds, C) <= refunded /\ refunded \in Nat
      BY RefundsAssumption DEF RefundInv, RefundsTypeOK, RefundsAgree, AmountOf, AmountIn, B, C, Booked
<1>5. AmountIn(refunds', B) <= refunded' /\ AmountIn(refunds', D) <= refunded'
      BY <1>3, <1>4 DEF OrderKept
<1>6. AmountOf({id \in Ids : booked[id] > 0})' <= refunded' /\ AmountOf(InStatus("COMPLETED"))' <= refunded'
      BY <1>5 DEF AmountOf, AmountIn, B, D, Booked, OrderKept
<1> QED BY <1>6 DEF RefundInv, RefundsAgree, OrderKept, PaymentStatusAfterRefund

\* A refund that is COMPLETED: its amount goes on top of the order's sum, its entry
\* into the ledger if there is none yet.
LEMMA CompletedAdds ==
    ASSUME RefundInv, NEW id \in Ids, NEW n \in 1..Paid, ApplyCompleted(id, n),
           refunds'[id].amount = n,
           \A i \in Ids \ {id} : refunds'[i] = refunds[i]
    PROVE  RefundsAgree'
<1> DEFINE B == Booked
           C == InStatus("COMPLETED")
           E == Booked'
           D == InStatus("COMPLETED")'
<1>1. B \in SUBSET Recorded /\ C \in SUBSET Recorded
      BY DEF RefundInv, RefundsOnRecord, Recorded, InStatus, Booked
<1>2. E \in SUBSET (B \cup {id}) /\ D \in SUBSET (C \cup {id})
      BY DEF RefundInv, RefundsTypeOK, ApplyCompleted, Booked, InStatus
<1>3. /\ IsFiniteSet(B) /\ IsFiniteSet(C) /\ refunded \in Nat /\ n \in Nat
      /\ \A i \in B \cup C : refunds[i].amount \in Nat
      BY <1>1, RecordedRows, RefundsAssumption DEF RefundInv, RefundsTypeOK
<1>4. \A i \in D \cup E : i # id => i \in B \cup C /\ refunds'[i].amount = refunds[i].amount
      BY <1>1, <1>2 DEF Recorded
<1>5. AmountIn(refunds, B) <= refunded /\ AmountIn(refunds, C) <= refunded
      BY DEF RefundInv, RefundsAgree, AmountOf, AmountIn, B, C, Booked
<1> HIDE DEF B, C, D, E
<1>6. \A i \in D \cup E : refunds'[i].amount \in Nat
      BY <1>3, <1>4
<1>7. /\ AmountIn(refunds', E) \in Nat /\ AmountIn(refunds, B) \in Nat
      /\ AmountIn(refunds', E) <= AmountIn(refunds, B) + (IF id \in E THEN refunds'[id].amount ELSE 0)
      BY <1>2, <1>3, <1>4, <1>6, AmountsGrow
<1>8. /\ AmountIn(refunds', D) \in Nat /\ AmountIn(refunds, C) \in Nat
      /\ AmountIn(refunds', D) <= AmountIn(refunds, C) + (IF id \in D THEN refunds'[id].amount ELSE 0)
      BY <1>2, <1>3, <1>4, <1>6, AmountsGrow
<1>9. AmountIn(refunds', E) <= refunded' /\ AmountIn(refunds', D) <= refunded'
      BY <1>3, <1>5, <1>7, <1>8 DEF ApplyCompleted
<1>10. AmountOf({i \in Ids : booked[i] > 0})' <= refunded' /\ AmountOf(InStatus("COMPLETED"))' <= refunded'
      BY <1>9 DEF AmountOf, AmountIn, D, E, Booked
<1>11. \A i \in Ids : booked'[i] <= 1
      BY DEF RefundInv, RefundsAgree, RefundsTypeOK, ApplyCompleted, EntriesAfter
<1>12. payment' = PaymentStatusAfterRefund(refunded)'
      BY DEF ApplyCompleted, PaymentStatusAfterRefund
<1> QED BY <1>10, <1>11, <1>12 DEF RefundsAgree

\* The answers a request may bring back.
LEMMA SaysType == ASSUME NEW s PROVE SaysOf(s) \in RefundStatus
BY DEF SaysOf, RefundStatus

\* A request may be over.
LEMMA FreeType == Free \in Requests
BY DEF Requests

\* The order after a refund that is COMPLETED.
LEMMA AppliedType ==
    ASSUME RefundsTypeOK, NEW id \in Ids, NEW n \in 1..Paid, ApplyCompleted(id, n)
    PROVE  /\ booked' \in [Ids -> Nat] /\ refunded' \in 0..Paid
           /\ payment' \in {"PAID", "PARTIALLY_REFUNDED", "REFUNDED"}
BY RefundsAssumption
   DEF RefundsTypeOK, ApplyCompleted, EntriesAfter, RefundLtePaid, PaymentStatusAfterRefund

\* Every step keeps the invariant.
LEMMA RefundStep == RefundInv /\ [RefundsNext]_refundVars => RefundInv'
<1> SUFFICES ASSUME RefundInv, [RefundsNext]_refundVars PROVE RefundInv'
    OBVIOUS
<1> USE DEF Free, AtWork
<1>t. RefundsTypeOK /\ RefundsOnRecord /\ RefundsAgree
      BY DEF RefundInv
<1>d. \A a \in Admins : desk[a] \in Requests
      BY <1>t DEF RefundsTypeOK
\* Steps that move no row and no sum.
<1>k. ASSUME UNCHANGED <<refunds, refunded, payment, booked>>,
             NEW a \in Admins, NEW w \in Requests, Become(a, w),
             w.pc \in AtWork => w.id \in Recorded,
             bank' \in [Ids -> {"none", "processing", "returned", "refused"}]
      PROVE  RefundInv'
  <2>1. RefundsTypeOK'
        BY <1>t, <1>k DEF RefundsTypeOK, Become
  <2>2. RefundsOnRecord'
        BY <1>t, <1>k DEF RefundsTypeOK, RefundsOnRecord, Become, Recorded, InStatus
  <2>3. RefundsAgree'
        BY <1>k, StatusAlone DEF OrderKept, InStatus
  <2> QED BY <2>1, <2>2, <2>3 DEF RefundInv
<1>1. ASSUME NEW a \in Admins, ReadOrder(a) PROVE RefundInv'
  <2>1. [pc |-> "read", seen |-> refunded] \in Requests
        BY <1>t DEF Requests, RefundsTypeOK
  <2> QED BY <1>1, <1>k, <1>t, <2>1 DEF ReadOrder, OrderKept, RefundsTypeOK
<1>2. ASSUME NEW a \in Admins, CreateByHand(a) PROVE RefundInv'
  <2>1. PICK id \in InStatus("none"), amount \in 1..Paid :
          /\ refunds' = [refunds EXCEPT ![id] =
                           [status |-> "COMPLETED", amount |-> amount, gateway |-> FALSE, ref |-> FALSE]]
          /\ ApplyCompleted(id, amount)
        BY <1>2 DEF CreateByHand
  <2>2. id \in Ids /\ refunds'[id].amount = amount /\ \A i \in Ids \ {id} : refunds'[i] = refunds[i]
        BY <1>t, <2>1 DEF RefundsTypeOK, InStatus
  <2>3. RefundsAgree'
        BY <2>1, <2>2, CompletedAdds
  <2>4. bank' = bank /\ desk' = [desk EXCEPT ![a] = Free]
        BY <1>2 DEF CreateByHand, Become
  <2>5. RefundsTypeOK'
        BY <1>t, <2>1, <2>2, <2>4, AppliedType, FreeType DEF RefundsTypeOK, Refund, RefundStatus
  <2>6. RefundsOnRecord'
        BY <1>t, <2>1, <2>2, <2>4 DEF RefundsTypeOK, RefundsOnRecord, Recorded, InStatus, ApplyCompleted
  <2> QED BY <2>3, <2>5, <2>6 DEF RefundInv
<1>3. ASSUME NEW a \in Admins, CreateAtGateway(a) PROVE RefundInv'
  <2>1. PICK id \in InStatus("none"), amount \in 1..Paid :
          /\ refunds' = [refunds EXCEPT ![id] =
                           [status |-> "PROCESSING", amount |-> amount, gateway |-> TRUE, ref |-> FALSE]]
          /\ desk' = [desk EXCEPT ![a] = [pc |-> "calling", id |-> id]]
        BY <1>3 DEF CreateAtGateway, Become
  <2>2. id \in Ids /\ bank' = bank /\ OrderKept
        BY <1>3, <2>1 DEF CreateAtGateway, InStatus
  <2>3. /\ InStatus("COMPLETED")' \subseteq InStatus("COMPLETED")
        /\ \A i \in Recorded : refunds'[i].amount = refunds[i].amount
        BY <1>t, <2>1, <2>2 DEF RefundsTypeOK, Recorded, InStatus
  <2>4. RefundsAgree'
        BY <2>2, <2>3, StatusAlone
  <2>5. [pc |-> "calling", id |-> id] \in Requests
        BY <2>2 DEF Requests
  <2>6. RefundsTypeOK'
        BY <1>t, <2>1, <2>2, <2>5 DEF RefundsTypeOK, Refund, RefundStatus, OrderKept
  <2>7. RefundsOnRecord'
        BY <1>t, <2>1, <2>2 DEF RefundsTypeOK, RefundsOnRecord, Recorded, InStatus, OrderKept
  <2> QED BY <2>4, <2>6, <2>7 DEF RefundInv
<1>4. ASSUME NEW a \in Admins, Refused(a) PROVE RefundInv'
  <2>1. Free \in Requests
        BY DEF Requests
  <2> QED BY <1>4, <1>k, <1>t, <2>1 DEF Refused, OrderKept, RefundsTypeOK
<1>5. ASSUME NEW a \in Admins, CallGateway(a) PROVE RefundInv'
  <2> DEFINE id == desk[a].id
  <2>1. id \in Recorded /\ id \in Ids
        BY <1>t, <1>5 DEF CallGateway, RefundsOnRecord, Recorded
  <2>2. PICK state \in {"returned", "processing", "refused"} :
          /\ bank' = [bank EXCEPT ![id] = state]
          /\ \/ Become(a, [pc |-> "answered", id |-> id, says |-> SaysOf(state), creating |-> TRUE])
             \/ Become(a, [pc |-> "failing", id |-> id])
        BY <1>5 DEF CallGateway
  <2>3. bank' \in [Ids -> {"none", "processing", "returned", "refused"}]
        BY <1>t, <2>1, <2>2 DEF RefundsTypeOK
  <2>4. UNCHANGED <<refunds, refunded, payment, booked>>
        BY <1>5 DEF CallGateway, OrderKept
  <2> HIDE DEF id
  <2>5. /\ [pc |-> "answered", id |-> id, says |-> SaysOf(state), creating |-> TRUE] \in Requests
        /\ [pc |-> "failing", id |-> id] \in Requests
        BY <2>1, SaysType DEF Requests
  <2> QED BY <1>k, <2>1, <2>2, <2>3, <2>4, <2>5
<1>6. ASSUME NEW a \in Admins, NEW id \in Ids, Refresh(a, id) PROVE RefundInv'
  <2> DEFINE w == [pc |-> "answered", id |-> id, says |-> SaysOf(bank[id]), creating |-> FALSE]
  <2>1. w \in Requests /\ w.id \in Recorded
        BY <1>6, SaysType DEF Requests, Refresh, Recorded, InStatus
  <2> QED BY <1>6, <1>k, <1>t, <2>1 DEF Refresh, OrderKept, RefundsTypeOK
<1>7. ASSUME NEW a \in Admins, ReadRefund(a) PROVE RefundInv'
  <2> DEFINE w == [desk[a] EXCEPT !.pc = "settling"]
  <2>1. desk[a] \in [pc : {"answered", "settling"}, id : Ids, says : RefundStatus, creating : BOOLEAN]
        BY <1>d, <1>7 DEF ReadRefund, Requests
  <2>2. w \in Requests /\ w.id = desk[a].id /\ desk[a].id \in Recorded
        BY <1>t, <1>7, <2>1 DEF ReadRefund, Requests, RefundsOnRecord
  <2>3. /\ bank' \in [Ids -> {"none", "processing", "returned", "refused"}]
        /\ UNCHANGED <<refunds, refunded, payment, booked>>
        BY <1>7, <1>t DEF ReadRefund, OrderKept, RefundsTypeOK
  <2>4. Become(a, Free) \/ Become(a, w)
        BY <1>7 DEF ReadRefund
  <2> HIDE DEF w
  <2> QED BY <1>k, <2>2, <2>3, <2>4, FreeType
<1>8. ASSUME NEW a \in Admins, WriteRefund(a) PROVE RefundInv'
  <2> DEFINE id == desk[a].id
             says == desk[a].says
  <2>1. desk[a] \in [pc : {"answered", "settling"}, id : Ids, says : RefundStatus, creating : BOOLEAN]
        BY <1>d, <1>8 DEF WriteRefund, Requests
  <2>2. /\ refunds' = [refunds EXCEPT ![id].status = says, ![id].ref = @ \/ says # "FAILED"]
        /\ IF says = "COMPLETED" THEN ApplyCompleted(id, refunds[id].amount) ELSE OrderKept
        /\ desk' = [desk EXCEPT ![a] = Free] /\ bank' = bank
        BY <1>8 DEF WriteRefund, Become
  <2>3. id \in Ids /\ id \in Recorded /\ says \in RefundStatus
        BY <1>t, <1>8, <2>1 DEF WriteRefund, RefundsOnRecord
  <2> HIDE DEF id, says
  <2>4. refunds[id] \in Refund
        BY <1>t, <2>3, RecordedRows
  <2>5. /\ refunds'[id] \in Refund /\ refunds'[id].status = says /\ refunds'[id].amount = refunds[id].amount
        /\ \A i \in Ids \ {id} : refunds'[i] = refunds[i]
        /\ DOMAIN refunds' = DOMAIN refunds
        /\ refunds' = [i \in Ids |-> refunds'[i]]
        BY <1>t, <2>2, <2>3, <2>4 DEF RefundsTypeOK, Refund, RefundStatus
  <2>6. refunds' \in [Ids -> {NoRefund} \cup Refund]
        BY <1>t, <2>5 DEF RefundsTypeOK
  <2>7. RefundsAgree'
    <3>1. CASE says = "COMPLETED"
          BY <2>2, <2>3, <2>4, <2>5, <3>1, CompletedAdds DEF Refund
    <3>2. CASE says # "COMPLETED"
      <4>1. /\ InStatus("COMPLETED")' \subseteq InStatus("COMPLETED")
            /\ \A i \in Recorded : refunds'[i].amount = refunds[i].amount
            BY <2>5, <3>2 DEF Recorded, InStatus
      <4> QED BY <2>2, <3>2, <4>1, StatusAlone
    <3> QED BY <3>1, <3>2
  <2>8. /\ booked' \in [Ids -> Nat] /\ refunded' \in 0..Paid
        /\ payment' \in {"PAID", "PARTIALLY_REFUNDED", "REFUNDED"}
        /\ \A i \in Ids : i # id => booked'[i] = booked[i]
        BY <1>t, <2>2, <2>3, <2>4, AppliedType DEF OrderKept, RefundsTypeOK, Refund, ApplyCompleted
  <2>9. RefundsTypeOK'
        BY <1>t, <2>2, <2>6, <2>8, FreeType DEF RefundsTypeOK
  <2>10. RefundsOnRecord'
    <3>1. \A i \in Recorded : i \in Recorded'
          BY <2>5 DEF Recorded, InStatus, RefundStatus, Refund
    <3>2. \A b \in Admins : desk'[b].pc \in AtWork => desk'[b] = desk[b]
          BY <1>t, <2>2 DEF RefundsTypeOK
    <3> QED BY <1>t, <2>3, <2>8, <3>1, <3>2 DEF RefundsOnRecord
  <2> QED BY <2>7, <2>9, <2>10 DEF RefundInv
<1>9. ASSUME NEW a \in Admins, AbortSettle(a) PROVE RefundInv'
  <2> DEFINE w == [pc |-> "failing", id |-> desk[a].id]
  <2>1. w \in Requests /\ w.id \in Recorded
        BY <1>t, <1>9 DEF AbortSettle, Requests, RefundsOnRecord, Recorded
  <2>2. /\ bank' \in [Ids -> {"none", "processing", "returned", "refused"}]
        /\ UNCHANGED <<refunds, refunded, payment, booked>>
        BY <1>9, <1>t DEF AbortSettle, OrderKept, RefundsTypeOK
  <2>3. Become(a, Free) \/ Become(a, w)
        BY <1>9 DEF AbortSettle
  <2> HIDE DEF w
  <2> QED BY <1>k, <2>1, <2>2, <2>3, FreeType
<1>10. ASSUME NEW a \in Admins, MarkFailed(a) PROVE RefundInv'
  <2> DEFINE id == desk[a].id
  <2>1. id \in Recorded /\ id \in Ids
        BY <1>t, <1>10 DEF MarkFailed, RefundsOnRecord, Recorded
  <2>2. /\ refunds' = [refunds EXCEPT ![id].status = "FAILED"]
        /\ desk' = [desk EXCEPT ![a] = Free] /\ bank' = bank /\ OrderKept
        BY <1>10 DEF MarkFailed, Become
  <2> HIDE DEF id
  <2>3. refunds[id] \in Refund
        BY <1>t, <2>1, RecordedRows
  <2>4. /\ refunds'[id] \in Refund /\ refunds'[id].status = "FAILED" /\ refunds'[id].amount = refunds[id].amount
        /\ \A i \in Ids \ {id} : refunds'[i] = refunds[i]
        /\ refunds' = [i \in Ids |-> refunds'[i]]
        BY <1>t, <2>1, <2>2, <2>3 DEF RefundsTypeOK, Refund, RefundStatus
  <2>5. RefundsTypeOK'
        BY <1>t, <2>2, <2>4, FreeType DEF RefundsTypeOK, OrderKept
  <2>6. RefundsAgree'
    <3>1. /\ InStatus("COMPLETED")' \subseteq InStatus("COMPLETED")
          /\ \A i \in Recorded : refunds'[i].amount = refunds[i].amount
          BY <2>4 DEF Recorded, InStatus
    <3> QED BY <2>2, <3>1, StatusAlone
  <2>7. RefundsOnRecord'
    <3>1. \A i \in Recorded : i \in Recorded'
          BY <2>4 DEF Recorded, InStatus
    <3>2. \A b \in Admins : desk'[b].pc \in AtWork => desk'[b] = desk[b]
          BY <1>t, <2>2 DEF RefundsTypeOK
    <3> QED BY <1>t, <2>2, <3>1, <3>2 DEF RefundsOnRecord, OrderKept
  <2> QED BY <2>5, <2>6, <2>7 DEF RefundInv
<1>11. ASSUME NEW id \in Ids, BankDecides(id) PROVE RefundInv'
  <2>1. bank' \in [Ids -> {"none", "processing", "returned", "refused"}]
        BY <1>11, <1>t DEF BankDecides, RefundsTypeOK
  <2>2. UNCHANGED <<refunds, refunded, payment, booked, desk>>
        BY <1>11 DEF BankDecides, OrderKept
  <2>3. RefundsAgree'
        BY <2>2, StatusAlone DEF OrderKept, InStatus
  <2> QED BY <1>t, <2>1, <2>2, <2>3 DEF RefundInv, RefundsTypeOK, RefundsOnRecord, Recorded, InStatus
<1>12. CASE UNCHANGED refundVars
  <2>1. RefundsAgree'
        BY <1>12, StatusAlone DEF refundVars, OrderKept, InStatus
  <2> QED BY <1>t, <1>12, <2>1 DEF refundVars, RefundInv, RefundsTypeOK, RefundsOnRecord, Recorded, InStatus
<1> QED BY <1>1, <1>2, <1>3, <1>4, <1>5, <1>6, <1>7, <1>8, <1>9, <1>10, <1>11, <1>12 DEF RefundsNext

\* However requests, answers and settlements interleave, the ledger has one entry of
\* a refund, it and the completed refunds stay within the order's sum, and the
\* payment status goes with that sum.
THEOREM RefundsAgreeCorrect == RefundsSpec => []RefundsAgree
<1>1. RefundsSpec => []RefundInv
      BY RefundInitial, RefundStep, PTL DEF RefundsSpec
<1>2. RefundInv => RefundsAgree
      BY DEF RefundInv
<1> QED BY <1>1, <1>2, PTL

-----------------------------------------------------------------------------
(* Cash book. Entries are only ever added; what a bill says was paid is the *)
(* sum of the live entries that name it, and what a clerk is about to      *)
(* reverse is an original with its whole pair.                             *)

Posting == [account : Accounts, dir : {"IN", "OUT"}, kind : {"MANUAL", "TRANSFER", "PURCHASE_PAYMENT"},
            amount : Nat \ {0}, bill : Nat, group : Nat, reverses : Nat]
Bill    == [supplier : Suppliers, total : Nat, paid : Nat]
Clerk   == {AtRest} \cup [at : {"bill", "remove"}, supplier : Suppliers]
                    \cup [at : {"reverse"}, legs : Seq(Nat)]
                    \cup [at : {"account"}, account : Accounts, opening : Nat]

CashTypes == book \in Seq(Posting) /\ bills \in Seq(Bill) /\ clerk \in [Clerks -> Clerk]

\* An entry points at earlier ones: at the one it reverses, at the first leg of its pair
\* and at a bill there is. The legs of a transfer are two originals side by side, and
\* what a clerk is about to reverse is all of an original.
OriginalIn(rows, e) == e \in DOMAIN rows /\ rows[e].reverses = Nothing
Original(e) == OriginalIn(book, e)
EntriesPoint ==
    /\ \A e \in DOMAIN book : /\ book[e].reverses \in 0..(e - 1)
                              /\ book[e].bill \in 0..Len(bills)
                              /\ book[e].group \in 0..Len(book)
    /\ \A b \in DOMAIN bills : bills[b].paid <= bills[b].total
PairsSideBySide ==
    /\ \A e \in DOMAIN book : Original(e) /\ book[e].group # Nothing =>
         LET g == book[e].group
         IN  /\ e \in {g, g + 1} /\ Original(g) /\ Original(g + 1)
             /\ book[g].group = g /\ book[g + 1].group = g
    /\ \A e, f \in DOMAIN book : book[e].group # Nothing /\ book[e].group = book[f].group
                                     => (Original(e) <=> Original(f))
TakesBackIn(rows, r, e) ==
    /\ rows[e].reverses = Nothing
    /\ rows[r].account = rows[e].account /\ rows[r].amount = rows[e].amount
    /\ rows[r].kind = rows[e].kind /\ rows[r].bill = rows[e].bill
    /\ {rows[r].dir, rows[e].dir} = {"IN", "OUT"}
Corrected ==
    /\ \A r \in DOMAIN book : book[r].reverses # Nothing => TakesBackIn(book, r, book[r].reverses)
    /\ \A e, f \in DOMAIN book : book[e].reverses # Nothing /\ book[e].reverses = book[f].reverses => e = f
    /\ \A e, f \in DOMAIN book : book[e].group # Nothing /\ book[e].group = book[f].group
                                     => (e \in Live <=> f \in Live)
ClerksReverse ==
    \A c \in Clerks : clerk[c].at = "reverse" => \E e \in DOMAIN book : Original(e) /\ clerk[c].legs = Legs(e)

CashInv == CashTypes /\ EntriesPoint /\ PairsSideBySide /\ ClerksReverse /\ Corrected /\ BillsMatchBook

PaidIn(rows, b, S) == SumOf([e \in S |-> IF rows[e].bill = b THEN rows[e].amount ELSE 0], S)

\* The entries that count.
LEMMA LiveEntries ==
    ASSUME CashTypes
    PROVE  /\ Live \subseteq DOMAIN book /\ IsFiniteSet(Live)
           /\ \A e \in Live : Original(e) /\ ~Reversed(e)
           /\ \A e : Original(e) /\ ~Reversed(e) => e \in Live
           /\ DOMAIN book = 1..Len(book) /\ Len(book) \in Nat
           /\ DOMAIN bills = 1..Len(bills) /\ Len(bills) \in Nat
<1>1. DOMAIN book = 1..Len(book) /\ Len(book) \in Nat /\ DOMAIN bills = 1..Len(bills) /\ Len(bills) \in Nat
      BY DEF CashTypes
<1>2. IsFiniteSet(DOMAIN book)
      BY <1>1, FS_Interval, 1 \in Int, Len(book) \in Int
<1>3. Live \subseteq DOMAIN book
      BY DEF Live
<1>4. IsFiniteSet(Live)
      BY <1>2, <1>3, FS_Subset
<1> QED BY <1>1, <1>3, <1>4 DEF Live, Original, OriginalIn

\* Entries of a list of rows have an amount.
LEMMA PaidInNats ==
    ASSUME NEW rows \in Seq(Posting), NEW S \in SUBSET (1..Len(rows)), NEW b
    PROVE  /\ IsFiniteSet(S) /\ PaidIn(rows, b, S) \in Nat
           /\ NatsOn([e \in S |-> IF rows[e].bill = b THEN rows[e].amount ELSE 0], S)
<1> DEFINE f == [e \in S |-> IF rows[e].bill = b THEN rows[e].amount ELSE 0]
<1>1. IsFiniteSet(1..Len(rows))
      BY FS_Interval, 1 \in Int, Len(rows) \in Int
<1>2. IsFiniteSet(S)
      BY <1>1, FS_Subset
<1>3. NatsOn(f, S)
  <2>1. \A e \in S : rows[e] \in Posting
        OBVIOUS
  <2> QED BY <2>1 DEF NatsOn, Posting
<1> HIDE DEF f
<1>4. SumOf(f, S) \in Nat
      BY <1>2, <1>3, SumNat
<1> QED BY <1>2, <1>3, <1>4 DEF PaidIn, f

\* Entries that join those that count.
LEMMA PaidJoins ==
    ASSUME NEW rows \in Seq(Posting), NEW later \in Seq(Posting), NEW b,
           NEW S \in SUBSET (1..Len(rows)), NEW T \in SUBSET (1..Len(later)), S \subseteq T,
           \A e \in S : later[e] = rows[e]
    PROVE  /\ (\A e \in T \ S : later[e].bill # b) => PaidIn(later, b, T) = PaidIn(rows, b, S)
           /\ \A a : T \ S = {a} /\ later[a].bill = b => PaidIn(later, b, T) = PaidIn(rows, b, S) + later[a].amount
<1> DEFINE f == [e \in S |-> IF rows[e].bill = b THEN rows[e].amount ELSE 0]
           g == [e \in T |-> IF later[e].bill = b THEN later[e].amount ELSE 0]
           R == T \ S
<1>1. IsFiniteSet(S) /\ IsFiniteSet(T) /\ NatsOn(f, S) /\ NatsOn(g, T)
      BY PaidInNats
<1>2. IsFiniteSet(R)
      BY <1>1, FS_Subset
<1>3. \A e \in S : g[e] = f[e]
      OBVIOUS
<1>4. (\A e \in T \ S : later[e].bill # b) => \A e \in R : g[e] = 0
      OBVIOUS
<1>5. \A a : T \ S = {a} /\ later[a].bill = b => a \in R /\ R \ {a} = {} /\ g[a] = later[a].amount
      OBVIOUS
<1> HIDE DEF f, g
<1>i. IntsOn(f, S) /\ IntsOn(g, T) /\ IntsOn(g, R)
      BY <1>1 DEF NatsOn, IntsOn
<1>n. SumOf(f, S) \in Nat
      BY <1>1, SumNat
<1>6. IntsOn(f, S) /\ IntsOn(g, T) /\ IntsOn(g, R) /\ SumOf(f, S) \in Nat
      BY <1>i, <1>n
<1>7. SumOf(g, S) = SumOf(f, S)
      BY <1>1, <1>3, <1>6, SumSame
<1>8. SumOf(g, T) = SumOf(g, S) + SumOf(g, R)
      BY <1>1, <1>6, SumSplit
<1>9. ASSUME \A e \in T \ S : later[e].bill # b PROVE SumOf(g, T) = SumOf(f, S)
  <2>1. SumOf(g, R) = 0
        BY <1>2, <1>4, <1>9, SumZero
  <2> QED BY <1>6, <1>7, <1>8, <2>1
<1>10. ASSUME NEW a, T \ S = {a}, later[a].bill = b PROVE SumOf(g, T) = SumOf(f, S) + later[a].amount
  <2>1. a \in R /\ R \ {a} = {} /\ g[a] = later[a].amount
        BY <1>5, <1>10
  <2> HIDE DEF R
  <2>2. SumOf(g, R) = g[a]
        BY <1>2, <1>6, <2>1, SumOnly
  <2> QED BY <1>6, <1>7, <1>8, <2>1, <2>2
<1> QED BY <1>9, <1>10 DEF PaidIn, f, g

\* One entry of the bill joins those that count.
OneJoins(rows, later, b, S, T, a) ==
    /\ rows \in Seq(Posting) /\ later \in Seq(Posting)
    /\ S \in SUBSET (1..Len(rows)) /\ T \in SUBSET (1..Len(later)) /\ S \subseteq T
    /\ (\A e \in S : later[e] = rows[e]) /\ T \ S = {a} /\ later[a].bill = b
\* A payment more raises what the book shows as paid by its amount.
LEMMA PaidOneMore ==
    ASSUME NEW rows, NEW later, NEW b, NEW S, NEW T, NEW a, OneJoins(rows, later, b, S, T, a)
    PROVE  PaidIn(later, b, T) = PaidIn(rows, b, S) + later[a].amount
<1>1. /\ rows \in Seq(Posting) /\ later \in Seq(Posting)
      /\ S \in SUBSET (1..Len(rows)) /\ T \in SUBSET (1..Len(later)) /\ S \subseteq T
      /\ \A e \in S : later[e] = rows[e]
      BY DEF OneJoins
<1>2. T \ S = {a} /\ later[a].bill = b
      BY DEF OneJoins
<1>3. \A x : T \ S = {x} /\ later[x].bill = b => PaidIn(later, b, T) = PaidIn(rows, b, S) + later[x].amount
      BY <1>1, PaidJoins, SMTT(30)
<1> QED BY <1>2, <1>3

\* The larger of a number and zero, the smaller of two numbers.
LEMMA Extremes ==
    ASSUME NEW x \in Nat, NEW y \in Nat
    PROVE  Max({x, 0}) = x /\ (x <= y => Min({x, y}) = x)
<1>1. \A m \in {x, 0} : (\A k \in {x, 0} : m >= k) => m = x
      OBVIOUS
<1>2. \E m \in {x, 0} : \A k \in {x, 0} : m >= k
      OBVIOUS
<1>3. Max({x, 0}) = x
      BY <1>1, <1>2 DEF Max
<1>4. ASSUME x <= y PROVE Min({x, y}) = x
  <2>1. \A m \in {x, y} : (\A k \in {x, y} : m <= k) => m = x
        BY <1>4
  <2>2. \E m \in {x, y} : \A k \in {x, y} : m <= k
        BY <1>4
  <2> QED BY <2>1, <2>2 DEF Min
<1> QED BY <1>3, <1>4

\* Rows only join the book.
LEMMA Posted ==
    ASSUME CashTypes, NEW es \in Seq(Posting), book' = book \o es
    PROVE  /\ book' \in Seq(Posting) /\ Len(book') = Len(book) + Len(es)
           /\ Len(book) \in Nat /\ Len(es) \in Nat
           /\ DOMAIN book = 1..Len(book) /\ DOMAIN book' = 1..(Len(book) + Len(es))
           /\ \A e \in DOMAIN book : e \in DOMAIN book' /\ book'[e] = book[e] /\ e <= Len(book) /\ e \in Nat
           /\ \A i \in 1..Len(es) : Len(book) + i \in DOMAIN book' /\ book'[Len(book) + i] = es[i]
           /\ \A e \in DOMAIN book' : e \in DOMAIN book \/ (e > Len(book) /\ \E i \in 1..Len(es) : e = Len(book) + i /\ book'[e] = es[i])
<1>1. book \in Seq(Posting)
      BY DEF CashTypes
<1>2. book' \in Seq(Posting) /\ Len(book') = Len(book) + Len(es)
      BY <1>1, ConcatProperties
<1>3. \A k \in 1..(Len(book) + Len(es)) : book'[k] = IF k <= Len(book) THEN book[k] ELSE es[k - Len(book)]
      BY <1>1, ConcatProperties
<1>4. Len(book) \in Nat /\ Len(es) \in Nat /\ DOMAIN book = 1..Len(book) /\ DOMAIN book' = 1..(Len(book) + Len(es))
      BY <1>1, <1>2
<1>5. \A i \in 1..Len(es) : Len(book) + i \in DOMAIN book' /\ book'[Len(book) + i] = es[i]
  <2> SUFFICES ASSUME NEW i \in 1..Len(es) PROVE Len(book) + i \in DOMAIN book' /\ book'[Len(book) + i] = es[i]
      OBVIOUS
  <2>1. Len(book) + i \in 1..(Len(book) + Len(es)) /\ ~(Len(book) + i <= Len(book)) /\ (Len(book) + i) - Len(book) = i
        BY <1>4
  <2> QED BY <1>3, <1>4, <2>1
<1>6. \A e \in DOMAIN book' : e \in DOMAIN book \/ (e > Len(book) /\ \E i \in 1..Len(es) : e = Len(book) + i /\ book'[e] = es[i])
  <2> SUFFICES ASSUME NEW e \in DOMAIN book', e \notin DOMAIN book
               PROVE  e > Len(book) /\ \E i \in 1..Len(es) : e = Len(book) + i /\ book'[e] = es[i]
      OBVIOUS
  <2>1. e - Len(book) \in 1..Len(es) /\ e = Len(book) + (e - Len(book)) /\ e > Len(book)
        BY <1>4
  <2> QED BY <1>5, <2>1
<1> QED BY <1>2, <1>3, <1>4, <1>5, <1>6

\* What clerks are about to reverse stays all of an original.
LEMMA ClerksGoOn ==
    ASSUME CashInv, NEW es \in Seq(Posting), book' = book \o es,
           \A c \in Clerks : clerk'[c].at = "reverse" => clerk'[c] = clerk[c]
    PROVE  ClerksReverse'
<1> SUFFICES ASSUME NEW c \in Clerks, clerk'[c].at = "reverse"
             PROVE  \E e \in DOMAIN book' : OriginalIn(book', e) /\ clerk'[c].legs = Legs(e)'
    BY DEF ClerksReverse, Original
<1>1. PICK e \in DOMAIN book : Original(e) /\ clerk[c].legs = Legs(e)
      BY DEF CashInv, ClerksReverse
<1>2. e \in DOMAIN book' /\ book'[e] = book[e]
      BY Posted DEF CashInv
<1>3. OriginalIn(book', e) /\ Legs(e)' = Legs(e)
      BY <1>1, <1>2 DEF Original, OriginalIn, Legs
<1> QED BY <1>1, <1>2, <1>3

\* Originals join the book: one by itself, or the two legs of a transfer.
LEMMA OriginalsPosted ==
    ASSUME CashInv, NEW es \in Seq(Posting), book' = book \o es,
           \A i \in 1..Len(es) : es[i].reverses = Nothing,
           \/ Len(es) = 1 /\ es[1].group = Nothing
           \/ Len(es) = 2 /\ es[1].group = Len(book) + 1 /\ es[2].group = Len(book) + 1
    PROVE  /\ PairsSideBySide' /\ Corrected'
           /\ \A e \in DOMAIN book' : book'[e].reverses \in 0..(e - 1) /\ book'[e].group \in 0..Len(book')
           /\ Live' = Live \cup {Len(book) + i : i \in 1..Len(es)}
<1> DEFINE N == Len(book)
           k == Len(es)
<1>1. /\ book' \in Seq(Posting) /\ Len(book') = N + k /\ N \in Nat /\ k \in Nat
      /\ DOMAIN book = 1..N /\ DOMAIN book' = 1..(N + k)
      /\ \A e \in DOMAIN book : e \in DOMAIN book' /\ book'[e] = book[e] /\ e <= N /\ e \in Nat
      /\ \A i \in 1..k : N + i \in DOMAIN book' /\ book'[N + i] = es[i]
      /\ \A e \in DOMAIN book' : e \in DOMAIN book \/ (e > N /\ \E i \in 1..k : e = N + i /\ book'[e] = es[i])
      BY Posted DEF CashInv
<1>2. /\ \A i \in 1..k : es[i].reverses = Nothing
      /\ \/ k = 1 /\ es[1].group = Nothing
         \/ k = 2 /\ es[1].group = N + 1 /\ es[2].group = N + 1
      OBVIOUS
<1>3. \A e \in DOMAIN book : book[e].reverses \in 0..(e - 1) /\ book[e].group \in 0..N
      BY DEF CashInv, EntriesPoint
<1> HIDE DEF N, k
<1>4. \A e \in DOMAIN book : OriginalIn(book', e) <=> Original(e)
      BY <1>1 DEF Original, OriginalIn
<1>5. \A e \in DOMAIN book' \ DOMAIN book : /\ OriginalIn(book', e)
                                            /\ \/ book'[e].group = Nothing
                                               \/ /\ k = 2 /\ book'[e].group = N + 1 /\ e \in {N + 1, N + 2}
  <2> SUFFICES ASSUME NEW e \in DOMAIN book' \ DOMAIN book
               PROVE  /\ OriginalIn(book', e)
                      /\ \/ book'[e].group = Nothing
                         \/ k = 2 /\ book'[e].group = N + 1 /\ e \in {N + 1, N + 2}
      OBVIOUS
  <2>1. PICK i \in 1..k : e = N + i /\ book'[e] = es[i]
        BY <1>1
  <2>2. OriginalIn(book', e)
        BY <1>2, <2>1 DEF Original, OriginalIn
  <2>3. i = 1 \/ i = 2
        BY <1>2
  <2> QED BY <1>2, <2>1, <2>2, <2>3
<1>6. \A e \in DOMAIN book' : book'[e].reverses \in 0..(e - 1) /\ book'[e].group \in 0..Len(book')
  <2> SUFFICES ASSUME NEW e \in DOMAIN book' PROVE book'[e].reverses \in 0..(e - 1) /\ book'[e].group \in 0..(N + k)
      BY <1>1
  <2>1. CASE e \in DOMAIN book
        BY <1>1, <1>3, <2>1
  <2>2. CASE e \notin DOMAIN book
        BY <1>1, <1>5, <2>2 DEF OriginalIn, Nothing
  <2> QED BY <2>1, <2>2
<1>7. k = 2 => /\ N + 1 \in DOMAIN book' /\ N + 2 \in DOMAIN book' /\ OriginalIn(book', N + 1) /\ OriginalIn(book', N + 2)
               /\ book'[N + 1].group = N + 1 /\ book'[N + 2].group = N + 1 /\ (N + 1) + 1 = N + 2
      BY <1>1, <1>2 DEF Original, OriginalIn
<1>8. \A e \in DOMAIN book', f \in DOMAIN book' :
         book'[e].group # Nothing /\ book'[e].group = book'[f].group =>
            \/ e \in DOMAIN book /\ f \in DOMAIN book /\ book[e].group # Nothing /\ book[e].group = book[f].group
            \/ e \notin DOMAIN book /\ f \notin DOMAIN book
  <2> SUFFICES ASSUME NEW e \in DOMAIN book', NEW f \in DOMAIN book',
                      book'[e].group # Nothing, book'[e].group = book'[f].group
               PROVE  \/ e \in DOMAIN book /\ f \in DOMAIN book /\ book[e].group # Nothing /\ book[e].group = book[f].group
                      \/ e \notin DOMAIN book /\ f \notin DOMAIN book
      OBVIOUS
  <2>1. CASE e \in DOMAIN book /\ f \in DOMAIN book
        BY <1>1, <2>1
  <2>2. CASE e \notin DOMAIN book /\ f \in DOMAIN book
        BY <1>1, <1>3, <1>5, <2>2
  <2>3. CASE e \in DOMAIN book /\ f \notin DOMAIN book
        BY <1>1, <1>3, <1>5, <2>3
  <2>4. CASE e \notin DOMAIN book /\ f \notin DOMAIN book
        BY <2>4
  <2> QED BY <2>1, <2>2, <2>3, <2>4
<1>9. PairsSideBySide'
  <2>1. ASSUME NEW e \in DOMAIN book', OriginalIn(book', e), book'[e].group # Nothing
        PROVE  LET g == book'[e].group
               IN  /\ e \in {g, g + 1} /\ OriginalIn(book', g) /\ OriginalIn(book', g + 1)
                   /\ book'[g].group = g /\ book'[g + 1].group = g
    <3>1. CASE e \in DOMAIN book
      <4>1. book'[e] = book[e] /\ Original(e)
            BY <1>1, <1>4, <2>1, <3>1
      <4> DEFINE g == book[e].group
      <4>2. e \in {g, g + 1} /\ Original(g) /\ Original(g + 1) /\ book[g].group = g /\ book[g + 1].group = g
            BY <2>1, <3>1, <4>1 DEF CashInv, PairsSideBySide
      <4> HIDE DEF g
      <4>3. g \in DOMAIN book /\ g + 1 \in DOMAIN book
            BY <4>2 DEF Original, OriginalIn
      <4>4. OriginalIn(book', g) /\ OriginalIn(book', g + 1) /\ book'[g] = book[g] /\ book'[g + 1] = book[g + 1]
            BY <1>1, <1>4, <4>2, <4>3
      <4> QED BY <4>1, <4>2, <4>4 DEF g
    <3>2. CASE e \notin DOMAIN book
          BY <1>5, <1>7, <2>1, <3>2
    <3> QED BY <3>1, <3>2
  <2>2. ASSUME NEW e \in DOMAIN book', NEW f \in DOMAIN book',
               book'[e].group # Nothing, book'[e].group = book'[f].group
        PROVE  OriginalIn(book', e) <=> OriginalIn(book', f)
    <3>1. CASE e \in DOMAIN book /\ f \in DOMAIN book /\ book[e].group # Nothing /\ book[e].group = book[f].group
      <4>1. Original(e) <=> Original(f)
            BY <3>1 DEF CashInv, PairsSideBySide
      <4> QED BY <1>4, <3>1, <4>1
    <3>2. CASE e \notin DOMAIN book /\ f \notin DOMAIN book
          BY <1>5, <3>2
    <3> QED BY <1>8, <2>2, <3>1, <3>2
  <2> QED BY <2>1, <2>2 DEF PairsSideBySide, Original
<1>10. /\ \A e \in DOMAIN book : Reversed(e)' <=> Reversed(e)
       /\ \A e \in DOMAIN book' \ DOMAIN book : ~Reversed(e)'
  <2>1. \A r \in DOMAIN book' : book'[r].reverses # Nothing => r \in DOMAIN book /\ book'[r] = book[r]
        BY <1>1, <1>5 DEF Original, OriginalIn
  <2>2. \A e \in DOMAIN book' : e # Nothing
        BY <1>1 DEF Nothing
  <2>3. \A e \in DOMAIN book : Reversed(e)' <=> Reversed(e)
        BY <1>1, <2>1, <2>2 DEF Reversed, ReversedIn
  <2>4. ASSUME NEW e \in DOMAIN book' \ DOMAIN book, NEW r \in DOMAIN book', book'[r].reverses = e PROVE FALSE
    <3>1. r \in DOMAIN book /\ book[r].reverses = e
          BY <2>1, <2>2, <2>4
    <3>2. r \in Nat /\ r <= N /\ book[r].reverses <= r - 1
          BY <1>1, <1>3, <3>1
    <3>3. e > N
          BY <1>1, <2>4
    <3> QED BY <1>1, <3>1, <3>2, <3>3
  <2> QED BY <2>3, <2>4 DEF Reversed, ReversedIn
<1>11. /\ \A e \in DOMAIN book : e \in Live' <=> e \in Live
       /\ \A e \in DOMAIN book' \ DOMAIN book : e \in Live'
       /\ Live \subseteq DOMAIN book /\ Live' \subseteq DOMAIN book'
       BY <1>1, <1>4, <1>5, <1>10 DEF Live, Original, OriginalIn
<1>12. Live' = Live \cup {N + i : i \in 1..k}
  <2>1. ASSUME NEW e PROVE e \in {N + i : i \in 1..k} <=> e \in DOMAIN book' \ DOMAIN book
    <3>1. \A i \in 1..k : N + i \in DOMAIN book' /\ N + i \notin DOMAIN book
          BY <1>1
    <3>2. e \in DOMAIN book' \ DOMAIN book => \E i \in 1..k : e = N + i
          BY <1>1
    <3> QED BY <3>1, <3>2
  <2> QED BY <1>1, <1>11, <2>1
<1>13. Corrected'
  <2>1. ASSUME NEW e \in DOMAIN book', NEW f \in DOMAIN book',
               book'[e].reverses # Nothing, book'[e].reverses = book'[f].reverses
        PROVE  e = f
    <3>1. e \in DOMAIN book /\ f \in DOMAIN book /\ book'[e] = book[e] /\ book'[f] = book[f]
          BY <1>1, <1>5, <2>1 DEF Original, OriginalIn
    <3> QED BY <2>1, <3>1 DEF CashInv, Corrected
  <2>2. ASSUME NEW e \in DOMAIN book', NEW f \in DOMAIN book',
               book'[e].group # Nothing, book'[e].group = book'[f].group
        PROVE  e \in Live' <=> f \in Live'
    <3>1. CASE e \in DOMAIN book /\ f \in DOMAIN book /\ book[e].group # Nothing /\ book[e].group = book[f].group
      <4>1. e \in Live <=> f \in Live
            BY <3>1 DEF CashInv, Corrected
      <4> QED BY <1>11, <3>1, <4>1
    <3>2. CASE e \notin DOMAIN book /\ f \notin DOMAIN book
          BY <1>11, <3>2
    <3> QED BY <1>8, <2>2, <3>1, <3>2
  <2>3. ASSUME NEW r \in DOMAIN book', book'[r].reverses # Nothing PROVE TakesBackIn(book', r, book'[r].reverses)
    <3> DEFINE e == book[r].reverses
    <3>1. r \in DOMAIN book /\ book'[r] = book[r]
          BY <1>1, <1>5, <2>3 DEF OriginalIn
    <3>2. TakesBackIn(book, r, e)
          BY <2>3, <3>1 DEF CashInv, Corrected
    <3>3. e \in DOMAIN book
          BY <1>1, <1>3, <2>3, <3>1 DEF Nothing
    <3> QED BY <1>1, <3>1, <3>2, <3>3 DEF TakesBackIn
  <2> QED BY <2>1, <2>2, <2>3 DEF Corrected
<1> QED BY <1>6, <1>9, <1>12, <1>13 DEF N, k

\* All of an original: it alone, or the two legs of its transfer.
LEMMA LegsOfOriginal ==
    ASSUME CashInv, NEW o, Original(o)
    PROVE  /\ Legs(o) \in Seq(DOMAIN book) /\ Len(Legs(o)) \in 1..2
           /\ \A i \in 1..Len(Legs(o)) : Original(Legs(o)[i])
           /\ \A i, j \in 1..Len(Legs(o)) : Legs(o)[i] = Legs(o)[j] => i = j
           /\ \A i, j \in 1..Len(Legs(o)) : book[Legs(o)[i]].group = book[Legs(o)[j]].group
           /\ Len(Legs(o)) = 1 => book[Legs(o)[1]].group = Nothing
           /\ \A i \in 1..Len(Legs(o)), f \in DOMAIN book :
                Original(f) /\ book[f].group # Nothing /\ book[f].group = book[Legs(o)[i]].group => f \in Range(Legs(o))
<1> DEFINE g == book[o].group
<1>1. CASE g = Nothing
  <2>1. Legs(o) = <<o>> /\ o \in DOMAIN book
        BY <1>1 DEF Legs, Original, OriginalIn
  <2> QED BY <1>1, <2>1
<1>2. CASE g # Nothing
  <2>1. Legs(o) = <<g, g + 1>>
        BY <1>2 DEF Legs
  <2>2. Original(g) /\ Original(g + 1) /\ book[g].group = g /\ book[g + 1].group = g
        BY <1>2 DEF CashInv, PairsSideBySide, Original, OriginalIn
  <2>3. \A f \in DOMAIN book : Original(f) /\ book[f].group = g => f \in {g, g + 1}
        BY <1>2 DEF CashInv, PairsSideBySide
  <2>4. g \in Nat /\ g \in DOMAIN book /\ g + 1 \in DOMAIN book
        BY <2>2, LiveEntries DEF CashInv, Original, OriginalIn
  <2> HIDE DEF g
  <2> DEFINE s == <<g, g + 1>>
  <2>5. s \in Seq(DOMAIN book) /\ Len(s) = 2 /\ s[1] = g /\ s[2] = g + 1 /\ g # g + 1 /\ DOMAIN s = 1..2
        BY <2>4
  <2>6. Range(s) = {g, g + 1}
        BY <2>5 DEF Range
  <2>7. \A i \in 1..2 : s[i] \in {g, g + 1} /\ (i = 1 \/ i = 2)
        BY <2>5
  <2> HIDE DEF s
  <2>8. \A i \in 1..2 : Original(s[i]) /\ book[s[i]].group = g
        BY <2>2, <2>7
  <2>9. \A i, j \in 1..2 : s[i] = s[j] => i = j
        BY <2>5, <2>7
  <2> QED BY <2>1, <2>3, <2>5, <2>6, <2>8, <2>9 DEF s
<1> QED BY <1>1, <1>2

\* Reversals join the book: of all of an original that was not reversed.
LEMMA ReversalsPosted ==
    ASSUME CashInv, NEW o, Original(o), \A l \in Range(Legs(o)) : ~Reversed(l),
           book' = book \o Reversals(Legs(o)), Len(bills') = Len(bills)
    PROVE  /\ PairsSideBySide' /\ Corrected'
           /\ Reversals(Legs(o)) \in Seq(Posting)
           /\ \A e \in DOMAIN book' : /\ book'[e].reverses \in 0..(e - 1) /\ book'[e].group \in 0..Len(book')
                                      /\ book'[e].bill \in 0..Len(bills')
           /\ Range(Legs(o)) \subseteq Live /\ Live' = Live \ Range(Legs(o))
<1> DEFINE N == Len(book)
           legs == Legs(o)
           k == Len(legs)
           es == Reversals(legs)
           pair == IF k > 1 THEN N + 1 ELSE Nothing
<1>1. /\ legs \in Seq(DOMAIN book) /\ k \in 1..2 /\ DOMAIN legs = 1..k
      /\ \A i \in 1..k : Original(legs[i]) /\ legs[i] \in DOMAIN book /\ legs[i] # Nothing
      /\ \A i, j \in 1..k : legs[i] = legs[j] => i = j
      /\ \A i, j \in 1..k : book[legs[i]].group = book[legs[j]].group
      /\ \A i \in 1..k, f \in DOMAIN book :
           Original(f) /\ book[f].group # Nothing /\ book[f].group = book[legs[i]].group => f \in Range(legs)
  <2>1. legs \in Seq(DOMAIN book) /\ k \in 1..2
        BY LegsOfOriginal
  <2>2. \A i \in 1..k : Original(legs[i]) /\ legs[i] \in DOMAIN book /\ legs[i] # Nothing
        BY LegsOfOriginal, LiveEntries DEF CashInv, Original, OriginalIn, Nothing
  <2> QED BY <2>1, <2>2, LegsOfOriginal
<1> HIDE DEF legs
<1>2. /\ DOMAIN es = 1..k /\ Len(es) = k /\ es \in Seq(Posting)
      /\ \A i \in 1..k : /\ es[i].reverses = legs[i] /\ es[i].group = pair
                         /\ es[i].bill = book[legs[i]].bill
  <2> DEFINE row(i) == Reversal(legs[i], pair)
  <2>1. es = [i \in 1..k |-> row(i)]
        BY <1>1 DEF Reversals
  <2>2. ASSUME NEW i \in 1..k
        PROVE  row(i) \in Posting /\ row(i).reverses = legs[i] /\ row(i).group = pair /\ row(i).bill = book[legs[i]].bill
    <3>1. book[legs[i]] \in Posting /\ legs[i] \in Nat
          BY <1>1, LiveEntries DEF CashInv, CashTypes
    <3>2. pair \in Nat
          BY LiveEntries DEF CashInv, Nothing
    <3> HIDE DEF pair
    <3> QED BY <3>1, <3>2 DEF Reversal, Posting, Opposite
  <2> HIDE DEF row, es
  <2>3. es \in [1..k -> Posting] /\ k \in Nat
        BY <1>1, <2>1, <2>2
  <2>4. es \in Seq(Posting) /\ Len(es) = k /\ DOMAIN es = 1..k
        BY <2>3
  <2> QED BY <2>1, <2>2, <2>4
<1>r. \A i \in 1..k : es[i] = Reversal(legs[i], pair)
      BY <1>1 DEF Reversals
<1> HIDE DEF es
<1>0. book' = book \o es
      BY DEF es, legs
<1>3. /\ book' \in Seq(Posting) /\ Len(book') = N + k /\ N \in Nat /\ k \in Nat
      /\ DOMAIN book = 1..N /\ DOMAIN book' = 1..(N + k)
      /\ \A e \in DOMAIN book : e \in DOMAIN book' /\ book'[e] = book[e] /\ e <= N /\ e \in Nat
      /\ \A i \in 1..k : N + i \in DOMAIN book' /\ book'[N + i] = es[i]
      /\ \A e \in DOMAIN book' : e \in DOMAIN book \/ (e > N /\ \E i \in 1..k : e = N + i /\ book'[e] = es[i])
  <2>1. CashTypes /\ es \in Seq(Posting) /\ Len(es) = k
        BY <1>2 DEF CashInv
  <2>2. /\ book' \in Seq(Posting) /\ Len(book') = Len(book) + Len(es)
        /\ Len(book) \in Nat /\ Len(es) \in Nat
        /\ DOMAIN book = 1..Len(book) /\ DOMAIN book' = 1..(Len(book) + Len(es))
        /\ \A e \in DOMAIN book : e \in DOMAIN book' /\ book'[e] = book[e] /\ e <= Len(book) /\ e \in Nat
        /\ \A i \in 1..Len(es) : Len(book) + i \in DOMAIN book' /\ book'[Len(book) + i] = es[i]
        /\ \A e \in DOMAIN book' : e \in DOMAIN book \/ (e > Len(book) /\ \E i \in 1..Len(es) : e = Len(book) + i /\ book'[e] = es[i])
        BY <1>0, <2>1, Posted
  <2> QED BY <2>1, <2>2
<1>4. \A e \in DOMAIN book : /\ book[e].reverses \in 0..(e - 1) /\ book[e].group \in 0..N
                             /\ book[e].bill \in 0..Len(bills)
      BY DEF CashInv, EntriesPoint
<1> HIDE DEF N, k
<1>5. \A e \in DOMAIN book : OriginalIn(book', e) <=> Original(e)
      BY <1>3 DEF Original, OriginalIn
<1>6. \A e \in DOMAIN book' \ DOMAIN book :
        \E i \in 1..k : /\ e = N + i /\ book'[e].reverses = legs[i] /\ book'[e].group = pair
                        /\ book'[e].bill = book[legs[i]].bill /\ ~OriginalIn(book', e)
  <2> SUFFICES ASSUME NEW e \in DOMAIN book' \ DOMAIN book
               PROVE  \E i \in 1..k : /\ e = N + i /\ book'[e].reverses = legs[i] /\ book'[e].group = pair
                                      /\ book'[e].bill = book[legs[i]].bill /\ ~OriginalIn(book', e)
      OBVIOUS
  <2>1. PICK i \in 1..k : e = N + i /\ book'[e] = es[i]
        BY <1>3
  <2>2. book'[e].reverses = legs[i] /\ book'[e].group = pair /\ book'[e].bill = book[legs[i]].bill /\ ~OriginalIn(book', e)
        BY <1>1, <1>2, <2>1 DEF OriginalIn
  <2> QED BY <2>1, <2>2
<1>p. pair \in {Nothing, N + 1} /\ Len(bills') = Len(bills)
      OBVIOUS
<1> HIDE DEF pair
<1>7. \A e \in DOMAIN book' : /\ book'[e].reverses \in 0..(e - 1) /\ book'[e].group \in 0..Len(book')
                              /\ book'[e].bill \in 0..Len(bills')
  <2> SUFFICES ASSUME NEW e \in DOMAIN book'
               PROVE  book'[e].reverses \in 0..(e - 1) /\ book'[e].group \in 0..(N + k) /\ book'[e].bill \in 0..Len(bills)
      BY <1>3, <1>p
  <2>1. CASE e \in DOMAIN book
        BY <1>3, <1>4, <2>1
  <2>2. CASE e \notin DOMAIN book
    <3>1. PICK i \in 1..k : /\ e = N + i /\ book'[e].reverses = legs[i] /\ book'[e].group = pair
                            /\ book'[e].bill = book[legs[i]].bill
          BY <1>6, <2>2
    <3>2. legs[i] \in Nat /\ legs[i] <= N /\ book[legs[i]].bill \in 0..Len(bills)
          BY <1>1, <1>3, <1>4
    <3>3. i \in 1..k /\ N \in Nat /\ k \in Nat /\ pair \in {0, N + 1}
          BY <1>3, <1>p DEF Nothing
    <3> HIDE DEF N, k
    <3>4. legs[i] \in 0..(e - 1) /\ pair \in 0..(N + k)
          BY <3>1, <3>2, <3>3
    <3> QED BY <3>1, <3>2, <3>4
  <2> QED BY <2>1, <2>2
<1>8. \A e \in DOMAIN book', f \in DOMAIN book' :
         book'[e].group # Nothing /\ book'[e].group = book'[f].group =>
            \/ e \in DOMAIN book /\ f \in DOMAIN book /\ book[e].group # Nothing /\ book[e].group = book[f].group
            \/ e \notin DOMAIN book /\ f \notin DOMAIN book
  <2> SUFFICES ASSUME NEW e \in DOMAIN book', NEW f \in DOMAIN book',
                      book'[e].group # Nothing, book'[e].group = book'[f].group
               PROVE  \/ e \in DOMAIN book /\ f \in DOMAIN book /\ book[e].group # Nothing /\ book[e].group = book[f].group
                      \/ e \notin DOMAIN book /\ f \notin DOMAIN book
      OBVIOUS
  <2>1. CASE e \in DOMAIN book /\ f \in DOMAIN book
        BY <1>3, <2>1
  <2>2. CASE e \notin DOMAIN book /\ f \in DOMAIN book
        BY <1>3, <1>4, <1>6, <1>p, <2>2
  <2>3. CASE e \in DOMAIN book /\ f \notin DOMAIN book
        BY <1>3, <1>4, <1>6, <1>p, <2>3
  <2>4. CASE e \notin DOMAIN book /\ f \notin DOMAIN book
        BY <2>4
  <2> QED BY <2>1, <2>2, <2>3, <2>4
<1>9. PairsSideBySide'
  <2>1. ASSUME NEW e \in DOMAIN book', OriginalIn(book', e), book'[e].group # Nothing
        PROVE  LET g == book'[e].group
               IN  /\ e \in {g, g + 1} /\ OriginalIn(book', g) /\ OriginalIn(book', g + 1)
                   /\ book'[g].group = g /\ book'[g + 1].group = g
    <3>1. e \in DOMAIN book
          BY <1>6, <2>1
    <3>2. book'[e] = book[e] /\ Original(e)
          BY <1>3, <1>5, <2>1, <3>1
    <3> DEFINE g == book[e].group
    <3>3. e \in {g, g + 1} /\ Original(g) /\ Original(g + 1) /\ book[g].group = g /\ book[g + 1].group = g
          BY <2>1, <3>1, <3>2 DEF CashInv, PairsSideBySide
    <3> HIDE DEF g
    <3>4. g \in DOMAIN book /\ g + 1 \in DOMAIN book
          BY <3>3 DEF Original, OriginalIn
    <3>5. OriginalIn(book', g) /\ OriginalIn(book', g + 1) /\ book'[g] = book[g] /\ book'[g + 1] = book[g + 1]
          BY <1>3, <1>5, <3>3, <3>4
    <3> QED BY <3>2, <3>3, <3>5 DEF g
  <2>2. ASSUME NEW e \in DOMAIN book', NEW f \in DOMAIN book',
               book'[e].group # Nothing, book'[e].group = book'[f].group
        PROVE  OriginalIn(book', e) <=> OriginalIn(book', f)
    <3>1. CASE e \in DOMAIN book /\ f \in DOMAIN book /\ book[e].group # Nothing /\ book[e].group = book[f].group
      <4>1. Original(e) <=> Original(f)
            BY <3>1 DEF CashInv, PairsSideBySide
      <4> QED BY <1>5, <3>1, <4>1
    <3>2. CASE e \notin DOMAIN book /\ f \notin DOMAIN book
          BY <1>6, <3>2
    <3> QED BY <1>8, <2>2, <3>1, <3>2
  <2> QED BY <2>1, <2>2 DEF PairsSideBySide, Original
<1>10. \A l \in Range(legs) : ~Reversed(l) /\ Original(l) /\ l \in DOMAIN book
       BY <1>1 DEF Range, legs
<1>11. \A e \in DOMAIN book : Reversed(e)' <=> (Reversed(e) \/ e \in Range(legs))
  <2> SUFFICES ASSUME NEW e \in DOMAIN book PROVE Reversed(e)' <=> (Reversed(e) \/ e \in Range(legs))
      OBVIOUS
  <2>1. ASSUME NEW r \in DOMAIN book', book'[r].reverses = e PROVE Reversed(e) \/ e \in Range(legs)
    <3>1. CASE r \in DOMAIN book
          BY <1>3, <2>1, <3>1 DEF Reversed, ReversedIn
    <3>2. CASE r \notin DOMAIN book
          BY <1>1, <1>6, <2>1, <3>2, SMTT(30) DEF Range
    <3> QED BY <3>1, <3>2
  <2>2. ASSUME Reversed(e) PROVE \E r \in DOMAIN book' : book'[r].reverses = e
        BY <1>3, <2>2 DEF Reversed, ReversedIn
  <2>3. ASSUME e \in Range(legs) PROVE \E r \in DOMAIN book' : book'[r].reverses = e
    <3>1. PICK i \in 1..k : legs[i] = e
          BY <1>1, <2>3 DEF Range
    <3>2. N + i \in DOMAIN book' /\ book'[N + i].reverses = e
          BY <1>2, <1>3, <3>1
    <3> QED BY <3>2
  <2> QED BY <2>1, <2>2, <2>3 DEF Reversed, ReversedIn
<1>12. Range(legs) \subseteq Live /\ Live' = Live \ Range(legs)
  <2>1. Range(legs) \subseteq Live
        BY <1>10 DEF Live, Original, OriginalIn
  <2>2. ASSUME NEW e PROVE e \in Live' <=> e \in Live \ Range(legs)
    <3>1. CASE e \in DOMAIN book
          BY <1>3, <1>5, <1>11, <3>1 DEF Live, Original, OriginalIn
    <3>2. CASE e \notin DOMAIN book
          BY <1>6, <3>2 DEF Live, OriginalIn
    <3> QED BY <3>1, <3>2
  <2> QED BY <2>1, <2>2
<1>13. Corrected'
  <2>1. ASSUME NEW e \in DOMAIN book', NEW f \in DOMAIN book',
               book'[e].reverses # Nothing, book'[e].reverses = book'[f].reverses
        PROVE  e = f
    <3>1. CASE e \in DOMAIN book /\ f \in DOMAIN book
          BY <1>3, <2>1, <3>1 DEF CashInv, Corrected
    <3>2. ASSUME NEW x \in DOMAIN book' \ DOMAIN book, NEW y \in DOMAIN book, book'[x].reverses = book'[y].reverses
          PROVE  FALSE
      <4>1. book'[x].reverses \in Range(legs)
            BY <1>1, <1>6 DEF Range
      <4>2. book[y].reverses = book'[x].reverses
            BY <1>3, <3>2
      <4> QED BY <1>10, <4>1, <4>2 DEF Reversed, ReversedIn
    <3>3. CASE e \notin DOMAIN book /\ f \notin DOMAIN book
      <4>1. PICK i \in 1..k : e = N + i /\ book'[e].reverses = legs[i]
            BY <1>6, <3>3
      <4>2. PICK j \in 1..k : f = N + j /\ book'[f].reverses = legs[j]
            BY <1>6, <3>3
      <4> QED BY <1>1, <2>1, <4>1, <4>2
    <3> QED BY <2>1, <3>1, <3>2, <3>3
  <2>2. ASSUME NEW e \in DOMAIN book', NEW f \in DOMAIN book',
               book'[e].group # Nothing, book'[e].group = book'[f].group
        PROVE  e \in Live' <=> f \in Live'
    <3>1. CASE e \in DOMAIN book /\ f \in DOMAIN book /\ book[e].group # Nothing /\ book[e].group = book[f].group
      <4>1. (e \in Live <=> f \in Live) /\ (Original(e) <=> Original(f))
            BY <3>1 DEF CashInv, Corrected, PairsSideBySide
      <4>2. \A x, y \in DOMAIN book : x \in Range(legs) /\ Original(y) /\ book[y].group # Nothing
                                        /\ book[x].group = book[y].group => y \in Range(legs)
            BY <1>1 DEF Range
      <4>3. (e \in Range(legs) => Original(e)) /\ (f \in Range(legs) => Original(f))
            BY <1>10
      <4>4. e \in Range(legs) <=> f \in Range(legs)
            BY <3>1, <4>1, <4>2, <4>3
      <4> QED BY <1>12, <4>1, <4>4
    <3>2. CASE e \notin DOMAIN book /\ f \notin DOMAIN book
      <4>1. Live \subseteq DOMAIN book
            BY DEF Live
      <4> QED BY <1>12, <3>2, <4>1
    <3> QED BY <1>8, <2>2, <3>1, <3>2
  <2>3. ASSUME NEW r \in DOMAIN book', book'[r].reverses # Nothing PROVE TakesBackIn(book', r, book'[r].reverses)
    <3>1. CASE r \in DOMAIN book
      <4> DEFINE e == book[r].reverses
      <4>1. TakesBackIn(book, r, e) /\ book'[r] = book[r]
            BY <1>3, <2>3, <3>1 DEF CashInv, Corrected
      <4>2. e \in DOMAIN book
            BY <1>3, <1>4, <2>3, <3>1, <4>1 DEF Nothing
      <4> QED BY <1>3, <3>1, <4>1, <4>2 DEF TakesBackIn
    <3>2. CASE r \notin DOMAIN book
      <4>1. PICK i \in 1..k : r = N + i /\ book'[r] = Reversal(legs[i], pair)
            BY <1>3, <1>r, <3>2
      <4>2. book'[legs[i]] = book[legs[i]] /\ book[legs[i]].reverses = Nothing /\ book[legs[i]] \in Posting
            BY <1>1, <1>3 DEF CashInv, CashTypes, Original, OriginalIn
      <4> DEFINE new == book'[r]
                 old == book[legs[i]]
      <4>3. /\ new.reverses = legs[i] /\ new.account = old.account /\ new.amount = old.amount
            /\ new.kind = old.kind /\ new.bill = old.bill /\ new.dir = Opposite(old.dir)
            BY <4>1, <4>2 DEF Reversal, Posting
      <4>4. old.dir \in {"IN", "OUT"}
            BY <4>2 DEF Posting
      <4> HIDE DEF new, old
      <4>5. {new.dir, old.dir} = {"IN", "OUT"}
            BY <4>3, <4>4 DEF Opposite
      <4> QED BY <4>2, <4>3, <4>5 DEF TakesBackIn, new, old
    <3> QED BY <3>1, <3>2
  <2> QED BY <2>1, <2>2, <2>3 DEF Corrected
<1>14. /\ Reversals(Legs(o)) \in Seq(Posting)
       /\ Range(Legs(o)) \subseteq Live /\ Live' = Live \ Range(Legs(o))
       BY <1>2, <1>12 DEF es, legs
<1> QED BY <1>7, <1>9, <1>13, <1>14

\* The book and the bills are empty at the start.
LEMMA CashInitial == CashInit => CashInv
<1> SUFFICES ASSUME CashInit PROVE CashInv
    OBVIOUS
<1>1. book = <<>> /\ bills = <<>> /\ clerk = [c \in Clerks |-> AtRest]
      BY DEF CashInit
<1>2. DOMAIN book = {} /\ DOMAIN bills = {}
      BY <1>1
<1>3. CashTypes
      BY <1>1 DEF CashTypes, Clerk
<1>4. ClerksReverse
      BY <1>1 DEF ClerksReverse, AtRest
<1> QED BY <1>2, <1>3, <1>4
        DEF CashInv, EntriesPoint, PairsSideBySide, Corrected, BillsMatchBook

\* Steps that leave the book and the bills alone.
LEMMA BookAlone ==
    ASSUME CashInv, UNCHANGED <<book, bills>>, clerk' \in [Clerks -> Clerk],
           \A c \in Clerks : clerk'[c].at = "reverse" =>
              clerk'[c] = clerk[c] \/ \E e \in DOMAIN book : Original(e) /\ clerk'[c].legs = Legs(e)
    PROVE  CashInv'
<1>1. Live' = Live
      BY DEF Live, Reversed, ReversedIn
<1>2. \A e : (Original(e)' <=> Original(e)) /\ Legs(e)' = Legs(e)
      BY DEF Original, OriginalIn, Legs
<1>3. CashTypes' /\ EntriesPoint'
      BY DEF CashInv, CashTypes, EntriesPoint
<1>4. PairsSideBySide'
      BY DEF CashInv, PairsSideBySide, Original, OriginalIn
<1>5. Corrected'
      BY <1>1 DEF CashInv, Corrected, TakesBackIn
<1>6. ClerksReverse'
      BY <1>2 DEF CashInv, ClerksReverse
<1>7. BillsMatchBook'
      BY <1>1 DEF CashInv, BillsMatchBook, PaidFor
<1> QED BY <1>3, <1>4, <1>5, <1>6, <1>7 DEF CashInv

\* What is on record as paid for a bill, when originals join the book.
LEMMA PaidWithOriginals ==
    ASSUME CashInv, NEW es \in Seq(Posting), book' = book \o es,
           \A i \in 1..Len(es) : es[i].reverses = Nothing,
           \/ Len(es) = 1 /\ es[1].group = Nothing
           \/ Len(es) = 2 /\ es[1].group = Len(book) + 1 /\ es[2].group = Len(book) + 1,
           NEW b
    PROVE  /\ (\A i \in 1..Len(es) : es[i].bill # b) => PaidIn(book', b, Live') = PaidIn(book, b, Live)
           /\ Len(es) = 1 /\ es[1].bill = b => PaidIn(book', b, Live') = PaidIn(book, b, Live) + es[1].amount
<1> DEFINE N == Len(book)
           k == Len(es)
<1>1. Live' = Live \cup {N + i : i \in 1..k}
      BY OriginalsPosted
<1>2. /\ book' \in Seq(Posting) /\ book \in Seq(Posting) /\ Len(book') = N + k /\ N \in Nat /\ k \in Nat
      /\ DOMAIN book = 1..N
      /\ \A e \in DOMAIN book : book'[e] = book[e] /\ e <= N /\ e \in Nat
      /\ \A i \in 1..k : N + i \in DOMAIN book' /\ book'[N + i] = es[i]
      /\ DOMAIN book' = 1..(N + k)
      BY Posted DEF CashInv, CashTypes
<1>3. Live \in SUBSET (1..Len(book))
      BY LiveEntries DEF CashInv
<1>4. Live' \in SUBSET (1..Len(book')) /\ Live \subseteq Live' /\ Live' \ Live = {N + i : i \in 1..k}
  <2>1. \A i \in 1..k : N + i \in 1..(N + k) /\ N + i \notin Live
        BY <1>2, <1>3
  <2>2. \A e \in Live : e \in 1..(N + k)
        BY <1>2, <1>3
  <2>3. Live' \in SUBSET (1..(N + k))
        BY <1>1, <2>1, <2>2
  <2> HIDE DEF N, k
  <2> QED BY <1>1, <1>2, <2>1, <2>3
<1> HIDE DEF N, k
<1>5. \A e \in Live : book'[e] = book[e]
      BY <1>2, <1>3 DEF N
<1>s. /\ book \in Seq(Posting) /\ book' \in Seq(Posting)
      /\ Live \in SUBSET (1..Len(book)) /\ Live' \in SUBSET (1..Len(book')) /\ Live \subseteq Live'
      /\ \A e \in Live : book'[e] = book[e]
      BY <1>2, <1>3, <1>4, <1>5
<1>6. ASSUME \A i \in 1..k : es[i].bill # b PROVE PaidIn(book', b, Live') = PaidIn(book, b, Live)
  <2>1. \A e \in Live' \ Live : book'[e].bill # b
        BY <1>2, <1>4, <1>6
  <2> DEFINE T == Live'
             S == Live
             later == book'
  <2>2. /\ later \in Seq(Posting) /\ S \in SUBSET (1..Len(book)) /\ T \in SUBSET (1..Len(later)) /\ S \subseteq T
        /\ (\A e \in S : later[e] = book[e]) /\ \A e \in T \ S : later[e].bill # b
        BY <1>s, <2>1
  <2> HIDE DEF T, S, later
  <2>3. PaidIn(later, b, T) = PaidIn(book, b, S)
        BY <1>s, <2>2, PaidJoins
  <2> QED BY <2>3 DEF T, S, later
<1>7. ASSUME k = 1, es[1].bill = b PROVE PaidIn(book', b, Live') = PaidIn(book, b, Live) + es[1].amount
  <2>1. Live' \ Live = {N + 1} /\ book'[N + 1] = es[1]
    <3>1. 1..k = {1}
          BY <1>7
    <3> QED BY <1>2, <1>4, <1>7, <3>1
  <2> DEFINE T == Live'
             S == Live
             later == book'
             rows == book
             a == N + 1
  <2>2. OneJoins(rows, later, b, S, T, a)
        BY <1>s, <1>7, <2>1 DEF OneJoins
  <2>3. later[a] = es[1]
        BY <2>1
  <2> HIDE DEF T, S, later, a, rows
  <2>4. PaidIn(later, b, T) = PaidIn(rows, b, S) + later[a].amount
        BY <2>2, PaidOneMore
  <2> QED BY <2>3, <2>4 DEF T, S, later, rows
<1> QED BY <1>6, <1>7 DEF k

\* Entries that pay no bill.
LEMMA NoBillPosted ==
    ASSUME CashInv, NEW es \in Seq(Posting), book' = book \o es, UNCHANGED <<bills, clerk>>,
           \A i \in 1..Len(es) : es[i].reverses = Nothing /\ es[i].bill = Nothing,
           \/ Len(es) = 1 /\ es[1].group = Nothing
           \/ Len(es) = 2 /\ es[1].group = Len(book) + 1 /\ es[2].group = Len(book) + 1
    PROVE  CashInv'
<1>1. /\ PairsSideBySide' /\ Corrected'
      /\ \A e \in DOMAIN book' : book'[e].reverses \in 0..(e - 1) /\ book'[e].group \in 0..Len(book')
      BY OriginalsPosted
<1>2. book' \in Seq(Posting) /\ ClerksReverse'
      BY Posted, ClerksGoOn DEF CashInv
<1>3. CashTypes'
      BY <1>2 DEF CashInv, CashTypes
<1>4. \A e \in DOMAIN book' : book'[e].bill \in 0..Len(bills')
  <2> SUFFICES ASSUME NEW e \in DOMAIN book' PROVE book'[e].bill \in 0..Len(bills)
      OBVIOUS
  <2>1. (e \in DOMAIN book /\ book'[e] = book[e]) \/ \E i \in 1..Len(es) : book'[e] = es[i]
        BY Posted DEF CashInv
  <2>2. Len(bills) \in Nat
        BY DEF CashInv, CashTypes
  <2> QED BY <2>1, <2>2 DEF CashInv, EntriesPoint, Nothing
<1>5. EntriesPoint'
      BY <1>1, <1>4 DEF CashInv, EntriesPoint
<1>6. BillsMatchBook'
  <2> SUFFICES ASSUME NEW b \in DOMAIN bills PROVE bills[b].paid = PaidIn(book', b, Live')
      BY DEF BillsMatchBook, PaidFor, PaidIn
  <2>1. b # Nothing
        BY LiveEntries DEF CashInv, Nothing
  <2>2. \A i \in 1..Len(es) : es[i].bill # b
        BY <2>1
  <2>3. PaidIn(book', b, Live') = PaidIn(book, b, Live)
        BY <2>2, PaidWithOriginals
  <2> QED BY <2>3 DEF CashInv, BillsMatchBook, PaidFor, PaidIn
<1> QED BY <1>1, <1>2, <1>3, <1>5, <1>6 DEF CashInv

\* An entry that pays a bill, which says so too.
LEMMA PaymentPosted ==
    ASSUME CashInv, NEW entry \in Posting, book' = Append(book, entry),
           entry.reverses = Nothing, entry.group = Nothing,
           bills' \in Seq(Bill), Len(bills') >= Len(bills), entry.bill \in 1..Len(bills'),
           \A b \in DOMAIN bills' : bills'[b].paid <= bills'[b].total,
           \A b \in DOMAIN bills \ {entry.bill} : b \in DOMAIN bills' /\ bills'[b] = bills[b],
           \A b \in DOMAIN bills' \ {entry.bill} : b \in DOMAIN bills,
           bills'[entry.bill].paid =
              entry.amount + (IF entry.bill \in DOMAIN bills THEN bills[entry.bill].paid ELSE 0),
           clerk' \in [Clerks -> Clerk], \A c \in Clerks : clerk'[c].at = "reverse" => clerk'[c] = clerk[c]
    PROVE  CashInv'
<1> DEFINE es == <<entry>>
           d == entry.bill
<1>0. es \in Seq(Posting) /\ Len(es) = 1 /\ es[1] = entry /\ book' = book \o es
      BY DEF CashInv, CashTypes
<1>c. CashTypes /\ BillsMatchBook
      BY DEF CashInv
<1>x. \A i \in 1..Len(es) : es[i] = entry
      BY <1>0
<1> HIDE DEF es
<1>1. /\ PairsSideBySide' /\ Corrected'
      /\ \A e \in DOMAIN book' : book'[e].reverses \in 0..(e - 1) /\ book'[e].group \in 0..Len(book')
      BY <1>0, <1>x, OriginalsPosted
<1>2. book' \in Seq(Posting) /\ ClerksReverse'
      BY <1>0, Posted, ClerksGoOn DEF CashInv
<1>3. CashTypes'
      BY <1>2 DEF CashInv, CashTypes
<1>l. DOMAIN bills = 1..Len(bills) /\ DOMAIN bills' = 1..Len(bills') /\ Len(bills) \in Nat /\ Len(bills') \in Nat
      BY <1>3 DEF CashInv, CashTypes
<1>r. \A e \in DOMAIN book' : (e \in DOMAIN book /\ book'[e] = book[e]) \/ \E i \in 1..Len(es) : book'[e] = es[i]
  <2>1. /\ book' \in Seq(Posting) /\ Len(book') = Len(book) + Len(es)
        /\ Len(book) \in Nat /\ Len(es) \in Nat
        /\ DOMAIN book = 1..Len(book) /\ DOMAIN book' = 1..(Len(book) + Len(es))
        /\ \A e \in DOMAIN book : e \in DOMAIN book' /\ book'[e] = book[e] /\ e <= Len(book) /\ e \in Nat
        /\ \A i \in 1..Len(es) : Len(book) + i \in DOMAIN book' /\ book'[Len(book) + i] = es[i]
        /\ \A e \in DOMAIN book' : e \in DOMAIN book \/ (e > Len(book) /\ \E i \in 1..Len(es) : e = Len(book) + i /\ book'[e] = es[i])
        BY <1>0, <1>c, Posted
  <2> QED BY <2>1
<1>4. \A e \in DOMAIN book' : book'[e].bill \in 0..Len(bills')
  <2> SUFFICES ASSUME NEW e \in DOMAIN book' PROVE book'[e].bill \in 0..Len(bills')
      OBVIOUS
  <2>1. (e \in DOMAIN book /\ book'[e] = book[e]) \/ \E i \in 1..Len(es) : book'[e] = es[i]
        BY <1>r
  <2>2. CASE e \in DOMAIN book /\ book'[e] = book[e]
        BY <1>l, <2>2 DEF CashInv, EntriesPoint
  <2>3. CASE book'[e] = entry
        BY <1>l, <2>3
  <2> QED BY <1>x, <2>1, <2>2, <2>3
<1>5. EntriesPoint'
      BY <1>1, <1>4 DEF EntriesPoint
<1>6. BillsMatchBook'
  <2> SUFFICES ASSUME NEW b \in DOMAIN bills' PROVE bills'[b].paid = PaidIn(book', b, Live')
      BY DEF BillsMatchBook, PaidFor, PaidIn
  <2>1. CASE b # d
    <3>0. \A i \in 1..Len(es) : es[i].reverses = Nothing /\ es[i].bill # b
          BY <1>x, <2>1
    <3>3. Len(es) = 1 /\ es[1].group = Nothing
          BY <1>0
    <3>1. PaidIn(book', b, Live') = PaidIn(book, b, Live)
          BY <1>0, <3>0, <3>3, PaidWithOriginals
    <3>2. b \in DOMAIN bills /\ bills'[b] = bills[b]
          BY <2>1
    <3> QED BY <3>1, <3>2 DEF CashInv, BillsMatchBook, PaidFor, PaidIn
  <2>2. CASE b = d
    <3>1. PaidIn(book', b, Live') = PaidIn(book, b, Live) + entry.amount
          BY <1>0, <1>x, <2>2, PaidWithOriginals
    <3>2. entry.amount \in Nat
          BY DEF Posting
    <3>3. CASE b \in DOMAIN bills
      <4>0. bills[b].paid \in Nat
        <5>1. bills[b] \in Bill
              BY <1>c, <1>l, <3>3 DEF CashTypes
        <5> QED BY <5>1 DEF Bill
      <4>1. bills[b].paid = PaidIn(book, b, Live) /\ bills[b].paid \in Nat
            BY <1>c, <3>3, <4>0 DEF BillsMatchBook, PaidFor, PaidIn
      <4> QED BY <2>2, <3>1, <3>2, <3>3, <4>1
    <3>4. CASE b \notin DOMAIN bills
      <4> DEFINE f == [e \in Live |-> IF book[e].bill = b THEN book[e].amount ELSE 0]
      <4>1. \A e \in Live : f[e] = 0
        <5>1. \A e \in Live : book[e].bill \in 0..Len(bills)
              BY LiveEntries DEF CashInv, EntriesPoint
        <5>2. b # Nothing /\ b \notin 1..Len(bills)
              BY <1>l, <3>4 DEF Nothing
        <5> QED BY <1>l, <5>1, <5>2 DEF Nothing
      <4> HIDE DEF f
      <4>2. SumOf(f, Live) = 0
            BY <4>1, SumZero, LiveEntries DEF CashInv
      <4>3. PaidIn(book, b, Live) = 0
            BY <4>2 DEF PaidIn, f
      <4> QED BY <2>2, <3>1, <3>2, <3>4, <4>3
    <3> QED BY <3>3, <3>4
  <2> QED BY <2>1, <2>2
<1> QED BY <1>1, <1>2, <1>3, <1>5, <1>6 DEF CashInv

\* What was paid by some of the entries, and by the others.
LEMMA PaidInParts ==
    ASSUME NEW rows \in Seq(Posting), NEW S \in SUBSET (1..Len(rows)), NEW R \in SUBSET S, NEW b
    PROVE  /\ PaidIn(rows, b, S) \in Nat /\ PaidIn(rows, b, R) \in Nat /\ PaidIn(rows, b, S \ R) \in Nat
           /\ PaidIn(rows, b, S) = PaidIn(rows, b, R) + PaidIn(rows, b, S \ R)
<1> DEFINE f == [e \in S |-> IF rows[e].bill = b THEN rows[e].amount ELSE 0]
           g == [e \in R |-> IF rows[e].bill = b THEN rows[e].amount ELSE 0]
           h == [e \in S \ R |-> IF rows[e].bill = b THEN rows[e].amount ELSE 0]
           U == S \ R
<1>1. R \in SUBSET (1..Len(rows)) /\ U \in SUBSET (1..Len(rows)) /\ U \subseteq S
      OBVIOUS
<1>2. IsFiniteSet(S) /\ NatsOn(f, S) /\ PaidIn(rows, b, S) \in Nat
      BY PaidInNats
<1>3. IsFiniteSet(R) /\ NatsOn(g, R) /\ PaidIn(rows, b, R) \in Nat
      BY <1>1, PaidInNats
<1>4. IsFiniteSet(U) /\ PaidIn(rows, b, U) \in Nat
      BY <1>1, PaidInNats
<1>5. (\A e \in R : g[e] = f[e]) /\ (\A e \in U : h[e] = f[e])
      OBVIOUS
<1>6. PaidIn(rows, b, S) = SumOf(f, S) /\ PaidIn(rows, b, R) = SumOf(g, R) /\ PaidIn(rows, b, U) = SumOf(h, U)
      BY DEF PaidIn
<1>u. U = S \ R
      OBVIOUS
<1> HIDE DEF f, g, h, U
<1>7. IntsOn(f, S) /\ IntsOn(f, R) /\ IntsOn(f, U)
      BY <1>1, <1>2 DEF IntsOn, NatsOn
<1>8. SumOf(g, R) = SumOf(f, R)
      BY <1>3, <1>5, <1>7, SumSame
<1>9. SumOf(h, U) = SumOf(f, U)
      BY <1>4, <1>5, <1>7, SumSame
<1>10. SumOf(f, S) = SumOf(f, R) + SumOf(f, U)
      BY <1>2, <1>7, <1>u, SumSplit
<1> QED BY <1>2, <1>3, <1>4, <1>6, <1>8, <1>9, <1>10, <1>u

\* Rows are not changed once they are posted.
LEMMA PaidInSame ==
    ASSUME NEW rows \in Seq(Posting), NEW later, NEW S \in SUBSET (1..Len(rows)), NEW b,
           \A e \in S : later[e] = rows[e]
    PROVE  PaidIn(later, b, S) = PaidIn(rows, b, S)
<1> DEFINE f == [e \in S |-> IF rows[e].bill = b THEN rows[e].amount ELSE 0]
           g == [e \in S |-> IF later[e].bill = b THEN later[e].amount ELSE 0]
<1>1. f = g
      OBVIOUS
<1> QED BY <1>1 DEF PaidIn

\* A reversal takes what its legs paid off the bills, and never more than they hold.
LEMMA ReversalUnpays ==
    ASSUME CashInv, NEW o, Original(o), \A l \in Range(Legs(o)) : ~Reversed(l),
           book' = book \o Reversals(Legs(o)), bills' = Unpaid(Legs(o)),
           clerk' \in [Clerks -> Clerk], \A c \in Clerks : clerk'[c].at = "reverse" => clerk'[c] = clerk[c]
    PROVE  CashInv'
<1> DEFINE R == Range(Legs(o))
           es == Reversals(Legs(o))
<1>1. CashTypes /\ BillsMatchBook /\ book \in Seq(Posting) /\ bills \in Seq(Bill)
      BY DEF CashInv, CashTypes
<1>2. Live \in SUBSET (1..Len(book)) /\ DOMAIN book = 1..Len(book) /\ DOMAIN bills = 1..Len(bills) /\ Len(bills) \in Nat
      BY <1>1, LiveEntries
<1>3. DOMAIN bills' = DOMAIN bills /\ Len(bills') = Len(bills)
      BY <1>2 DEF Unpaid
<1>4. /\ PairsSideBySide' /\ Corrected' /\ es \in Seq(Posting)
      /\ \A e \in DOMAIN book' : /\ book'[e].reverses \in 0..(e - 1) /\ book'[e].group \in 0..Len(book')
                                 /\ book'[e].bill \in 0..Len(bills')
      /\ R \in SUBSET Live /\ Live' = Live \ R
      BY <1>3, ReversalsPosted
<1>5. /\ book' \in Seq(Posting) /\ \A e \in DOMAIN book : book'[e] = book[e]
      BY <1>1, <1>4, Posted
<1>6. ClerksReverse'
      BY <1>4, ClerksGoOn
<1> HIDE DEF R, es
<1>7. ASSUME NEW b \in DOMAIN bills
      PROVE  bills'[b] = [bills[b] EXCEPT !.paid = PaidIn(book', b, Live')]
             /\ PaidIn(book', b, Live') \in Nat /\ PaidIn(book', b, Live') <= bills[b].paid
  <2>1. bills'[b] = [bills[b] EXCEPT !.paid = Max({bills[b].paid - PaidIn(book, b, R), 0})]
        BY DEF Unpaid, PaidFor, PaidIn, R
  <2>2. /\ PaidIn(book, b, Live) \in Nat /\ PaidIn(book, b, R) \in Nat /\ PaidIn(book, b, Live \ R) \in Nat
        /\ PaidIn(book, b, Live) = PaidIn(book, b, R) + PaidIn(book, b, Live \ R)
    <3>1. book \in Seq(Posting) /\ Live \in SUBSET (1..Len(book)) /\ R \in SUBSET Live
          BY <1>1, <1>2, <1>4
    <3> QED BY ONLY <3>1, PaidInParts
  <2>3. bills[b].paid = PaidIn(book, b, Live)
        BY <1>1 DEF BillsMatchBook, PaidFor, PaidIn
  <2>4. Max({PaidIn(book, b, Live \ R), 0}) = PaidIn(book, b, Live \ R)
        BY <2>2, Extremes
  <2>5. bills[b].paid - PaidIn(book, b, R) = PaidIn(book, b, Live \ R)
        BY <2>2, <2>3
  <2>6. PaidIn(book', b, Live') = PaidIn(book, b, Live \ R)
    <3> DEFINE later == book'
               S == Live \ R
    <3>1. S \in SUBSET (1..Len(book)) /\ (\A e \in S : later[e] = book[e]) /\ Live' = S
          BY <1>2, <1>4, <1>5
    <3> HIDE DEF later, S
    <3>2. PaidIn(later, b, S) = PaidIn(book, b, S)
          BY <1>1, <3>1, PaidInSame
    <3> QED BY <3>1, <3>2 DEF later, S
  <2>7. bills'[b] = [bills[b] EXCEPT !.paid = PaidIn(book, b, Live \ R)]
        BY <2>1, <2>4, <2>5
  <2>8. PaidIn(book, b, Live \ R) <= bills[b].paid
        BY <2>2, <2>3
  <2> QED BY <2>2, <2>6, <2>7, <2>8
<1>8. \A b \in DOMAIN bills : bills[b] \in Bill /\ bills[b].paid <= bills[b].total
      BY <1>1 DEF CashInv, EntriesPoint
<1>9. \A b \in DOMAIN bills' : /\ bills'[b] \in Bill /\ bills'[b].paid <= bills'[b].total
                               /\ bills'[b].paid = PaidIn(book', b, Live')
  <2> SUFFICES ASSUME NEW b \in DOMAIN bills
               PROVE  /\ bills'[b] \in Bill /\ bills'[b].paid <= bills'[b].total
                      /\ bills'[b].paid = PaidIn(book', b, Live')
      BY <1>3
  <2> DEFINE p == PaidIn(book', b, Live')
  <2>1. bills'[b] = [bills[b] EXCEPT !.paid = p] /\ p \in Nat /\ p <= bills[b].paid /\ bills[b] \in Bill
        /\ bills[b].paid <= bills[b].total
        BY <1>7, <1>8
  <2> HIDE DEF p
  <2>2. bills'[b] \in Bill /\ bills'[b].paid = p /\ bills'[b].total = bills[b].total
        BY <2>1 DEF Bill
  <2>3. bills'[b].paid <= bills'[b].total
        BY <2>1, <2>2 DEF Bill
  <2> QED BY <2>2, <2>3 DEF p
<1>10. bills' \in Seq(Bill)
  <2>1. bills' = [b \in 1..Len(bills) |-> bills'[b]]
        BY <1>2 DEF Unpaid
  <2>2. \A b \in 1..Len(bills) : bills'[b] \in Bill
        BY <1>2, <1>3, <1>9
  <2> HIDE DEF Unpaid
  <2> QED BY <1>2, <2>1, <2>2, IsASeq
<1>11. CashTypes'
      BY <1>5, <1>10 DEF CashTypes
<1>12. EntriesPoint'
      BY <1>4, <1>9 DEF EntriesPoint
<1>13. BillsMatchBook'
      BY <1>9 DEF BillsMatchBook, PaidFor, PaidIn
<1> QED BY <1>4, <1>6, <1>11, <1>12, <1>13 DEF CashInv

\* A clerk that reads nothing more to reverse is still a clerk.
LEMMA ClerkSet ==
    ASSUME CashTypes, NEW c \in Clerks, NEW v \in Clerk, clerk' = [clerk EXCEPT ![c] = v]
    PROVE  /\ clerk' \in [Clerks -> Clerk] /\ clerk'[c] = v
           /\ \A d \in Clerks \ {c} : clerk'[d] = clerk[d]
BY DEF CashTypes

\* Numbers that entries and bills are made of.
LEMMA CashNumbers ==
    /\ \A n \in Amounts : n \in Nat \ {0}
    /\ \A n \in Totals : n \in Nat
BY CashAssumption

\* An entry by hand pays no bill.
LEMMA StepManualEntry ==
    ASSUME CashInv, NEW a \in Accounts, NEW n \in Amounts, NEW dir \in {"IN", "OUT"}, ManualEntry(a, dir, n)
    PROVE  CashInv'
<1> DEFINE entry == Entry(a, dir, "MANUAL", n, Nothing, Nothing)
           es == <<entry>>
<1>1. entry \in Posting /\ entry.reverses = Nothing /\ entry.bill = Nothing /\ entry.group = Nothing
      BY CashNumbers DEF Entry, Posting, Nothing
<1>2. book' = book \o es /\ UNCHANGED <<bills, clerk>>
      BY DEF ManualEntry, Post
<1> HIDE DEF entry
<1>3. /\ es \in Seq(Posting) /\ Len(es) = 1 /\ es[1].group = Nothing
      /\ \A i \in 1..Len(es) : es[i].reverses = Nothing /\ es[i].bill = Nothing
      BY <1>1
<1> HIDE DEF es
<1> QED BY <1>2, <1>3, NoBillPosted

\* A transfer writes both of its legs.
LEMMA StepTransfer ==
    ASSUME CashInv, NEW a \in Accounts, NEW b \in Accounts, NEW n \in Amounts, Transfer(a, b, n)
    PROVE  CashInv'
<1> DEFINE group == Len(book) + 1
           out == Entry(a, "OUT", "TRANSFER", n, Nothing, group)
           in == Entry(b, "IN", "TRANSFER", n, Nothing, group)
           es == <<out, in>>
<1>0. group \in Nat
      BY DEF CashInv, CashTypes
<1>1. /\ out \in Posting /\ out.reverses = Nothing /\ out.bill = Nothing /\ out.group = group
      /\ in \in Posting /\ in.reverses = Nothing /\ in.bill = Nothing /\ in.group = group
      BY <1>0, CashNumbers DEF Entry, Posting, Nothing
<1>2. book' = book \o es /\ UNCHANGED <<bills, clerk>>
      BY DEF Transfer, Post
<1> HIDE DEF out, in
<1>3. /\ es \in Seq(Posting) /\ Len(es) = 2 /\ es[1].group = group /\ es[2].group = group
      /\ \A i \in 1..Len(es) : es[i].reverses = Nothing /\ es[i].bill = Nothing
      BY <1>1
<1> HIDE DEF es
<1> QED BY <1>2, <1>3, NoBillPosted DEF group

\* A payment writes its entry and raises the bill's paid column together.
LEMMA StepPay ==
    ASSUME CashInv, NEW b \in DOMAIN bills, NEW n \in Amounts, NEW a \in Accounts, Pay(b, n, a)
    PROVE  CashInv'
<1> DEFINE entry == Entry(a, "OUT", "PURCHASE_PAYMENT", n, b, Nothing)
<1>1. /\ bills \in Seq(Bill) /\ DOMAIN bills = 1..Len(bills) /\ Len(bills) \in Nat /\ bills[b] \in Bill
      /\ \A d \in DOMAIN bills : bills[d].paid <= bills[d].total
      BY DEF CashInv, CashTypes, EntriesPoint
<1>2. n \in Nat \ {0} /\ bills[b].paid \in Nat /\ bills[b].total \in Nat
      BY <1>1, CashNumbers DEF Bill
<1>3. entry \in Posting /\ entry.reverses = Nothing /\ entry.group = Nothing /\ entry.bill = b /\ entry.amount = n
      BY <1>1, <1>2 DEF Entry, Posting, Nothing
<1>4. book' = Append(book, entry) /\ UNCHANGED clerk
      BY DEF Pay, Post, CashInv, CashTypes
<1>5. bills[b].paid + n <= bills[b].total
      BY <1>2 DEF Pay, Outstanding
<1>6. bills' = [bills EXCEPT ![b].paid = bills[b].paid + n]
  <2>1. Min({bills[b].paid + n, bills[b].total}) = bills[b].paid + n
    <3> DEFINE x == bills[b].paid + n
               y == bills[b].total
    <3>1. x \in Nat /\ y \in Nat /\ x <= y
          BY <1>2, <1>5
    <3> HIDE DEF x, y
    <3>2. Min({x, y}) = x
          BY <3>1, Extremes
    <3> QED BY <3>2 DEF x, y
  <2>2. bills' = [bills EXCEPT ![b].paid = Min({bills[b].paid + n, bills[b].total})]
        BY DEF Pay
  <2> QED BY <2>1, <2>2
<1> HIDE DEF entry
<1>7. /\ bills' \in Seq(Bill) /\ Len(bills') = Len(bills) /\ DOMAIN bills' = DOMAIN bills
      /\ bills'[b].paid = bills[b].paid + n /\ bills'[b].total = bills[b].total
      /\ \A d \in DOMAIN bills \ {b} : bills'[d] = bills[d]
  <2> DEFINE v == [bills[b] EXCEPT !.paid = bills[b].paid + n]
  <2>1. v \in Bill /\ v.paid = bills[b].paid + n /\ v.total = bills[b].total
        BY <1>1, <1>2 DEF Bill
  <2>2. bills' = [bills EXCEPT ![b] = v]
        BY <1>6
  <2> HIDE DEF v
  <2> QED BY <1>1, <2>1, <2>2
<1>8. \A d \in DOMAIN bills' : bills'[d].paid <= bills'[d].total
      BY <1>1, <1>5, <1>7
<1>9. clerk' \in [Clerks -> Clerk] /\ \A c \in Clerks : clerk'[c] = clerk[c]
      BY <1>4 DEF CashInv, CashTypes
<1>10. bills'[b].paid = entry.amount + bills[b].paid
      BY <1>2, <1>3, <1>7
<1> QED BY <1>1, <1>3, <1>4, <1>7, <1>8, <1>9, <1>10, PaymentPosted

\* A reversal writes the opposite entry once and lowers the bill it paid.
LEMMA StepWriteReversal ==
    ASSUME CashInv, NEW c \in Clerks, WriteReversal(c)
    PROVE  CashInv'
<1>1. /\ clerk' \in [Clerks -> Clerk]
      /\ \A d \in Clerks : clerk'[d].at = "reverse" => clerk'[d] = clerk[d]
  <2>1. clerk' = [clerk EXCEPT ![c] = AtRest] /\ AtRest \in Clerk /\ AtRest.at # "reverse"
        BY DEF WriteReversal, Clerk, AtRest
  <2> HIDE DEF AtRest
  <2>2. clerk' \in [Clerks -> Clerk] /\ clerk'[c] = AtRest /\ \A d \in Clerks \ {c} : clerk'[d] = clerk[d]
        BY <2>1, ClerkSet DEF CashInv
  <2> QED BY <2>1, <2>2
<1>2. CASE UNCHANGED <<book, bills>>
      BY <1>1, <1>2, BookAlone
<1>3. CASE /\ \A l \in Range(clerk[c].legs) : ~Reversed(l)
           /\ Post(Reversals(clerk[c].legs)) /\ bills' = Unpaid(clerk[c].legs)
  <2>1. PICK o \in DOMAIN book : Original(o) /\ clerk[c].legs = Legs(o)
        BY DEF CashInv, ClerksReverse, WriteReversal
  <2>2. book' = book \o Reversals(Legs(o)) /\ bills' = Unpaid(Legs(o)) /\ \A l \in Range(Legs(o)) : ~Reversed(l)
        BY <1>3, <2>1 DEF Post
  <2> QED BY <1>1, <2>1, <2>2, ReversalUnpays
<1> QED BY <1>2, <1>3 DEF WriteReversal

\* A new bill has nothing paid.
LEMMA StepCreateBill ==
    ASSUME CashInv, NEW c \in Clerks, NEW total \in Totals, NEW paid \in Amounts \cup {0}, NEW a \in Accounts,
           CreateBill(c, total, paid, a)
    PROVE  CashInv'
<1> DEFINE v == [supplier |-> clerk[c].supplier, total |-> total, paid |-> paid]
           d == Len(bills) + 1
           entry == Entry(a, "OUT", "PURCHASE_PAYMENT", paid, d, Nothing)
<1>1. /\ bills \in Seq(Bill) /\ DOMAIN bills = 1..Len(bills) /\ Len(bills) \in Nat
      /\ \A b \in DOMAIN bills : bills[b].paid <= bills[b].total
      BY DEF CashInv, CashTypes, EntriesPoint
<1>2. paid \in Nat /\ total \in Nat /\ paid <= total
      BY CashNumbers DEF CreateBill
<1>3. v \in Bill
  <2>1. clerk[c] \in Clerk /\ clerk[c].at = "bill"
        BY DEF CashInv, CashTypes, CreateBill
  <2>2. clerk[c].supplier \in Suppliers
        BY <2>1 DEF Clerk, AtRest
  <2> QED BY <1>2, <2>2 DEF Bill
<1>4. /\ bills' \in Seq(Bill) /\ Len(bills') = d /\ DOMAIN bills' = 1..d
      /\ bills'[d] = v /\ \A b \in DOMAIN bills : b # d /\ bills'[b] = bills[b]
  <2>1. bills' = Append(bills, v)
        BY DEF CreateBill
  <2> HIDE DEF v
  <2> QED BY <1>1, <1>3, <2>1
<1>5. \A b \in DOMAIN bills' : bills'[b].paid <= bills'[b].total
  <2> SUFFICES ASSUME NEW b \in DOMAIN bills' PROVE bills'[b].paid <= bills'[b].total
      OBVIOUS
  <2>1. b \in DOMAIN bills \/ b = d
        BY <1>1, <1>4
  <2> QED BY <1>1, <1>2, <1>4, <2>1
<1>6. /\ clerk' \in [Clerks -> Clerk]
      /\ \A e \in Clerks : clerk'[e].at = "reverse" => clerk'[e] = clerk[e]
  <2>1. clerk' = [clerk EXCEPT ![c] = AtRest] /\ AtRest \in Clerk /\ AtRest.at # "reverse"
        BY DEF CreateBill, Clerk, AtRest
  <2> HIDE DEF AtRest
  <2>2. clerk' \in [Clerks -> Clerk] /\ clerk'[c] = AtRest /\ \A e \in Clerks \ {c} : clerk'[e] = clerk[e]
        BY <2>1, ClerkSet DEF CashInv
  <2> QED BY <2>1, <2>2
<1>7. CASE paid # 0
  <2>1. entry \in Posting /\ entry.reverses = Nothing /\ entry.group = Nothing /\ entry.bill = d /\ entry.amount = paid
        BY <1>1, <1>2, <1>7 DEF Entry, Posting, Nothing
  <2>2. book' = Append(book, entry)
    <3>1. book' = book \o <<Entry(a, "OUT", "PURCHASE_PAYMENT", paid, Len(bills'), Nothing)>>
          BY <1>7 DEF CreateBill, Post
    <3>2. book' = book \o <<entry>>
          BY <1>4, <3>1
    <3> QED BY <2>1, <3>2 DEF CashInv, CashTypes
  <2> HIDE DEF entry
  <2>3. bills'[d].paid = entry.amount /\ d \notin DOMAIN bills /\ d \in 1..Len(bills') /\ Len(bills') >= Len(bills)
        BY <1>1, <1>4, <2>1
  <2>4. bills'[entry.bill].paid = entry.amount + (IF entry.bill \in DOMAIN bills THEN bills[entry.bill].paid ELSE 0)
        BY <1>2, <2>1, <2>3
  <2>5. \A b \in DOMAIN bills' \ {entry.bill} : b \in DOMAIN bills
        BY <1>1, <1>4, <2>1
  <2>6. \A b \in DOMAIN bills \ {entry.bill} : b \in DOMAIN bills' /\ bills'[b] = bills[b]
        BY <1>1, <1>4
  <2> HIDE DEF d
  <2> QED BY <1>4, <1>5, <1>6, <2>1, <2>2, <2>3, <2>4, <2>5, <2>6, PaymentPosted
<1>8. CASE paid = 0
  <2>1. UNCHANGED book
        BY <1>8 DEF CreateBill
  <2>2. CashTypes'
        BY <1>4, <1>6, <2>1 DEF CashInv, CashTypes
  <2>3. EntriesPoint'
    <3>1. \A e \in DOMAIN book : book[e].bill \in 0..Len(bills')
          BY <1>1, <1>4 DEF CashInv, EntriesPoint
    <3> QED BY <1>5, <2>1, <3>1 DEF CashInv, EntriesPoint
  <2>4. PairsSideBySide' /\ Corrected' /\ Live' = Live
        BY <2>1 DEF CashInv, PairsSideBySide, Corrected, TakesBackIn, Original, OriginalIn, Live, Reversed, ReversedIn
  <2>5. ClerksReverse'
    <3> SUFFICES ASSUME NEW e \in Clerks, clerk'[e].at = "reverse"
                 PROVE  \E o \in DOMAIN book : Original(o) /\ clerk'[e].legs = Legs(o)
        BY <2>1 DEF ClerksReverse, Original, OriginalIn, Legs
    <3> QED BY <1>6 DEF CashInv, ClerksReverse
  <2>6. BillsMatchBook'
    <3> SUFFICES ASSUME NEW b \in DOMAIN bills' PROVE bills'[b].paid = PaidIn(book, b, Live)
        BY <2>1, <2>4 DEF BillsMatchBook, PaidFor, PaidIn
    <3>1. CASE b \in DOMAIN bills
          BY <1>4, <3>1 DEF CashInv, BillsMatchBook, PaidFor, PaidIn
    <3>2. CASE b = d
      <4> DEFINE f == [e \in Live |-> IF book[e].bill = b THEN book[e].amount ELSE 0]
      <4>1. \A e \in Live : f[e] = 0
        <5>1. \A e \in Live : book[e].bill \in 0..Len(bills)
              BY LiveEntries DEF CashInv, EntriesPoint
        <5> QED BY <1>1, <3>2, <5>1
      <4> HIDE DEF f
      <4>2. SumOf(f, Live) = 0
            BY <4>1, SumZero, LiveEntries DEF CashInv
      <4>3. PaidIn(book, b, Live) = 0
            BY <4>2 DEF PaidIn, f
      <4> QED BY <1>4, <1>8, <3>2, <4>3
    <3>3. b \in DOMAIN bills \/ b = d
          BY <1>1, <1>4
    <3> QED BY <3>1, <3>2, <3>3
  <2> QED BY <2>2, <2>3, <2>4, <2>5, <2>6 DEF CashInv
<1> QED BY <1>7, <1>8

\* A clerk reads, or writes what concerns an account or a supplier.
LEMMA StepOther ==
    ASSUME CashInv, NEW c \in Clerks,
           \/ \E s \in Suppliers : ReadSupplier(c, s) \/ ReadDue(c, s)
           \/ \E e \in DOMAIN book : ReadEntry(c, e)
           \/ \E a \in Accounts, n \in Amounts : ReadAccount(c, a, n)
           \/ WriteAccount(c) \/ RemoveSupplier(c)
    PROVE  CashInv'
<1>0. UNCHANGED <<book, bills>>
      BY DEF ReadSupplier, ReadDue, ReadEntry, ReadAccount, WriteAccount, RemoveSupplier
<1>1. \E v \in Clerk : /\ clerk' = [clerk EXCEPT ![c] = v]
                       /\ v.at = "reverse" => \E e \in DOMAIN book : Original(e) /\ v.legs = Legs(e)
  <2>1. CASE \E s \in Suppliers : ReadSupplier(c, s) \/ ReadDue(c, s)
    <3>1. PICK s \in Suppliers : ReadSupplier(c, s) \/ ReadDue(c, s)
          BY <2>1
    <3>2. CASE ReadSupplier(c, s)
      <4> DEFINE v == [at |-> "bill", supplier |-> s]
      <4>1. v \in Clerk /\ v.at # "reverse" /\ clerk' = [clerk EXCEPT ![c] = v]
            BY <3>2 DEF ReadSupplier, Clerk
      <4> QED BY <4>1
    <3>3. CASE ReadDue(c, s)
      <4> DEFINE v == [at |-> "remove", supplier |-> s]
      <4>1. v \in Clerk /\ v.at # "reverse" /\ clerk' = [clerk EXCEPT ![c] = v]
            BY <3>3 DEF ReadDue, Clerk
      <4> QED BY <4>1
    <3> QED BY <3>1, <3>2, <3>3
  <2>2. CASE \E e \in DOMAIN book : ReadEntry(c, e)
    <3>1. PICK e \in DOMAIN book : ReadEntry(c, e)
          BY <2>2
    <3> DEFINE v == [at |-> "reverse", legs |-> Legs(e)]
    <3>2. Original(e)
          BY <3>1 DEF ReadEntry, Original, OriginalIn
    <3>3. Legs(e) \in Seq(Nat)
      <4>1. book[e].group \in Nat /\ e \in Nat
            BY LiveEntries DEF CashInv, EntriesPoint
      <4> QED BY <4>1 DEF Legs
    <3>4. v \in Clerk /\ v.legs = Legs(e) /\ clerk' = [clerk EXCEPT ![c] = v]
          BY <3>1, <3>3 DEF ReadEntry, Clerk
    <3> HIDE DEF v
    <3> QED BY <3>2, <3>4
  <2>3. CASE \E a \in Accounts, n \in Amounts : ReadAccount(c, a, n)
    <3>1. PICK a \in Accounts, n \in Amounts : ReadAccount(c, a, n)
          BY <2>3
    <3> DEFINE v == [at |-> "account", account |-> a, opening |-> n]
    <3>2. v \in Clerk /\ v.at # "reverse" /\ clerk' = [clerk EXCEPT ![c] = v]
          BY <3>1, CashNumbers DEF ReadAccount, Clerk
    <3> QED BY <3>2
  <2>4. CASE WriteAccount(c) \/ RemoveSupplier(c)
    <3>1. AtRest \in Clerk /\ AtRest.at # "reverse" /\ clerk' = [clerk EXCEPT ![c] = AtRest]
          BY <2>4 DEF WriteAccount, RemoveSupplier, Clerk, AtRest
    <3> QED BY <3>1
  <2> QED BY <2>1, <2>2, <2>3, <2>4
<1>2. PICK v \in Clerk : /\ clerk' = [clerk EXCEPT ![c] = v]
                         /\ v.at = "reverse" => \E e \in DOMAIN book : Original(e) /\ v.legs = Legs(e)
      BY <1>1
<1>3. clerk' \in [Clerks -> Clerk] /\ clerk'[c] = v /\ \A d \in Clerks \ {c} : clerk'[d] = clerk[d]
      BY <1>2, ClerkSet DEF CashInv
<1>4. \A d \in Clerks : clerk'[d].at = "reverse" =>
         clerk'[d] = clerk[d] \/ \E e \in DOMAIN book : Original(e) /\ clerk'[d].legs = Legs(e)
      BY <1>2, <1>3
<1> QED BY <1>0, <1>3, <1>4, BookAlone

\* Every step of the cashbook keeps the invariant.
LEMMA CashStep == CashInv /\ [CashNext]_cashVars => CashInv'
<1> SUFFICES ASSUME CashInv, [CashNext]_cashVars PROVE CashInv'
    OBVIOUS
<1>0. ASSUME UNCHANGED <<book, bills, clerk>> PROVE CashInv'
  <2>1. clerk' \in [Clerks -> Clerk] /\ \A c \in Clerks : clerk'[c] = clerk[c]
        BY <1>0 DEF CashInv, CashTypes
  <2> QED BY <1>0, <2>1, BookAlone
<1>1. CASE \E a \in Accounts, n \in Amounts, dir \in {"IN", "OUT"} : ManualEntry(a, dir, n)
      BY <1>1, StepManualEntry
<1>2. CASE \E a \in Accounts, b \in Accounts, n \in Amounts : Transfer(a, b, n)
      BY <1>2, StepTransfer
<1>3. CASE \E a \in Accounts, n \in Amounts, b \in DOMAIN bills : Pay(b, n, a)
      BY <1>3, StepPay
<1>4. CASE \E a \in Accounts : SetActive(a)
      BY <1>0, <1>4 DEF SetActive
<1>5. CASE \E c \in Clerks : WriteReversal(c)
      BY <1>5, StepWriteReversal
<1>6. CASE \E c \in Clerks :
              \/ \E s \in Suppliers : ReadSupplier(c, s) \/ ReadDue(c, s)
              \/ \E e \in DOMAIN book : ReadEntry(c, e)
              \/ \E a \in Accounts, n \in Amounts : ReadAccount(c, a, n)
              \/ WriteAccount(c) \/ RemoveSupplier(c)
      BY <1>6, StepOther
<1>7. CASE \E c \in Clerks, a \in Accounts, total \in Totals, paid \in Amounts \cup {0} : CreateBill(c, total, paid, a)
      BY <1>7, StepCreateBill
<1>8. CASE UNCHANGED cashVars
      BY <1>0, <1>8 DEF cashVars
<1>9. CASE CashNext
      BY <1>1, <1>2, <1>3, <1>4, <1>5, <1>6, <1>7, <1>9 DEF CashNext
<1> QED BY <1>8, <1>9

\* The inductive invariant of the cash book.
THEOREM CashInvCorrect == CashSpec => []CashInv
<1> QED BY CashInitial, CashStep, PTL DEF CashSpec

\* Whatever clerks pay, buy and reverse at the same time, in any order and any number of
\* times, the paid amount of a bill (purchases.amount_paid, kept by pay, create and
\* unpayPurchase) is what the live entries of the book paid for it; unpayPurchase's clamp
\* to 0 and pay's to the total never cut anything off.
THEOREM BillsMatchBookCorrect == CashSpec => []BillsMatchBook
<1>1. CashInv => BillsMatchBook
      BY DEF CashInv
<1> QED BY <1>1, CashInvCorrect, PTL

\* Reversals and what they reverse cancel out on every account.
LEMMA BalanceOfLive ==
    ASSUME CashInv, NEW a \in Accounts
    PROVE  Balance(a, DOMAIN book) = Balance(a, Live)
<1> DEFINE D == DOMAIN book
           f == [e \in D |-> IF book[e].account # a THEN 0
                             ELSE IF book[e].dir = "IN" THEN book[e].amount ELSE -book[e].amount]
           g == [e \in Live |-> IF book[e].account # a THEN 0
                                ELSE IF book[e].dir = "IN" THEN book[e].amount ELSE -book[e].amount]
           R == D \ Live
           Rev == {r \in D : book[r].reverses # Nothing}
           Hit == {e \in D : Original(e) /\ Reversed(e)}
           m == [r \in Rev |-> book[r].reverses]
<1>1. \A e \in D : book[e] \in Posting
      BY DEF CashInv, CashTypes
<1>2. IsFiniteSet(D) /\ Live \subseteq D
  <2>1. D = 1..Len(book) /\ Len(book) \in Nat /\ Live \subseteq D
        BY LiveEntries DEF CashInv
  <2> HIDE DEF D
  <2> QED BY <2>1, FS_Interval, 1 \in Int, Len(book) \in Int
<1>3. IntsOn(f, D) /\ \A e \in Live : g[e] = f[e]
  <2>1. \A e \in D : f[e] \in Int
        BY <1>1 DEF Posting
  <2> QED BY <1>2, <2>1 DEF IntsOn
<1>4. Rev \subseteq R /\ R \ Rev = Hit /\ Live \subseteq D
      BY <1>2 DEF Live, Original, OriginalIn
<1>5. ASSUME NEW r \in Rev PROVE m[r] \in Hit /\ f[r] = -f[m[r]]
  <2> DEFINE e == book[r].reverses
  <2>1. TakesBackIn(book, r, e) /\ m[r] = e /\ r \in D /\ e # Nothing
        BY DEF CashInv, Corrected
  <2>2. e \in D
    <3>1. e \in 0..(r - 1) /\ r \in 1..Len(book) /\ D = 1..Len(book) /\ Len(book) \in Nat
          BY <2>1, LiveEntries DEF CashInv, EntriesPoint
    <3> HIDE DEF D, e
    <3> QED BY <2>1, <3>1 DEF Nothing
  <2>3. e \in Hit
        BY <2>1, <2>2 DEF TakesBackIn, Original, OriginalIn, Reversed, ReversedIn
  <2>4. /\ book[r].account = book[e].account /\ book[r].amount = book[e].amount
        /\ \/ book[r].dir = "IN" /\ book[e].dir = "OUT"
           \/ book[r].dir = "OUT" /\ book[e].dir = "IN"
    <3>1. book[r].dir \in {"IN", "OUT"} /\ book[e].dir \in {"IN", "OUT"} /\ {book[r].dir, book[e].dir} = {"IN", "OUT"}
          BY <1>1, <2>1, <2>2 DEF TakesBackIn, Posting
    <3> QED BY <2>1, <3>1 DEF TakesBackIn
  <2>5. book[r].amount \in Nat
        BY <1>1, <2>1 DEF Posting
  <2>6. f[r] = -f[e]
    <3>1. CASE book[r].account # a
          BY <2>1, <2>2, <2>4, <3>1
    <3>2. CASE book[r].account = a
      <4> DEFINE n == book[r].amount
      <4>1. \/ f[r] = n /\ f[e] = -n
            \/ f[r] = -n /\ f[e] = n
            BY <2>1, <2>2, <2>4, <3>2
      <4> HIDE DEF f, e
      <4>2. n \in Int /\ -(-n) = n
            BY <2>5
      <4> HIDE DEF n
      <4> QED BY <4>1, <4>2
    <3> QED BY <3>1, <3>2
  <2> QED BY <2>1, <2>3, <2>6
<1>6. \A x, y \in Rev : m[x] = m[y] => x = y
      BY DEF CashInv, Corrected
<1>7. \A z \in Hit : \E x \in Rev : m[x] = z
  <2> SUFFICES ASSUME NEW z \in Hit PROVE \E x \in Rev : m[x] = z
      OBVIOUS
  <2>1. z # Nothing
        BY LiveEntries DEF CashInv, Nothing
  <2> QED BY <2>1 DEF Reversed, ReversedIn
<1>8. Hit \subseteq D /\ Rev \subseteq D /\ R \subseteq D
      OBVIOUS
<1> HIDE DEF D, f, g, Rev, Hit, m
<1>9. /\ IsFiniteSet(Live) /\ IsFiniteSet(R) /\ IsFiniteSet(Rev) /\ IsFiniteSet(Hit)
      /\ IntsOn(f, Live) /\ IntsOn(f, R) /\ IntsOn(f, Rev) /\ IntsOn(f, Hit)
      BY <1>2, <1>3, <1>8, FS_Subset DEF IntsOn
<1>10. SumOf(f, Rev) + SumOf(f, Hit) = 0
       BY <1>5, <1>6, <1>7, <1>9, SumMirrored
<1>11. SumOf(f, D) = SumOf(f, Live) + SumOf(f, R)
       BY <1>2, <1>3, SumSplit
<1>12. SumOf(f, R) = SumOf(f, Rev) + SumOf(f, Hit)
       BY <1>4, <1>9, SumSplit
<1>13. SumOf(g, Live) = SumOf(f, Live) /\ SumOf(f, Live) \in Int
       BY <1>3, <1>9, SumSame, SumType
<1>14. SumOf(f, D) = SumOf(g, Live)
       BY <1>10, <1>11, <1>12, <1>13
<1> QED BY <1>14 DEF Balance, D, f, g

\* What the clerks' requests keep of the book says it all.
LEMMA CorrectedBalances == CashInv => CorrectionsBalance
<1> SUFFICES ASSUME CashInv PROVE CorrectionsBalance
    OBVIOUS
<1>1. \A r \in DOMAIN book : book[r].reverses # Nothing => TakesBack(r, book[r].reverses)
      BY DEF CashInv, Corrected, TakesBackIn, TakesBack
<1>2. \A a \in Accounts : Balance(a, DOMAIN book) = Balance(a, Live)
      BY BalanceOfLive
<1> QED BY <1>1, <1>2 DEF CashInv, Corrected, CorrectionsBalance

\* However payments, transfers and reversals of several clerks interleave (reverse reads an
\* entry and its pair before it writes), every reversal takes back one original of the same
\* account and amount the other way, no entry is reversed twice, no transfer is left with
\* one leg, and the balance of every account is that of its live entries.
THEOREM CorrectionsBalanceCorrect == CashSpec => []CorrectionsBalance
BY CashInvCorrect, CorrectedBalances, PTL

-----------------------------------------------------------------------------
(* Stock lots. Lot rows are queues of copies: the order in which they are   *)
(* used up, what has left each, and for which parcel, add up.               *)

AtMost(n, m) == IF n <= m THEN n ELSE m

\* Copies spread over a queue of all that has some: no lot gives more than it has, and
\* together they give what is asked for as far as they have it.
LEMMA SpreadCopies ==
    ASSUME NEW n \in Nat, NEW q \in Seq(Lots), IsInjective(q), NEW has, NatsOn(has, Lots),
           \A i \in Lots \ Range(q) : has[i] = 0
    PROVE  /\ NatsOn(Spread(n, q, has), Lots)
           /\ \A i \in Lots : Spread(n, q, has)[i] <= has[i]
           /\ SumOver(Spread(n, q, has)) = AtMost(n, SumOver(has))
<1> DEFINE N == Len(q)
           h == [k \in DOMAIN q |-> has[q[k]]]
           P(k) == SumOf(h, 1..k)
           s == Spread(n, q, has)
           Give(k) == IF n <= P(k-1) THEN 0 ELSE IF n - P(k-1) <= h[k] THEN n - P(k-1) ELSE h[k]
           First(k) == {q[j] : j \in 1..k}
<1>1. N \in Nat /\ DOMAIN q = 1..N /\ NatsOn(h, 1..N) /\ (\A k \in 1..N : h[k] = has[q[k]] /\ q[k] \in Lots)
      BY DEF NatsOn
<1>2. \A k \in 1..N : s[q[k]] = Give(k)
  <2> SUFFICES ASSUME NEW k \in 1..N PROVE s[q[k]] = Give(k)
      OBVIOUS
  <2>1. q[k] \in Lots /\ q[k] \in Range(q) /\ (CHOOSE j \in DOMAIN q : q[j] = q[k]) = k
        BY <1>1 DEF IsInjective, Range
  <2>2. has[q[k]] = h[k]
        BY <1>1
  <2> HIDE DEF h
  <2>3. s[q[k]] = IF n <= SumOf(h, 1..(k-1)) THEN 0
                  ELSE IF n - SumOf(h, 1..(k-1)) <= has[q[k]] THEN n - SumOf(h, 1..(k-1)) ELSE has[q[k]]
        BY <2>1 DEF Spread, h
  <2> QED BY <2>2, <2>3
<1>3. \A i \in Lots \ Range(q) : s[i] = 0
      BY DEF Spread
<1>4. \A k \in 1..N : P(k) = P(k-1) + h[k] /\ P(k-1) \in Nat /\ P(k) \in Nat /\ h[k] \in Nat
  <2> HIDE DEF h, N
  <2> SUFFICES ASSUME NEW k \in 1..N
               PROVE  P(k) = P(k-1) + h[k] /\ P(k-1) \in Nat /\ P(k) \in Nat /\ h[k] \in Nat
      OBVIOUS
  <2> QED BY <1>1, SumPrefix
<1>5. \A k \in 1..N : s[q[k]] \in Nat /\ s[q[k]] <= has[q[k]]
  <2> SUFFICES ASSUME NEW k \in 1..N PROVE s[q[k]] \in Nat /\ s[q[k]] <= has[q[k]]
      OBVIOUS
  <2>1. has[q[k]] = h[k] /\ s[q[k]] = Give(k) /\ P(k-1) \in Nat /\ h[k] \in Nat
        BY <1>1, <1>2, <1>4
  <2> HIDE DEF h, P, s, N
  <2> QED BY <2>1
<1>6. \A i \in Lots : s[i] \in Nat /\ s[i] <= has[i]
  <2> HIDE DEF s, N
  <2> QED BY <1>1, <1>3, <1>5 DEF Range, NatsOn
<1>7. NatsOn(s, Lots)
      BY <1>6 DEF NatsOn
<1> DEFINE Right(k) == SumOf(s, First(k)) = AtMost(n, P(k)) /\ SumOf(has, First(k)) = P(k)
<1>8. Right(0)
  <2>1. First(0) = {} /\ 1..0 = {}
        OBVIOUS
  <2> HIDE DEF h, s
  <2>2. P(0) = 0 /\ SumOf(s, {}) = 0 /\ SumOf(has, {}) = 0
        BY <2>1, SumEmpty
  <2>3. AtMost(n, 0) = 0
        BY DEF AtMost
  <2>4. SumOf(s, First(0)) = 0 /\ SumOf(has, First(0)) = 0
        BY <2>1, <2>2
  <2> HIDE DEF P, First
  <2> QED BY <2>2, <2>3, <2>4
<1>9. ASSUME NEW k \in 1..N, Right(k-1) PROVE Right(k)
  <2>1. First(k) = First(k-1) \cup {q[k]} /\ q[k] \notin First(k-1) /\ First(k) \subseteq Lots
        BY <1>1 DEF IsInjective
  <2>2. IsFiniteSet(First(k-1))
    <3>1. First(k-1) \in SUBSET Lots
          BY <2>1
    <3> HIDE DEF First
    <3> QED BY <3>1, StockLotsAssumption, FS_Subset
  <2>6. IntsOn(s, First(k)) /\ IntsOn(has, First(k))
    <3> HIDE DEF First, s
    <3> QED BY <1>7, <2>1 DEF NatsOn, IntsOn
  <2> DEFINE F == First(k-1)
             G == First(k)
             a == q[k]
  <2> HIDE DEF First, s
  <2>3. SumOf(s, F \cup {a}) = s[a] + SumOf(s, F) /\ SumOf(has, F \cup {a}) = has[a] + SumOf(has, F)
    <3>1. IsFiniteSet(F) /\ a \notin F /\ IntsOn(s, F \cup {a}) /\ IntsOn(has, F \cup {a})
          BY <2>1, <2>2, <2>6
    <3> HIDE DEF F, a
    <3> QED BY <3>1, SumAdd
  <2>4. /\ P(k) = P(k-1) + h[k] /\ P(k-1) \in Nat /\ h[k] \in Nat /\ has[a] = h[k] /\ s[a] = Give(k)
        BY <1>1, <1>2, <1>4
  <2>5. SumOf(s, First(k)) = s[a] + AtMost(n, P(k-1)) /\ SumOf(has, First(k)) = has[a] + P(k-1)
        BY <1>9, <2>1, <2>3
  <2> HIDE DEF P, h, a
  <2> QED BY <2>4, <2>5 DEF AtMost
<1>10. \A k \in 0..N : Right(k)
  <2> DEFINE Wrong == {k \in 0..N : ~Right(k)}
  <2> HIDE DEF Right
  <2> SUFFICES ASSUME Wrong # {} PROVE FALSE
      OBVIOUS
  <2>1. PICK k \in Wrong : \A m \in Wrong : k <= m
    <3>1. Wrong \subseteq Nat
          OBVIOUS
    <3> HIDE DEF Wrong
    <3> QED BY <3>1, SmallestNumber
  <2>2. k # 0 /\ k \in 0..N /\ N \in Nat
        BY <1>1, <1>8
  <2>3. k - 1 \in 0..N /\ k - 1 \notin Wrong /\ k \in 1..N
        BY <2>1, <2>2
  <2> QED BY <1>9, <2>3
<1>11. First(N) = Range(q) /\ Range(q) \subseteq Lots
      BY <1>1 DEF Range
<1>12. SumOf(s, Lots) = SumOf(s, Range(q)) /\ SumOf(has, Lots) = SumOf(has, Range(q))
  <2> DEFINE R == Lots \ Range(q)
             Q == Range(q)
  <2>1. /\ IsFiniteSet(Lots) /\ IntsOn(s, Lots) /\ IntsOn(has, Lots) /\ Q \in SUBSET Lots /\ R = Lots \ Q
        /\ \A i \in R : s[i] = 0 /\ has[i] = 0
        BY <1>3, <1>7, <1>11, StockLotsAssumption DEF NatsOn, IntsOn
  <2>2. IsFiniteSet(R) /\ IsFiniteSet(Q)
        BY <2>1, FS_Subset
  <2> HIDE DEF s, R, Q
  <2>3. IntsOn(s, Q) /\ IntsOn(has, Q)
        BY <2>1 DEF IntsOn
  <2>4. SumOf(s, Q) \in Int /\ SumOf(has, Q) \in Int
        BY <2>2, <2>3, SumType
  <2>5. SumOf(s, R) = 0 /\ SumOf(has, R) = 0
        BY <2>1, <2>2, SumZero
  <2>6. SumOf(s, Lots) = SumOf(s, Q) + SumOf(s, R) /\ SumOf(has, Lots) = SumOf(has, Q) + SumOf(has, R)
        BY <2>1, SumSplit
  <2> QED BY <2>4, <2>5, <2>6 DEF Q
<1>13. Right(N)
  <2> HIDE DEF Right
  <2> QED BY <1>1, <1>10
<1> QED BY <1>6, <1>7, <1>11, <1>12, <1>13 DEF SumOver

Row == [in : Nat, left : Nat, cost : Nat]

\* A rounded share of a sum is a number.
LEMMA RoundedShareType == ASSUME NEW s \in Nat, NEW n \in Nat \ {0} PROVE RoundedShare(s, n) \in Nat
<1>1. 2 * s + n \in Nat /\ 2 * n \in Nat \ {0}
      OBVIOUS
<1>2. \A a \in Nat, b \in Nat \ {0} : a \div b \in Nat
      OBVIOUS
<1> QED BY <1>1, <1>2 DEF RoundedShare

\* What copies of each lot cost is a number, and goes by the costs of the lots they are of.
LEMMA WorthType ==
    ASSUME NEW l \in [Lots -> Row], NEW n, NatsOn(n, Lots)
    PROVE  Worth(l, n) \in Nat
<1> DEFINE f == [i \in Lots |-> l[i].cost * n[i]]
<1>1. \A a, b \in Nat : a * b \in Nat
      OBVIOUS
<1>2. NatsOn(f, Lots)
      BY <1>1 DEF NatsOn, Row
<1> HIDE DEF f
<1>3. SumOf(f, Lots) \in Nat
      BY <1>2, SumNat, StockLotsAssumption
<1> QED BY <1>3 DEF Worth, SumOver, f

\* Lots keep their cost, so what is traced to them keeps its worth.
LEMMA WorthKept ==
    ASSUME NEW l \in [Lots -> Row], NEW m \in [Lots -> Row], NEW n, NatsOn(n, Lots), NEW k,
           \A i \in Lots : k[i] = n[i] /\ (n[i] # 0 => m[i].cost = l[i].cost)
    PROVE  Worth(m, k) = Worth(l, n)
<1> DEFINE f == [i \in Lots |-> l[i].cost * n[i]]
           g == [i \in Lots |-> m[i].cost * k[i]]
<1>1. \A a, b \in Nat : a * b \in Int /\ a * 0 = 0
      OBVIOUS
<1>2. IntsOn(f, Lots) /\ \A i \in Lots : g[i] = f[i]
      BY <1>1 DEF NatsOn, IntsOn, Row
<1> HIDE DEF f, g
<1>3. SumOf(g, Lots) = SumOf(f, Lots)
      BY <1>2, SumSame, StockLotsAssumption
<1> QED BY <1>3 DEF Worth, SumOver, f, g

\* The average cost is a number.
LEMMA AverageCostType ==
    ASSUME NEW l \in [Lots -> Row], NEW c \in Nat
    PROVE  AverageCost(l, c) \in Nat /\ LeftIn(l) \in Nat /\ NatsOn(Left(l), Lots)
<1>1. NatsOn(Left(l), Lots)
      BY DEF NatsOn, Left, Row
<1>2. LeftIn(l) \in Nat
      BY <1>1, SumNat, StockLotsAssumption DEF LeftIn, SumOver
<1>3. Worth(l, Left(l)) \in Nat
      BY <1>1, WorthType
<1> QED BY <1>1, <1>2, <1>3, RoundedShareType DEF AverageCost

\* Copies that join or leave the lots.
LEMMA LeftMoves ==
    ASSUME NEW l \in [Lots -> Row], NEW m \in [Lots -> Row], NEW d, NatsOn(d, Lots),
           \A i \in Lots : m[i].left = l[i].left + d[i]
    PROVE  LeftIn(m) = LeftIn(l) + SumOver(d) /\ SumOver(d) \in Nat
<1> DEFINE f == Left(l)
           h == Left(m)
<1>1. IntsOn(f, Lots) /\ IntsOn(d, Lots) /\ \A i \in Lots : h[i] = f[i] + d[i]
      BY DEF NatsOn, IntsOn, Left, Row
<1> HIDE DEF f, h
<1>0. IsFiniteSet(Lots)
      BY StockLotsAssumption
<1>2. SumOf(h, Lots) = SumOf(f, Lots) + SumOf(d, Lots)
      BY <1>0, <1>1, SumPlus
<1>3. SumOf(d, Lots) \in Nat
      BY <1>0, SumNat
<1> QED BY <1>2, <1>3 DEF LeftIn, SumOver, f, h

\* A lot that is new.
LEMMA LotAdded ==
    ASSUME NEW l \in [Lots -> Row], NEW i \in Lots, l[i].left = 0, NEW n \in Nat, NEW c \in Nat
    PROVE  /\ LeftIn(WithLot(l, i, n, c)) = LeftIn(l) + n
           /\ WithLot(l, i, n, c) \in [Lots -> Row]
<1> DEFINE m == WithLot(l, i, n, c)
           f == Left(l)
           h == Left(m)
<1>1. m \in [Lots -> Row] /\ m[i].left = n /\ \A j \in Lots \ {i} : m[j] = l[j]
      BY DEF WithLot, Row
<1>2. IntsOn(f, Lots) /\ IntsOn(h, Lots) /\ f[i] = 0 /\ h[i] = n /\ \A j \in Lots \ {i} : h[j] = f[j]
      BY <1>1 DEF IntsOn, Left, Row
<1> HIDE DEF f, h, m
<1>3. SumOf(h, Lots) = SumOf(f, Lots) - f[i] + h[i] /\ SumOf(f, Lots) \in Int
  <2>1. IsFiniteSet(Lots)
        BY StockLotsAssumption
  <2>2. SumOf(h, Lots) = SumOf(f, Lots) - f[i] + h[i]
        BY <1>2, <2>1, SumChanged
  <2>3. SumOf(f, Lots) \in Int
        BY <1>2, <2>1, SumType
  <2> QED BY <2>2, <2>3
<1>4. SumOf(h, Lots) = SumOf(f, Lots) + n
      BY <1>2, <1>3
<1> QED BY <1>1, <1>4 DEF LeftIn, SumOver, f, h, m

\* The next lot is one that is not there yet.
LEMMA NextLot ==
    ASSUME Unused # {} PROVE Min(Unused) \in Unused
<1>1. Unused \subseteq Nat
      BY StockLotsAssumption DEF Unused
<1>2. \E x \in Unused : \A y \in Unused : x <= y
      BY <1>1, SmallestNumber
<1> QED BY <1>2 DEF Min

\* The queue, with one lot more, and from its end.
LEMMA QueueGrows ==
    ASSUME NEW q \in Seq(Lots), IsInjective(q), NEW i \in Lots, i \notin Range(q), NEW at \in 1..(Len(q) + 1)
    PROVE  /\ InsertAt(q, at, i) \in Seq(Lots) /\ IsInjective(InsertAt(q, at, i))
           /\ Range(InsertAt(q, at, i)) = Range(q) \cup {i}
           /\ Append(q, i) \in Seq(Lots) /\ IsInjective(Append(q, i)) /\ Range(Append(q, i)) = Range(q) \cup {i}
<1> DEFINE r == InsertAt(q, at, i)
           N == Len(q)
<1>1. N \in Nat /\ DOMAIN q = 1..N /\ \A k \in 1..N : q[k] \in Lots
      OBVIOUS
<1>2. /\ r \in Seq(Lots) /\ Len(r) = N + 1
      /\ \A k \in 1..(N+1) : r[k] = IF k < at THEN q[k] ELSE IF k = at THEN i ELSE q[k-1]
  <2> DEFINE u == SubSeq(q, 1, at - 1)
             v == SubSeq(q, at, Len(q))
             w == u \o <<i>>
  <2>1. u \in Seq(Lots) /\ Len(u) = at - 1 /\ \A k \in 1..(at-1) : u[k] = q[k]
        BY <1>1
  <2>2. v \in Seq(Lots) /\ Len(v) = N + 1 - at /\ \A k \in 1..(N+1-at) : v[k] = q[at + k - 1]
        BY <1>1
  <2>3. r = w \o v
        BY DEF InsertAt
  <2>0. at \in Nat /\ at >= 1 /\ at <= N + 1 /\ i \in Lots
        BY <1>1
  <2> HIDE DEF u, v, r, N
  <2>4. w \in Seq(Lots) /\ Len(w) = at /\ \A k \in 1..at : w[k] = IF k < at THEN q[k] ELSE i
        BY <1>1, <2>1
  <2> HIDE DEF w
  <2>5. r \in Seq(Lots) /\ Len(r) = N + 1
    <3>1. r \in Seq(Lots) /\ Len(r) = Len(w) + Len(v)
          BY <2>2, <2>3, <2>4, ConcatProperties
    <3> QED BY <1>1, <2>0, <2>2, <2>4, <3>1
  <2>6. \A k \in 1..(N+1) : r[k] = IF k <= at THEN w[k] ELSE v[k - at]
    <3>1. \A k \in 1..(Len(w) + Len(v)) : (w \o v)[k] = IF k <= Len(w) THEN w[k] ELSE v[k - Len(w)]
          BY <2>2, <2>4, ConcatProperties
    <3>2. Len(w) = at /\ Len(w) + Len(v) = N + 1
          BY <1>1, <2>0, <2>2, <2>4
    <3> QED BY <2>3, <3>1, <3>2
  <2>7. \A k \in 1..(N+1) : k > at => v[k - at] = q[k - 1]
    <3> SUFFICES ASSUME NEW k \in 1..(N+1), k > at PROVE v[k - at] = q[k - 1]
        OBVIOUS
    <3>1. k - at \in 1..(N+1-at) /\ at + (k - at) - 1 = k - 1
          BY <1>1, <2>0
    <3> QED BY <2>2, <3>1
  <2>8. \A k \in 1..(N+1) : r[k] = IF k < at THEN q[k] ELSE IF k = at THEN i ELSE q[k-1]
    <3> SUFFICES ASSUME NEW k \in 1..(N+1)
                 PROVE  r[k] = IF k < at THEN q[k] ELSE IF k = at THEN i ELSE q[k-1]
        OBVIOUS
    <3>1. k <= at => k \in 1..at
          BY <2>0
    <3> QED BY <1>1, <2>0, <2>4, <2>6, <2>7, <3>1
  <2> QED BY <2>5, <2>8
<1> HIDE DEF r
<1>3. DOMAIN r = 1..(N+1)
      BY <1>2
<1>4. IsInjective(r)
  <2>1. ASSUME NEW j \in 1..(N+1), NEW k \in 1..(N+1), r[j] = r[k] PROVE j = k
    <3>1. \A m \in 1..N : q[m] # i
          BY <1>1 DEF Range
    <3>2. \A m, n \in 1..N : q[m] = q[n] => m = n
          BY <1>1 DEF IsInjective
    <3>3. \A m \in 1..(N+1) : (m < at => m \in 1..N) /\ (m > at => m - 1 \in 1..N)
          BY <1>1
    <3> HIDE DEF N
    <3> QED BY <1>1, <1>2, <2>1, <3>1, <3>2, <3>3
  <2> QED BY <1>3, <2>1 DEF IsInjective
<1>5. Range(r) = Range(q) \cup {i}
  <2>1. \A k \in 1..(N+1) : r[k] \in Range(q) \cup {i}
        BY <1>1, <1>2 DEF Range
  <2>2. \A k \in 1..N : q[k] = r[k] \/ q[k] = r[k+1]
        BY <1>1, <1>2
  <2>3. i = r[at]
        BY <1>1, <1>2
  <2> QED BY <1>1, <1>3, <2>1, <2>2, <2>3, SMTT(30) DEF Range
<1>6. Append(q, i) \in Seq(Lots) /\ IsInjective(Append(q, i)) /\ Range(Append(q, i)) = Range(q) \cup {i}
  <2> DEFINE a == Append(q, i)
  <2>1. a \in Seq(Lots) /\ DOMAIN a = 1..(N+1) /\ \A k \in 1..(N+1) : a[k] = IF k = N+1 THEN i ELSE q[k]
        BY <1>1
  <2> HIDE DEF a, N
  <2>2. IsInjective(a) /\ Range(a) = Range(q) \cup {i}
        BY <1>1, <2>1 DEF IsInjective, Range
  <2> QED BY <2>1, <2>2 DEF a
<1> QED BY <1>2, <1>4, <1>5, <1>6 DEF r

\* Taking from the newest lot first: the queue read backwards.
LEMMA QueueReversed ==
    ASSUME NEW q \in Seq(Lots), IsInjective(q)
    PROVE  Reverse(q) \in Seq(Lots) /\ IsInjective(Reverse(q)) /\ Range(Reverse(q)) = Range(q)
<1> DEFINE r == Reverse(q)
           N == Len(q)
<1>1. N \in Nat /\ DOMAIN q = 1..N /\ DOMAIN r = 1..N /\ r \in Seq(Lots) /\ \A k \in 1..N : r[k] = q[(N - k) + 1]
      BY DEF Reverse
<1> HIDE DEF r, N
<1>2. \A k \in 1..N : (N - k) + 1 \in 1..N /\ (N - ((N - k) + 1)) + 1 = k
      BY <1>1
<1>3. Range(r) = Range(q)
      BY <1>1, <1>2 DEF Range
<1>4. IsInjective(r)
      BY <1>1, <1>2 DEF IsInjective
<1> QED BY <1>1, <1>3, <1>4 DEF r

\* What is shipped is accounted for: an order has copies of lots only while it is away,
\* never more than it asks for; the lots hold no more than the shelf.
LotsInv ==
    /\ LotsTypeOK
    /\ IsInjective(fifo)
    /\ \A i \in Lots : i \notin Unused => lot[i].in > 0
    /\ CopiesTraced
    /\ LeftIn(lot) <= shelf
    /\ \A o \in Parcels : parcel[o] = "here" => \A i \in Lots : taken[o][i] = 0
    /\ \A o \in Parcels : SumOver(taken[o]) <= CopiesOf[o]
    /\ StampedCostIsReal

Away(i) == [o \in Parcels |-> taken[o][i]]

\* What orders have of a lot.
LEMMA AwayType ==
    ASSUME LotsTypeOK
    PROVE  /\ lot \in [Lots -> Row]
           /\ \A i \in Lots : NatsOn(Away(i), Parcels) /\ SumOf(Away(i), Parcels) \in Nat
           /\ \A o \in Parcels : NatsOn(taken[o], Lots) /\ SumOver(taken[o]) \in Nat
           /\ \A i \in Lots, o \in Parcels : taken[o][i] <= SumOf(Away(i), Parcels)
<1>1. \A i \in Lots : NatsOn(Away(i), Parcels)
      BY DEF LotsTypeOK, Away, NatsOn
<1>2. \A i \in Lots : SumOf(Away(i), Parcels) \in Nat
      BY <1>1, SumNat, StockLotsAssumption
<1>3. \A o \in Parcels : NatsOn(taken[o], Lots)
      BY DEF LotsTypeOK, NatsOn
<1>4. \A o \in Parcels : SumOver(taken[o]) \in Nat
      BY <1>3, SumNat, StockLotsAssumption DEF SumOver
<1>5. \A i \in Lots, o \in Parcels : taken[o][i] <= SumOf(Away(i), Parcels)
  <2> SUFFICES ASSUME NEW i \in Lots, NEW o \in Parcels PROVE Away(i)[o] <= SumOf(Away(i), Parcels)
      BY DEF Away
  <2> DEFINE f == Away(i)
  <2>1. NatsOn(f, Parcels)
        BY <1>1
  <2> HIDE DEF f
  <2>2. f[o] <= SumOf(f, Parcels)
        BY <2>1, SumMember, StockLotsAssumption
  <2> QED BY <2>2 DEF f
<1> QED BY <1>1, <1>2, <1>3, <1>4, <1>5 DEF LotsTypeOK, Row

\* Nobody has copies of a lot that is not there, and every other lot has copies that came in.
LEMMA UnusedUntaken ==
    ASSUME LotsInv, NEW i \in Unused
    PROVE  i \in Lots /\ lot[i].left = 0 /\ lot[i].in = 0 /\ \A o \in Parcels : taken[o][i] = 0
<1>1. i \in Lots /\ lot[i] = NoLot
      BY DEF Unused
<1>2. 0 + SumOf(Away(i), Parcels) <= 0
      BY <1>1 DEF LotsInv, CopiesTraced, Away, NoLot
<1>3. SumOf(Away(i), Parcels) \in Nat /\ \A o \in Parcels : taken[o][i] \in Nat /\ taken[o][i] <= SumOf(Away(i), Parcels)
      BY <1>1, AwayType DEF LotsInv, LotsTypeOK
<1> QED BY <1>1, <1>2, <1>3 DEF NoLot

\* Copies that leave the oldest lots.
LEMMA OldestCopies ==
    ASSUME LotsInv, NEW n \in Nat, n <= shelf
    PROVE  /\ NatsOn(Oldest(n), Lots) /\ \A i \in Lots : Oldest(n)[i] <= lot[i].left
           /\ SumOver(Oldest(n)) \in Nat /\ SumOver(Oldest(n)) <= n
           /\ LeftIn(Without(Oldest(n))) = LeftIn(lot) - SumOver(Oldest(n))
           /\ LeftIn(Without(Oldest(n))) <= shelf - n
           /\ Without(Oldest(n)) \in [Lots -> Row]
<1> DEFINE d == Oldest(n)
           m == Without(d)
<1>1. lot \in [Lots -> Row] /\ NatsOn(Left(lot), Lots) /\ LeftIn(lot) \in Nat /\ LeftIn(lot) <= shelf /\ shelf \in Nat
      BY AwayType, AverageCostType DEF LotsInv, LotsTypeOK
<1>2. fifo \in Seq(Lots) /\ IsInjective(fifo) /\ \A i \in Lots \ Range(fifo) : Left(lot)[i] = 0
      BY DEF LotsInv, LotsTypeOK, Unused, NoLot, Left
<1>3. NatsOn(d, Lots) /\ (\A i \in Lots : d[i] <= Left(lot)[i]) /\ SumOver(d) = AtMost(n, LeftIn(lot))
      BY <1>1, <1>2, SpreadCopies DEF Oldest, LeftIn
<1> HIDE DEF d
<1>4. \A i \in Lots : d[i] \in Nat /\ d[i] <= lot[i].left
      BY <1>3 DEF NatsOn, Left
<1>5. m \in [Lots -> Row] /\ \A i \in Lots : lot[i].left = m[i].left + d[i]
      BY <1>1, <1>4 DEF Without, Row
<1> HIDE DEF m
<1>6. LeftIn(lot) = LeftIn(m) + SumOver(d) /\ SumOver(d) \in Nat /\ LeftIn(m) \in Nat
      BY <1>1, <1>3, <1>5, LeftMoves, AverageCostType
<1>7. SumOver(d) <= n /\ LeftIn(m) = LeftIn(lot) - SumOver(d) /\ LeftIn(m) <= shelf - n
      BY <1>1, <1>3, <1>6 DEF AtMost
<1> QED BY <1>3, <1>4, <1>5, <1>6, <1>7 DEF d, m

\* Steps that leave the orders and their lines alone: a lot is new, or keeps its cost and
\* what came in, and has no more left than before.
LEMMA OrdersAlone ==
    ASSUME LotsInv, UNCHANGED <<taken, parcel, itemCost>>, lot' \in [Lots -> Row],
           \A i \in Lots : \/ i \in Unused /\ lot'[i].left <= lot'[i].in
                           \/ lot'[i].in = lot[i].in /\ lot'[i].cost = lot[i].cost /\ lot'[i].left <= lot[i].left
    PROVE  /\ CopiesTraced' /\ StampedCostIsReal'
           /\ \A o \in Parcels : parcel'[o] = "here" => \A i \in Lots : taken'[o][i] = 0
           /\ \A o \in Parcels : SumOver(taken'[o]) <= CopiesOf[o]
<1>0. lot \in [Lots -> Row] /\ taken' = taken
      BY AwayType DEF LotsInv
<1>1. ASSUME NEW i \in Lots PROVE lot'[i].left + SumOf(Away(i), Parcels) <= lot'[i].in
  <2>1. SumOf(Away(i), Parcels) \in Nat /\ lot[i].left + SumOf(Away(i), Parcels) <= lot[i].in /\ lot[i] \in Row /\ lot'[i] \in Row
        BY <1>0, AwayType DEF LotsInv, CopiesTraced, Away
  <2>2. CASE i \in Unused
    <3>1. SumOf(Away(i), Parcels) = 0 /\ lot'[i].left <= lot'[i].in
          BY <2>1, <2>2, UnusedUntaken DEF Row
    <3> QED BY <2>1, <3>1 DEF Row
  <2>3. CASE lot'[i].in = lot[i].in /\ lot'[i].left <= lot[i].left
        BY <2>1, <2>3 DEF Row
  <2> QED BY <2>2, <2>3
<1>2. CopiesTraced'
  <2>1. \A i \in Lots : SumOf([o \in Parcels |-> taken'[o][i]], Parcels) = SumOf(Away(i), Parcels)
        BY <1>0 DEF Away
  <2> QED BY <1>1, <2>1 DEF CopiesTraced
<1>3. \A o \in Parcels : Worth(lot', taken'[o]) = Worth(lot, taken[o])
  <2> SUFFICES ASSUME NEW o \in Parcels PROVE Worth(lot', taken[o]) = Worth(lot, taken[o])
      BY <1>0
  <2>1. \A i \in Lots : taken[o][i] # 0 => lot'[i].cost = lot[i].cost
        BY UnusedUntaken
  <2>2. NatsOn(taken[o], Lots)
        BY AwayType DEF LotsInv
  <2> QED BY <1>0, <2>1, <2>2, WorthKept
<1>4. StampedCostIsReal'
      BY <1>3 DEF LotsInv, StampedCostIsReal
<1> QED BY <1>2, <1>4 DEF LotsInv

OldStockShrinks == LeftIn(lot') <= shelf' /\ shelf' - LeftIn(lot') <= shelf - LeftIn(lot)

\* The queue goes on listing the lots there are.
LEMMA QueueListsLots ==
    ASSUME LotsInv, lot' \in [Lots -> Row],
           \A i \in Lots \ Unused : lot'[i].in = lot[i].in,
           \/ fifo' = fifo /\ \A i \in Unused : lot'[i] = NoLot
           \/ /\ Unused # {} /\ lot'[Min(Unused)].in > 0
              /\ \A i \in Unused \ {Min(Unused)} : lot'[i] = NoLot
              /\ \/ fifo' = Append(fifo, Min(Unused))
                 \/ \E at \in 1..(Len(fifo) + 1) : fifo' = InsertAt(fifo, at, Min(Unused))
    PROVE  /\ fifo' \in Seq(Lots) /\ Range(fifo') = Lots \ Unused' /\ IsInjective(fifo')
           /\ \A i \in Lots : i \notin Unused' => lot'[i].in > 0
<1>1. fifo \in Seq(Lots) /\ IsInjective(fifo) /\ Range(fifo) = Lots \ Unused /\ Unused \subseteq Lots
      BY DEF LotsInv, LotsTypeOK, Unused
<1>2. \A i \in Lots \ Unused : lot'[i].in > 0 /\ lot'[i] # NoLot
      BY DEF LotsInv, NoLot
<1>3. CASE fifo' = fifo /\ \A i \in Unused : lot'[i] = NoLot
  <2>1. Unused' = Unused
        BY <1>2, <1>3 DEF Unused
  <2> QED BY <1>1, <1>2, <1>3, <2>1
<1>4. CASE /\ Unused # {} /\ lot'[Min(Unused)].in > 0
           /\ \A i \in Unused \ {Min(Unused)} : lot'[i] = NoLot
           /\ \/ fifo' = Append(fifo, Min(Unused))
              \/ \E at \in 1..(Len(fifo) + 1) : fifo' = InsertAt(fifo, at, Min(Unused))
  <2> DEFINE n == Min(Unused)
  <2>1. n \in Unused
        BY <1>4, NextLot
  <2>2. Unused' = Unused \ {n}
        BY <1>2, <1>4, <2>1 DEF Unused, NoLot
  <2>3. \/ fifo' = Append(fifo, n)
        \/ \E at \in 1..(Len(fifo) + 1) : fifo' = InsertAt(fifo, at, n)
        BY <1>4
  <2>5. lot'[n].in > 0
        BY <1>4
  <2> HIDE DEF n
  <2>4. fifo' \in Seq(Lots) /\ IsInjective(fifo') /\ Range(fifo') = Range(fifo) \cup {n}
    <3>1. n \in Lots /\ n \notin Range(fifo) /\ 1 \in 1..(Len(fifo) + 1)
          BY <1>1, <2>1
    <3>2. CASE fifo' = Append(fifo, n)
          BY <1>1, <3>1, <3>2, QueueGrows
    <3>3. CASE \E at \in 1..(Len(fifo) + 1) : fifo' = InsertAt(fifo, at, n)
          BY <1>1, <3>1, <3>3, QueueGrows
    <3> QED BY <2>3, <3>2, <3>3
  <2> QED BY <1>1, <1>2, <2>1, <2>2, <2>4, <2>5
<1> QED BY <1>3, <1>4

\* A new lot of copies that came in.
LEMMA NewLotKeeps ==
    ASSUME LotsInv, NEW n \in Nat \ {0}, NEW c \in Nat, Unused # {},
           lot' = WithLot(lot, Min(Unused), n, c),
           \/ fifo' = Append(fifo, Min(Unused))
           \/ \E at \in 1..(Len(fifo) + 1) : fifo' = InsertAt(fifo, at, Min(Unused)),
           shelf' = shelf + n, costPrice' = AverageCost(lot', costPrice),
           UNCHANGED <<taken, parcel, itemCost>>
    PROVE  LotsInv' /\ OldStockShrinks
<1> DEFINE i == Min(Unused)
<1>1. i \in Unused /\ i \in Lots /\ lot[i].left = 0
      BY NextLot, UnusedUntaken
<1>2. lot \in [Lots -> Row] /\ LeftIn(lot) \in Nat /\ shelf \in Nat /\ LeftIn(lot) <= shelf
      BY AwayType, AverageCostType DEF LotsInv, LotsTypeOK
<1>3. /\ lot'[i] = [in |-> n, left |-> n, cost |-> c] /\ (\A j \in Lots \ {i} : lot'[j] = lot[j])
      BY <1>1, <1>2 DEF WithLot
<1>4. lot' \in [Lots -> Row] /\ LeftIn(lot') = LeftIn(lot) + n
      BY <1>1, <1>2, LotAdded
<1> HIDE DEF i
<1>5. /\ CopiesTraced' /\ StampedCostIsReal'
      /\ \A o \in Parcels : parcel'[o] = "here" => \A j \in Lots : taken'[o][j] = 0
      /\ \A o \in Parcels : SumOver(taken'[o]) <= CopiesOf[o]
  <2>1. \A j \in Lots : \/ j \in Unused /\ lot'[j].left <= lot'[j].in
                        \/ lot'[j].in = lot[j].in /\ lot'[j].cost = lot[j].cost /\ lot'[j].left <= lot[j].left
        BY <1>1, <1>2, <1>3 DEF Row
  <2> QED BY <1>4, <2>1, OrdersAlone
<1>6. /\ fifo' \in Seq(Lots) /\ Range(fifo') = Lots \ Unused' /\ IsInjective(fifo')
      /\ \A j \in Lots : j \notin Unused' => lot'[j].in > 0
  <2>1. \A j \in Lots \ Unused : lot'[j].in = lot[j].in
        BY <1>1, <1>3
  <2>2. lot'[Min(Unused)].in > 0 /\ \A j \in Unused \ {Min(Unused)} : lot'[j] = NoLot
        BY <1>1, <1>3 DEF i, Unused
  <2> QED BY <1>4, <2>1, <2>2, QueueListsLots
<1>7. costPrice' \in Nat
      BY <1>4, AverageCostType DEF LotsInv, LotsTypeOK
<1>8. LotsTypeOK'
  <2>1. shelf' \in Nat /\ taken' = taken /\ parcel' = parcel /\ itemCost' = itemCost
        BY <1>2
  <2> QED BY <1>4, <1>6, <1>7, <2>1 DEF LotsInv, LotsTypeOK, Row
<1>9. OldStockShrinks
      BY <1>2, <1>4 DEF OldStockShrinks
<1>10. LeftIn(lot)' <= shelf' /\ \A o \in Parcels : SumOver(taken[o])' <= CopiesOf[o]
      BY <1>5, <1>9 DEF OldStockShrinks
<1> QED BY <1>5, <1>6, <1>8, <1>9, <1>10 DEF LotsInv

\* A count: copies found are a new lot, copies missing leave the oldest.
LEMMA CountKeeps ==
    ASSUME LotsInv, NEW n \in Nat, CountShelf(n)
    PROVE  LotsInv' /\ OldStockShrinks
<1>1. lot \in [Lots -> Row] /\ LeftIn(lot) \in Nat /\ shelf \in Nat /\ LeftIn(lot) <= shelf /\ costPrice \in Nat
      BY AwayType, AverageCostType DEF LotsInv, LotsTypeOK
<1>2. CASE n > shelf
  <2>1. n - shelf \in Nat \ {0} /\ shelf' = shelf + (n - shelf)
        BY <1>1, <1>2 DEF CountShelf
  <2> QED BY <1>1, <1>2, <2>1, NewLotKeeps DEF CountShelf
<1>3. CASE ~(n > shelf)
  <2> DEFINE k == shelf - n
             d == Oldest(k)
  <2>1. k \in Nat /\ k <= shelf /\ shelf' = shelf - k
        BY <1>1, <1>3 DEF CountShelf
  <2>2. lot' = Without(d) /\ fifo' = fifo /\ costPrice' = AverageCost(lot', costPrice) /\ UNCHANGED <<taken, parcel, itemCost>>
        BY <1>3 DEF CountShelf
  <2> HIDE DEF k
  <2>3. /\ NatsOn(d, Lots) /\ (\A i \in Lots : d[i] <= lot[i].left)
        /\ SumOver(d) \in Nat /\ SumOver(d) <= k
        /\ LeftIn(lot') = LeftIn(lot) - SumOver(d) /\ LeftIn(lot') <= shelf - k /\ lot' \in [Lots -> Row]
        BY <2>1, <2>2, OldestCopies
  <2> HIDE DEF d
  <2>4. \A i \in Lots : lot'[i].in = lot[i].in /\ lot'[i].cost = lot[i].cost /\ lot'[i].left <= lot[i].left
                        /\ (i \in Unused => lot'[i] = NoLot)
    <3> SUFFICES ASSUME NEW i \in Lots
                 PROVE  lot'[i].in = lot[i].in /\ lot'[i].cost = lot[i].cost /\ lot'[i].left <= lot[i].left
                        /\ (i \in Unused => lot'[i] = NoLot)
        OBVIOUS
    <3>1. lot'[i] = [lot[i] EXCEPT !.left = @ - d[i]] /\ lot[i] \in Row /\ d[i] \in Nat /\ d[i] <= lot[i].left
          BY <1>1, <2>2, <2>3 DEF Without, NatsOn
    <3> QED BY <3>1 DEF Row, Unused, NoLot
  <2>5. /\ CopiesTraced' /\ StampedCostIsReal'
        /\ \A o \in Parcels : parcel'[o] = "here" => \A j \in Lots : taken'[o][j] = 0
        /\ \A o \in Parcels : SumOver(taken'[o]) <= CopiesOf[o]
        BY <2>2, <2>3, <2>4, OrdersAlone
  <2>6. /\ fifo' \in Seq(Lots) /\ Range(fifo') = Lots \ Unused' /\ IsInjective(fifo')
        /\ \A j \in Lots : j \notin Unused' => lot'[j].in > 0
    <3>1. \A i \in Unused : lot'[i] = NoLot
          BY <2>4 DEF Unused
    <3> QED BY <2>2, <2>3, <2>4, <3>1, QueueListsLots
  <2>7. costPrice' \in Nat
        BY <1>1, <2>2, <2>3, AverageCostType
  <2>8. LotsTypeOK'
        BY <1>1, <2>1, <2>2, <2>3, <2>6, <2>7 DEF LotsInv, LotsTypeOK, Row
  <2>9. OldStockShrinks
        BY <1>1, <2>1, <2>3 DEF OldStockShrinks
  <2>10. LeftIn(lot)' <= shelf' /\ \A o \in Parcels : SumOver(taken[o])' <= CopiesOf[o]
        BY <2>5, <2>9 DEF OldStockShrinks
  <2> QED BY <2>5, <2>6, <2>8, <2>9, <2>10 DEF LotsInv
<1> QED BY <1>2, <1>3

\* An order ships: its copies leave the lots for its consumptions, and their mean cost
\* is stamped on its lines.
LEMMA ShipKeeps ==
    ASSUME LotsInv, NEW o \in Parcels, Ship(o)
    PROVE  LotsInv' /\ OldStockShrinks
<1> DEFINE n == CopiesOf[o]
           d == Oldest(n)
           unknown == n - SumOver(d)
<1>1. /\ lot \in [Lots -> Row] /\ LeftIn(lot) \in Nat /\ shelf \in Nat /\ LeftIn(lot) <= shelf /\ costPrice \in Nat
      /\ taken \in [Parcels -> [Lots -> Nat]] /\ itemCost \in [Parcels -> Nat]
      /\ parcel \in [Parcels -> {"here", "away"}]
      BY AwayType, AverageCostType DEF LotsInv, LotsTypeOK
<1>2. n \in Nat \ {0} /\ n <= shelf /\ shelf' = shelf - n /\ \A i \in Lots : taken[o][i] = 0
      BY StockLotsAssumption DEF Ship, LotsInv
<1>3. /\ lot' = Without(d) /\ fifo' = fifo /\ costPrice' = AverageCost(lot', costPrice)
      /\ taken' = [taken EXCEPT ![o] = [i \in Lots |-> @[i] + d[i]]]
      /\ itemCost' = [itemCost EXCEPT ![o] = RoundedShare(Worth(lot, d) + unknown * costPrice', n)]
      /\ parcel' = [parcel EXCEPT ![o] = "away"]
      BY DEF Ship
<1> HIDE DEF n
<1>4. /\ NatsOn(d, Lots) /\ (\A i \in Lots : d[i] <= lot[i].left)
      /\ SumOver(d) \in Nat /\ SumOver(d) <= n
      /\ LeftIn(lot') = LeftIn(lot) - SumOver(d) /\ LeftIn(lot') <= shelf - n /\ lot' \in [Lots -> Row]
      BY <1>2, <1>3, OldestCopies
<1> HIDE DEF d
<1>5. \A i \in Lots : /\ lot'[i].in = lot[i].in /\ lot'[i].cost = lot[i].cost /\ lot'[i].left = lot[i].left - d[i]
                      /\ d[i] \in Nat /\ d[i] <= lot[i].left /\ (i \in Unused => lot'[i] = NoLot)
  <2> SUFFICES ASSUME NEW i \in Lots
               PROVE  /\ lot'[i].in = lot[i].in /\ lot'[i].cost = lot[i].cost /\ lot'[i].left = lot[i].left - d[i]
                      /\ d[i] \in Nat /\ d[i] <= lot[i].left /\ (i \in Unused => lot'[i] = NoLot)
      OBVIOUS
  <2>1. lot'[i] = [lot[i] EXCEPT !.left = @ - d[i]] /\ lot[i] \in Row /\ d[i] \in Nat /\ d[i] <= lot[i].left
        BY <1>1, <1>3, <1>4 DEF Without, NatsOn
  <2> QED BY <2>1 DEF Row, Unused, NoLot
<1>6. /\ taken' \in [Parcels -> [Lots -> Nat]]
      /\ \A i \in Lots : taken'[o][i] = d[i]
      /\ \A p \in Parcels \ {o} : taken'[p] = taken[p] /\ itemCost'[p] = itemCost[p] /\ parcel'[p] = parcel[p]
      BY <1>1, <1>2, <1>3, <1>5
<1>7. costPrice' \in Nat
      BY <1>1, <1>3, <1>4, AverageCostType
<1>8. itemCost' \in [Parcels -> Nat] /\ itemCost'[o] = RoundedShare(Worth(lot, d) + unknown * costPrice', n)
  <2>1. Worth(lot, d) \in Nat /\ unknown \in Nat
        BY <1>1, <1>2, <1>4, WorthType
  <2> HIDE DEF unknown
  <2>2. \A a, b \in Nat : a * b \in Nat
        OBVIOUS
  <2>3. Worth(lot, d) + unknown * costPrice' \in Nat
        BY <1>7, <2>1, <2>2
  <2>4. RoundedShare(Worth(lot, d) + unknown * costPrice', n) \in Nat
        BY <1>2, <2>3, RoundedShareType
  <2> QED BY <1>1, <1>3, <2>4
<1>9. /\ fifo' \in Seq(Lots) /\ Range(fifo') = Lots \ Unused' /\ IsInjective(fifo')
      /\ \A j \in Lots : j \notin Unused' => lot'[j].in > 0
  <2>1. \A i \in Unused : lot'[i] = NoLot
        BY <1>5 DEF Unused
  <2> QED BY <1>3, <1>4, <1>5, <2>1, QueueListsLots
<1>10. LotsTypeOK'
  <2>1. shelf' \in Nat /\ parcel' \in [Parcels -> {"here", "away"}]
        BY <1>1, <1>2, <1>3
  <2> QED BY <1>4, <1>6, <1>7, <1>8, <1>9, <2>1 DEF LotsTypeOK, Row
<1>11. CopiesTraced'
  <2> SUFFICES ASSUME NEW i \in Lots
               PROVE  lot'[i].left + SumOf([p \in Parcels |-> taken'[p][i]], Parcels) <= lot'[i].in
      BY DEF CopiesTraced
  <2> DEFINE f == Away(i)
             g == [p \in Parcels |-> taken'[p][i]]
  <2>1. /\ IntsOn(f, Parcels) /\ IntsOn(g, Parcels) /\ f[o] = 0 /\ g[o] = d[i]
        /\ \A p \in Parcels \ {o} : g[p] = f[p]
        BY <1>1, <1>2, <1>6 DEF Away, IntsOn
  <2>2. SumOf(f, Parcels) \in Nat /\ lot[i].left + SumOf(f, Parcels) <= lot[i].in
        BY AwayType DEF LotsInv, CopiesTraced, Away
  <2> HIDE DEF f, g
  <2>3. SumOf(g, Parcels) = SumOf(f, Parcels) - f[o] + g[o]
        BY <2>1, SumChanged, StockLotsAssumption
  <2>4. SumOf(g, Parcels) = SumOf(f, Parcels) + d[i]
        BY <1>5, <2>1, <2>2, <2>3
  <2>5. lot'[i].left + SumOf(g, Parcels) <= lot'[i].in
    <3>1. lot[i].left \in Nat /\ lot[i].in \in Nat /\ d[i] \in Nat /\ lot'[i].left = lot[i].left - d[i] /\ lot'[i].in = lot[i].in
          BY <1>1, <1>5 DEF Row
    <3> QED BY <2>2, <2>4, <3>1
  <2> QED BY <2>5 DEF g
<1>12. SumOver(taken'[o]) = SumOver(d) /\ Worth(lot', taken'[o]) = Worth(lot, d)
  <2>1. IntsOn(d, Lots) /\ \A i \in Lots : taken'[o][i] = d[i]
        BY <1>4, <1>6 DEF NatsOn, IntsOn
  <2>2. SumOf(taken'[o], Lots) = SumOf(d, Lots)
        BY <2>1, SumSame, StockLotsAssumption
  <2>3. Worth(lot', taken'[o]) = Worth(lot, d)
    <3>1. \A i \in Lots : taken'[o][i] = d[i] /\ (d[i] # 0 => lot'[i].cost = lot[i].cost)
          BY <1>5, <1>6
    <3>2. lot \in [Lots -> Row] /\ lot' \in [Lots -> Row] /\ NatsOn(d, Lots)
          BY <1>1, <1>4
    <3> QED BY <3>1, <3>2, WorthKept
  <2> QED BY <2>2, <2>3 DEF SumOver
<1>13. ASSUME NEW p \in Parcels, parcel'[p] = "away", SumOver(taken'[p]) = CopiesOf[p]
       PROVE  itemCost'[p] = RoundedShare(Worth(lot', taken'[p]), CopiesOf[p])
  <2>1. CASE p = o
    <3>1. unknown = 0
          BY <1>2, <1>4, <1>12, <1>13, <2>1 DEF n
    <3>2. Worth(lot, d) \in Nat /\ unknown * costPrice' = 0
          BY <1>1, <1>4, <1>7, <3>1, WorthType
    <3> HIDE DEF unknown
    <3>3. Worth(lot, d) + unknown * costPrice' = Worth(lot, d)
          BY <3>2
    <3> QED BY <1>8, <1>12, <2>1, <3>3 DEF n
  <2>2. CASE p # o
    <3>1. taken'[p] = taken[p] /\ itemCost'[p] = itemCost[p] /\ parcel[p] = "away"
          BY <1>6, <1>13, <2>2
    <3>2. NatsOn(taken[p], Lots)
          BY AwayType DEF LotsInv
    <3>3. Worth(lot', taken[p]) = Worth(lot, taken[p])
      <4>1. \A i \in Lots : taken[p][i] = taken[p][i] /\ (taken[p][i] # 0 => lot'[i].cost = lot[i].cost)
            BY <1>5
      <4>2. lot \in [Lots -> Row] /\ lot' \in [Lots -> Row]
            BY <1>1, <1>4
      <4> QED BY <3>2, <4>1, <4>2, WorthKept
    <3> QED BY <1>13, <3>1, <3>3 DEF LotsInv, StampedCostIsReal
  <2> QED BY <2>1, <2>2
<1>14. OldStockShrinks
      BY <1>1, <1>2, <1>4 DEF OldStockShrinks
<1>15. \A p \in Parcels : parcel'[p] = "here" => \A i \in Lots : taken'[p][i] = 0
      BY <1>1, <1>3, <1>6 DEF LotsInv
<1>16. \A p \in Parcels : SumOver(taken'[p]) <= CopiesOf[p]
      BY <1>4, <1>6, <1>12 DEF LotsInv, n
<1>17. LeftIn(lot)' <= shelf' /\ \A p \in Parcels : SumOver(taken[p])' <= CopiesOf[p]
      BY <1>14, <1>16 DEF OldStockShrinks
<1>18. StampedCostIsReal'
      BY <1>13 DEF StampedCostIsReal
<1> QED BY <1>9, <1>10, <1>11, <1>14, <1>15, <1>17, <1>18 DEF LotsInv

\* An order comes back: into the lots it came from, which have room for what left them,
\* and what no consumption speaks of into a lot of its own.
LEMMA TakeBackKeeps ==
    ASSUME LotsInv, NEW o \in Parcels, TakeBack(o)
    PROVE  LotsInv' /\ OldStockShrinks
<1> DEFINE n == CopiesOf[o]
           back == Spread(n, Reverse(fifo), taken[o])
           rest == n - SumOver(back)
           refilled == [i \in Lots |->
                          [lot[i] EXCEPT !.left = IF @ + back[i] <= lot[i].in THEN @ + back[i] ELSE lot[i].in]]
<1>1. /\ lot \in [Lots -> Row] /\ LeftIn(lot) \in Nat /\ shelf \in Nat /\ LeftIn(lot) <= shelf /\ costPrice \in Nat
      /\ taken \in [Parcels -> [Lots -> Nat]] /\ itemCost \in [Parcels -> Nat]
      /\ parcel \in [Parcels -> {"here", "away"}] /\ n \in Nat
      BY AwayType, AverageCostType, StockLotsAssumption DEF LotsInv, LotsTypeOK
<1>2. /\ taken' = [taken EXCEPT ![o] = [i \in Lots |-> @[i] - back[i]]]
      /\ \/ rest = 0 /\ lot' = refilled /\ fifo' = fifo
         \/ /\ rest # 0 /\ Unused # {}
            /\ lot' = WithLot(refilled, Min(Unused), rest, costPrice) /\ fifo' = Append(fifo, Min(Unused))
      /\ costPrice' = AverageCost(lot', costPrice) /\ itemCost' = itemCost
      /\ shelf' = shelf + n /\ parcel' = [parcel EXCEPT ![o] = "here"]
      BY DEF TakeBack
<1>3. NatsOn(back, Lots) /\ \A i \in Lots : back[i] = taken[o][i]
  <2>1. fifo \in Seq(Lots) /\ IsInjective(fifo) /\ Range(fifo) = Lots \ Unused
        BY DEF LotsInv, LotsTypeOK
  <2>2. Reverse(fifo) \in Seq(Lots) /\ IsInjective(Reverse(fifo)) /\ Range(Reverse(fifo)) = Lots \ Unused
        BY <2>1, QueueReversed
  <2>3. NatsOn(taken[o], Lots) /\ SumOver(taken[o]) \in Nat /\ SumOver(taken[o]) <= n
        BY AwayType DEF LotsInv
  <2>4. \A i \in Lots \ Range(Reverse(fifo)) : taken[o][i] = 0
        BY <2>2, UnusedUntaken
  <2> HIDE DEF n
  <2>5. NatsOn(back, Lots) /\ (\A i \in Lots : back[i] <= taken[o][i]) /\ SumOver(back) = AtMost(n, SumOver(taken[o]))
        BY <1>1, <2>2, <2>3, <2>4, SpreadCopies
  <2> HIDE DEF back
  <2>6. SumOf(back, Lots) = SumOf(taken[o], Lots)
    <3>1. AtMost(n, SumOver(taken[o])) = SumOver(taken[o])
      <4>1. \A m, k \in Nat : k <= m => AtMost(m, k) = k
            BY DEF AtMost
      <4>2. n \in Nat
            BY <1>1
      <4> QED BY <2>3, <4>1, <4>2
    <3> QED BY <2>5, <3>1 DEF SumOver
  <2> QED BY <2>3, <2>5, <2>6, SumEqual, StockLotsAssumption
<1> HIDE DEF back, n
<1>4. SumOver(back) = SumOver(taken[o]) /\ SumOver(back) \in Nat /\ rest \in Nat
  <2>1. IntsOn(taken[o], Lots) /\ SumOver(taken[o]) \in Nat /\ SumOver(taken[o]) <= n
        BY AwayType DEF LotsInv, NatsOn, IntsOn, n
  <2>2. SumOf(back, Lots) = SumOf(taken[o], Lots)
        BY <1>3, <2>1, SumSame, StockLotsAssumption
  <2> QED BY <1>1, <2>1, <2>2 DEF SumOver
<1>5. \A i \in Lots : /\ back[i] \in Nat /\ lot[i].left + back[i] <= lot[i].in
                      /\ refilled[i] = [lot[i] EXCEPT !.left = @ + back[i]]
  <2> SUFFICES ASSUME NEW i \in Lots
               PROVE  /\ back[i] \in Nat /\ lot[i].left + back[i] <= lot[i].in
                      /\ refilled[i] = [lot[i] EXCEPT !.left = @ + back[i]]
      OBVIOUS
  <2>1. /\ back[i] \in Nat /\ back[i] = taken[o][i] /\ lot[i] \in Row
        BY <1>1, <1>3 DEF NatsOn
  <2>2. /\ taken[o][i] <= SumOf(Away(i), Parcels) /\ SumOf(Away(i), Parcels) \in Nat
        /\ lot[i].left + SumOf(Away(i), Parcels) <= lot[i].in
        BY AwayType DEF LotsInv, CopiesTraced, Away
  <2> QED BY <2>1, <2>2 DEF Row
<1>6. /\ refilled \in [Lots -> Row]
      /\ \A i \in Lots : /\ refilled[i].left = lot[i].left + back[i]
                         /\ refilled[i].in = lot[i].in /\ refilled[i].cost = lot[i].cost
  <2>1. refilled = [i \in Lots |-> refilled[i]]
        OBVIOUS
  <2> HIDE DEF refilled
  <2>2. \A i \in Lots : /\ refilled[i] \in Row /\ refilled[i].left = lot[i].left + back[i]
                         /\ refilled[i].in = lot[i].in /\ refilled[i].cost = lot[i].cost
    <3> SUFFICES ASSUME NEW i \in Lots
                 PROVE  /\ refilled[i] \in Row /\ refilled[i].left = lot[i].left + back[i]
                        /\ refilled[i].in = lot[i].in /\ refilled[i].cost = lot[i].cost
        OBVIOUS
    <3>1. lot[i] \in Row /\ back[i] \in Nat /\ refilled[i] = [lot[i] EXCEPT !.left = @ + back[i]]
          BY <1>1, <1>5
    <3> QED BY <3>1 DEF Row
  <2> QED BY <2>1, <2>2
<1>7. \A i \in Unused : refilled[i] = NoLot /\ refilled[i].left = 0 /\ i \in Lots
  <2> SUFFICES ASSUME NEW i \in Unused PROVE refilled[i] = NoLot /\ refilled[i].left = 0 /\ i \in Lots
      OBVIOUS
  <2>1. i \in Lots /\ lot[i] = NoLot /\ back[i] = 0
        BY <1>3, UnusedUntaken DEF Unused
  <2> QED BY <1>5, <2>1 DEF NoLot
<1> HIDE DEF refilled
<1>8. LeftIn(refilled) = LeftIn(lot) + SumOver(back)
      BY <1>1, <1>3, <1>6, LeftMoves
<1>9. /\ lot' \in [Lots -> Row] /\ LeftIn(lot') = LeftIn(lot) + n
      /\ \A i \in Lots : \/ i \notin Unused \/ rest = 0
                         \/ i # Min(Unused)
                         \/ lot'[i] = [in |-> rest, left |-> rest, cost |-> costPrice] /\ rest > 0
      /\ \A i \in Lots : lot'[i] = refilled[i] \/ (rest # 0 /\ Unused # {} /\ i = Min(Unused))
  <2>1. CASE rest = 0
        BY <1>1, <1>2, <1>4, <1>6, <1>8, <2>1
  <2>2. CASE rest # 0
    <3> DEFINE i == Min(Unused)
    <3>1. i \in Unused /\ i \in Lots /\ refilled[i].left = 0 /\ Unused # {}
          BY <1>2, <1>7, <2>2, NextLot
    <3>2. lot' = WithLot(refilled, i, rest, costPrice)
          BY <1>2, <2>2
    <3> HIDE DEF i
    <3>3. LeftIn(lot') = LeftIn(refilled) + rest /\ lot' \in [Lots -> Row]
          BY <1>1, <1>4, <1>6, <3>1, <3>2, LotAdded
    <3>4. LeftIn(lot') = LeftIn(lot) + n
          BY <1>1, <1>4, <1>8, <3>3
    <3>5. lot'[i] = [in |-> rest, left |-> rest, cost |-> costPrice] /\ \A j \in Lots \ {i} : lot'[j] = refilled[j]
          BY <1>6, <3>1, <3>2 DEF WithLot
    <3>6. rest > 0
          BY <1>4, <2>2
    <3> HIDE DEF rest
    <3> QED BY <2>2, <3>1, <3>3, <3>4, <3>5, <3>6 DEF i
  <2> QED BY <2>1, <2>2
<1> HIDE DEF rest
<1>10. /\ \A i \in Lots : i \notin Unused => lot'[i] = refilled[i]
       /\ \A i \in Unused : lot'[i] = NoLot \/ lot'[i].in = lot'[i].left
       BY <1>2, <1>7, <1>9, NextLot DEF NoLot
<1>11. /\ fifo' \in Seq(Lots) /\ Range(fifo') = Lots \ Unused' /\ IsInjective(fifo')
       /\ \A j \in Lots : j \notin Unused' => lot'[j].in > 0
  <2>1. \A i \in Lots \ Unused : lot'[i].in = lot[i].in
        BY <1>6, <1>10
  <2>2. CASE rest = 0
    <3>1. \A i \in Unused : lot'[i] = NoLot
          BY <1>7, <1>9, <2>2
    <3> QED BY <1>2, <1>9, <2>1, <2>2, <3>1, QueueListsLots
  <2>3. CASE rest # 0
    <3>1. Unused # {} /\ fifo' = Append(fifo, Min(Unused)) /\ Min(Unused) \in Unused
          BY <1>2, <2>3, NextLot
    <3>2. lot'[Min(Unused)].in > 0 /\ \A i \in Unused \ {Min(Unused)} : lot'[i] = NoLot
          BY <1>7, <1>9, <2>3, <3>1
    <3> QED BY <1>9, <2>1, <3>1, <3>2, QueueListsLots
  <2> QED BY <2>2, <2>3
<1>12. /\ taken' \in [Parcels -> [Lots -> Nat]] /\ (\A i \in Lots : taken'[o][i] = 0)
       /\ \A p \in Parcels \ {o} : taken'[p] = taken[p] /\ parcel'[p] = parcel[p]
       BY <1>1, <1>2, <1>3
<1>13. LotsTypeOK'
  <2>1. shelf' \in Nat /\ parcel' \in [Parcels -> {"here", "away"}] /\ itemCost' \in [Parcels -> Nat]
        BY <1>1, <1>2
  <2>2. costPrice' \in Nat
        BY <1>1, <1>2, <1>9, AverageCostType
  <2> QED BY <1>9, <1>11, <1>12, <2>1, <2>2 DEF LotsTypeOK, Row
<1>14. CopiesTraced'
  <2> SUFFICES ASSUME NEW i \in Lots
               PROVE  lot'[i].left + SumOf([p \in Parcels |-> taken'[p][i]], Parcels) <= lot'[i].in
      BY DEF CopiesTraced
  <2> DEFINE f == Away(i)
             g == [p \in Parcels |-> taken'[p][i]]
  <2>1. /\ IntsOn(f, Parcels) /\ IntsOn(g, Parcels) /\ f[o] = back[i] /\ g[o] = 0
        /\ \A p \in Parcels \ {o} : g[p] = f[p]
        BY <1>1, <1>3, <1>12 DEF Away, IntsOn
  <2>2. SumOf(f, Parcels) \in Nat /\ lot[i].left + SumOf(f, Parcels) <= lot[i].in
        BY AwayType DEF LotsInv, CopiesTraced, Away
  <2>3. i \in Unused => SumOf(f, Parcels) = 0
    <3> SUFFICES ASSUME i \in Unused PROVE \A p \in Parcels : f[p] = 0
        BY SumZero, StockLotsAssumption
    <3> QED BY UnusedUntaken DEF Away
  <2> HIDE DEF f, g
  <2>4. SumOf(g, Parcels) = SumOf(f, Parcels) - f[o] + g[o]
    <3>1. IsFiniteSet(Parcels)
          BY StockLotsAssumption
    <3> QED BY <2>1, <3>1, SumChanged
  <2>5. back[i] \in Nat /\ SumOf(g, Parcels) = SumOf(f, Parcels) - back[i]
    <3>1. back[i] \in Nat /\ f[o] = back[i] /\ g[o] = 0 /\ SumOf(f, Parcels) \in Nat
          BY <1>5, <2>1, <2>2
    <3> QED BY <2>4, <3>1
  <2>6. CASE i \notin Unused
    <3>1. lot'[i].left = lot[i].left + back[i] /\ lot'[i].in = lot[i].in /\ lot[i].left \in Nat /\ lot[i].in \in Nat
          BY <1>1, <1>6, <1>10, <2>6 DEF Row
    <3> QED BY <2>2, <2>5, <3>1 DEF g
  <2>7. CASE i \in Unused
    <3>1. back[i] = 0
          BY <1>3, <2>7, UnusedUntaken
    <3>2. lot'[i].left <= lot'[i].in /\ lot'[i].left \in Nat
          BY <1>9, <1>10, <2>7 DEF NoLot, Row
    <3>3. SumOf(g, Parcels) = 0
          BY <2>3, <2>5, <2>7, <3>1
    <3> QED BY <3>2, <3>3 DEF g
  <2> QED BY <2>6, <2>7
<1>15. ASSUME NEW p \in Parcels, parcel'[p] = "away", SumOver(taken'[p]) = CopiesOf[p]
       PROVE  itemCost'[p] = RoundedShare(Worth(lot', taken'[p]), CopiesOf[p])
  <2>1. p # o
        BY <1>1, <1>2, <1>15
  <2>2. taken'[p] = taken[p] /\ itemCost'[p] = itemCost[p] /\ parcel[p] = "away"
        BY <1>2, <1>12, <1>15, <2>1
  <2>3. NatsOn(taken[p], Lots)
        BY AwayType DEF LotsInv
  <2>4. \A i \in Lots : taken[p][i] = taken[p][i] /\ (taken[p][i] # 0 => lot'[i].cost = lot[i].cost)
        BY <1>6, <1>10, UnusedUntaken
  <2>5. Worth(lot', taken[p]) = Worth(lot, taken[p])
    <3>1. lot \in [Lots -> Row] /\ lot' \in [Lots -> Row]
          BY <1>1, <1>9
    <3> QED BY <2>3, <2>4, <3>1, WorthKept
  <2> QED BY <1>15, <2>2, <2>5 DEF LotsInv, StampedCostIsReal
<1>16. OldStockShrinks
      BY <1>1, <1>2, <1>9 DEF OldStockShrinks
<1>17. \A p \in Parcels : parcel'[p] = "here" => \A i \in Lots : taken'[p][i] = 0
      BY <1>1, <1>2, <1>12 DEF LotsInv
<1>18. \A p \in Parcels : SumOver(taken'[p]) <= CopiesOf[p]
  <2>1. SumOf(taken'[o], Lots) = 0
        BY <1>12, SumZero, StockLotsAssumption
  <2> QED BY <1>1, <1>12, <2>1 DEF LotsInv, SumOver, n
<1>19. LeftIn(lot)' <= shelf' /\ \A p \in Parcels : SumOver(taken[p])' <= CopiesOf[p]
      BY <1>16, <1>18 DEF OldStockShrinks
<1>20. StampedCostIsReal'
      BY <1>15 DEF StampedCostIsReal
<1> QED BY <1>11, <1>13, <1>14, <1>16, <1>17, <1>19, <1>20 DEF LotsInv

\* Lots start with the opening stock, and no parcel is traced.
LEMMA LotsInitial == LotsInit => LotsInv
<1> SUFFICES ASSUME LotsInit PROVE LotsInv
    OBVIOUS
<1> DEFINE first == Min(Lots)
<1>1. /\ shelf = OldShelf /\ OldShelf \in Nat /\ costPrice \in Nat
      /\ parcel \in [Parcels -> {"here", "away"}] /\ itemCost = [o \in Parcels |-> costPrice]
      /\ taken = [o \in Parcels |-> [i \in Lots |-> 0]]
      BY StockLotsAssumption DEF LotsInit
<1>2. first \in Lots
  <2>1. Lots \subseteq Nat /\ Lots # {}
        BY StockLotsAssumption
  <2>2. \E x \in Lots : \A y \in Lots : x <= y
        BY <2>1, SmallestNumber
  <2> QED BY <2>2 DEF Min
<1>3. \/ lot = NoLots /\ fifo = <<>>
      \/ OldShelf > 0 /\ lot = WithLot(NoLots, first, OldShelf, costPrice) /\ fifo = <<first>>
      BY DEF LotsInit
<1> HIDE DEF first
<1>4. NoLots \in [Lots -> Row] /\ LeftIn(NoLots) = 0 /\ \A i \in Lots : NoLots[i] = NoLot /\ NoLots[i].left = 0
  <2>1. \A i \in Lots : Left(NoLots)[i] = 0
        BY DEF Left, NoLots, NoLot
  <2>2. LeftIn(NoLots) = 0
        BY <2>1, SumZero, StockLotsAssumption DEF LeftIn, SumOver
  <2> QED BY <2>2 DEF NoLots, NoLot, Row
<1>5. lot \in [Lots -> Row] /\ LeftIn(lot) <= shelf
  <2>1. CASE lot = NoLots
        BY <1>1, <1>4, <2>1
  <2>2. CASE lot = WithLot(NoLots, first, OldShelf, costPrice)
    <3>1. LeftIn(lot) = LeftIn(NoLots) + OldShelf /\ lot \in [Lots -> Row]
          BY <1>1, <1>2, <1>4, <2>2, LotAdded
    <3> QED BY <1>1, <1>4, <3>1
  <2> QED BY <1>3, <2>1, <2>2
<1>6. \A i \in Lots : /\ lot[i] = NoLot \/ (i = first /\ lot[i].in > 0 /\ lot[i].left = lot[i].in)
                      /\ lot[i].left \in Nat /\ lot[i].in \in Nat /\ lot[i].left <= lot[i].in
  <2>1. CASE lot = NoLots
        BY <1>4, <2>1 DEF NoLot
  <2>2. CASE OldShelf > 0 /\ lot = WithLot(NoLots, first, OldShelf, costPrice)
        BY <1>1, <1>2, <1>4, <2>2 DEF WithLot, NoLot, Row
  <2> QED BY <1>3, <2>1, <2>2
<1>7. fifo \in Seq(Lots) /\ IsInjective(fifo) /\ Range(fifo) = Lots \ Unused
  <2>1. CASE lot = NoLots /\ fifo = <<>>
    <3>1. Unused = Lots
          BY <1>4, <2>1 DEF Unused
    <3> QED BY <2>1, <3>1 DEF Range, IsInjective
  <2>2. CASE OldShelf > 0 /\ lot = WithLot(NoLots, first, OldShelf, costPrice) /\ fifo = <<first>>
    <3>1. Unused = Lots \ {first}
          BY <1>1, <1>2, <1>4, <2>2 DEF Unused, WithLot, NoLot
    <3> QED BY <1>2, <2>2, <3>1 DEF Range, IsInjective
  <2> QED BY <1>3, <2>1, <2>2
<1>8. LotsTypeOK
      BY <1>1, <1>5, <1>7 DEF LotsTypeOK, Row
<1>9. \A o \in Parcels : SumOver(taken[o]) = 0 /\ CopiesOf[o] \in Nat \ {0}
  <2> SUFFICES ASSUME NEW o \in Parcels PROVE SumOf(taken[o], Lots) = 0 /\ CopiesOf[o] \in Nat \ {0}
      BY DEF SumOver
  <2>1. \A i \in Lots : taken[o][i] = 0
        BY <1>1
  <2> QED BY <2>1, SumZero, StockLotsAssumption
<1>10. CopiesTraced
  <2> SUFFICES ASSUME NEW i \in Lots PROVE lot[i].left + SumOf(Away(i), Parcels) <= lot[i].in
      BY DEF CopiesTraced, Away
  <2>1. \A o \in Parcels : Away(i)[o] = 0
        BY <1>1 DEF Away
  <2>2. SumOf(Away(i), Parcels) = 0
        BY <2>1, SumZero, StockLotsAssumption
  <2> QED BY <1>6, <2>2
<1>11. StampedCostIsReal
      BY <1>9 DEF StampedCostIsReal
<1>12. \A i \in Lots : i \notin Unused => lot[i].in > 0
      BY <1>6 DEF Unused
<1> QED BY <1>1, <1>5, <1>7, <1>8, <1>9, <1>10, <1>11, <1>12 DEF LotsInv

\* Every step keeps the invariant, and adds nothing to the stock older than the lots.
LEMMA LotsStep == LotsInv /\ LotsNext => LotsInv' /\ OldStockShrinks
<1> SUFFICES ASSUME LotsInv, LotsNext PROVE LotsInv' /\ OldStockShrinks
    OBVIOUS
<1>t. LotsTypeOK /\ lot \in [Lots -> Row] /\ LeftIn(lot) \in Nat /\ LeftIn(lot) <= shelf
      BY AwayType, AverageCostType DEF LotsInv, LotsTypeOK
<1>1. ASSUME NEW n \in Receipts, NEW c \in Costs, AddBatchOf(n, c) PROVE LotsInv' /\ OldStockShrinks
  <2>1. n \in Nat \ {0} /\ c \in Nat
        BY StockLotsAssumption
  <2> QED BY <1>1, <2>1, NewLotKeeps DEF AddBatchOf
<1>2. ASSUME NEW n \in 0..(OldShelf + 1), CountShelf(n) PROVE LotsInv' /\ OldStockShrinks
      BY <1>2, CountKeeps
<1>3. ASSUME NEW o \in Parcels, Ship(o) \/ TakeBack(o) PROVE LotsInv' /\ OldStockShrinks
      BY <1>3, ShipKeeps, TakeBackKeeps
<1>4. ASSUME NEW c \in Costs, EditCost(c) PROVE LotsInv' /\ OldStockShrinks
  <2>1. costPrice' \in Nat /\ UNCHANGED <<shelf, lot, fifo, taken, parcel, itemCost>>
        BY <1>4, StockLotsAssumption DEF EditCost
  <2>2. Unused' = Unused /\ LeftIn(lot') = LeftIn(lot) /\ LotsTypeOK'
        BY <1>t, <2>1 DEF Unused, LotsTypeOK
  <2>3. CopiesTraced' /\ StampedCostIsReal'
        BY <2>1 DEF LotsInv, CopiesTraced, StampedCostIsReal
  <2>4. LeftIn(lot)' <= shelf' /\ OldStockShrinks
        BY <1>t, <2>1, <2>2 DEF OldStockShrinks, LotsTypeOK
  <2>5. \A o \in Parcels : SumOver(taken[o])' <= CopiesOf[o]
        BY <2>1 DEF LotsInv
  <2> QED BY <2>1, <2>2, <2>3, <2>4, <2>5 DEF LotsInv
<1> QED BY <1>1, <1>2, <1>3, <1>4 DEF LotsNext

\* A step of others keeps the lots' invariant.
LEMMA LotsStutter == LotsInv /\ UNCHANGED lotVars => LotsInv' /\ OldStockShrinks
<1> SUFFICES ASSUME LotsInv, UNCHANGED lotVars PROVE LotsInv' /\ OldStockShrinks
    OBVIOUS
<1>1. UNCHANGED <<shelf, costPrice, lot, fifo, taken, parcel, itemCost>>
      BY DEF lotVars
<1>2. LotsTypeOK' /\ Unused' = Unused /\ CopiesTraced' /\ StampedCostIsReal' /\ IsInjective(fifo')
      BY <1>1 DEF LotsInv, LotsTypeOK, Unused, CopiesTraced, StampedCostIsReal
<1>3. LeftIn(lot)' <= shelf' /\ \A o \in Parcels : SumOver(taken[o])' <= CopiesOf[o]
      BY <1>1 DEF LotsInv
<1>4. LeftIn(lot) \in Nat /\ shelf \in Nat /\ LeftIn(lot') = LeftIn(lot)
      BY <1>1, AwayType, AverageCostType DEF LotsInv, LotsTypeOK
<1>5. OldStockShrinks
      BY <1>1, <1>3, <1>4 DEF OldStockShrinks
<1> QED BY <1>1, <1>2, <1>3, <1>5 DEF LotsInv

\* The lots' invariant holds of every behaviour.
LEMMA LotsInvCorrect == LotsSpec => []LotsInv
<1>1. LotsInv /\ [LotsNext]_lotVars => LotsInv'
      BY LotsStep, LotsStutter
<1> QED BY LotsInitial, <1>1, PTL DEF LotsSpec

\* Whatever ships, is counted out, comes back and ships again: no lot is given back more
\* than left it.
THEOREM CopiesTracedCorrect == LotsSpec => []CopiesTraced
<1>1. LotsInv => CopiesTraced
      BY DEF LotsInv
<1> QED BY LotsInvCorrect, <1>1, PTL

\* The cost on an order's lines is the mean cost of the copies it has.
THEOREM StampedCostIsRealCorrect == LotsSpec => []StampedCostIsReal
<1>1. LotsInv => StampedCostIsReal
      BY DEF LotsInv
<1> QED BY LotsInvCorrect, <1>1, PTL

\* No step puts copies on the shelf that no lot can cost.
THEOREM OldStockOnlyShrinksCorrect == LotsSpec => OldStockOnlyShrinks
<1>1. LotsInv /\ [LotsNext]_lotVars => [OldStockShrinks]_lotVars
      BY LotsStep
<1> QED BY LotsInvCorrect, <1>1, PTL DEF LotsSpec, OldStockOnlyShrinks, OldStockShrinks

-----------------------------------------------------------------------------
(* The reconciler's lock, for any number of replicas, pooled connections   *)
(* and overlapping runs: the connection that owns the lock holds it at      *)
(* least as often as its replica has runs under way.                        *)

LockTypeOK ==
    /\ owner \in {Nobody} \cup (Replicas \X Connections)
    /\ held \in Nat
    /\ run \in [Replicas \X Runs -> {"idle", "running"}]

\* Every run under way is covered by one holding of its own replica's connection.
Covered ==
    /\ owner # Nobody => held > 0
    /\ \A r \in Replicas :
         /\ Running(r) # {} => owner # Nobody /\ owner[1] = r
         /\ IsFiniteSet(Running(r)) /\ Cardinality(Running(r)) <= held

LockInv == LockTypeOK /\ Covered

\* Nobody holds the reconciler's lock at the start.
LEMMA LockInitial == LockInit => LockInv
<1> SUFFICES ASSUME LockInit PROVE LockInv
    OBVIOUS
<1>1. \A r \in Replicas : Running(r) = {}
      BY DEF LockInit, Running
<1> QED BY <1>1, FS_EmptySet DEF LockInit, LockInv, LockTypeOK, Covered

\* A run starts on the owner's connection or on a free lock, and adds a holding.
LEMMA StartKeeps ==
    ASSUME LockInv, NEW r \in Replicas, NEW n \in Runs, NEW c \in Connections,
           Start(<<r, n>>, <<r, c>>)
    PROVE  LockInv'
<1> USE DEF LockInv, LockTypeOK
<1>1. LockTypeOK'
      BY DEF Start
<1>2. owner' # Nobody /\ owner'[1] = r /\ held' = held + 1
      BY LockAssumption DEF Start
<1>3. \A b \in Replicas : b # r => Running(b) = {}
      BY DEF Covered, Start, Obtainable
<1>4. \A b \in Replicas : b # r => Running(b)' = Running(b)
      BY DEF Start, Running
<1>5. Running(r)' = Running(r) \cup {n} /\ n \notin Running(r)
      BY DEF Start, Running
<1>6. IsFiniteSet(Running(r)') /\ Cardinality(Running(r)') = Cardinality(Running(r)) + 1
      BY <1>5, FS_AddElement DEF Covered
<1>7. Cardinality(Running(r)) \in Nat
      BY FS_CardinalityType DEF Covered
<1>8. Covered'
      BY <1>1, <1>2, <1>3, <1>4, <1>6, <1>7, FS_EmptySet DEF Covered
<1> QED BY <1>1, <1>8

\* A run that ends takes away a run, and at most one holding.
LEMMA FinishKeeps ==
    ASSUME LockInv, NEW r \in Replicas, NEW n \in Runs, NEW c \in Connections,
           Finish(<<r, n>>, <<r, c>>)
    PROVE  LockInv'
<1> USE DEF LockInv, LockTypeOK
<1>1. n \in Running(r)
      BY DEF Finish, Running
<1>2. owner # Nobody /\ owner[1] = r /\ held > 0
      BY <1>1 DEF Covered
<1>3. \A b \in Replicas : b # r => Running(b) = {}
      BY <1>2 DEF Covered
<1>4. \A b \in Replicas : b # r => Running(b)' = {}
      BY <1>3 DEF Finish, Running
<1>5. Running(r)' = Running(r) \ {n}
      BY DEF Finish, Running
<1>6. IsFiniteSet(Running(r)') /\ Cardinality(Running(r)') = Cardinality(Running(r)) - 1
      BY <1>1, <1>5, FS_RemoveElement DEF Covered
<1>7. Cardinality(Running(r)) \in Nat /\ Cardinality(Running(r)) <= held
      BY FS_CardinalityType DEF Covered
<1>8. held' \in Nat /\ held - 1 <= held' /\ owner' \in {owner, Nobody}
      BY <1>2 DEF Finish
<1>9. owner' = Nobody => Running(r)' = {}
      <2>1. CASE owner = <<r, c>> /\ held = 1
            <3>1. Cardinality(Running(r)') = 0
                  BY <1>6, <1>7, <2>1, FS_CardinalityType
            <3> QED BY <1>6, <3>1, FS_EmptySet
      <2>2. CASE owner # <<r, c>> \/ held # 1
            BY <1>2, <2>2 DEF Finish
      <2> QED BY <2>1, <2>2
<1>10. owner' # Nobody => held' > 0
      BY <1>2 DEF Finish
<1>11. LockTypeOK'
      BY <1>8 DEF Finish
<1>12. Covered'
      <2>1. \A b \in Replicas : Running(b)' # {} => owner' # Nobody /\ owner'[1] = b
            BY <1>2, <1>4, <1>8, <1>9
      <2>2. Cardinality(Running(r)') <= held'
            BY <1>6, <1>7, <1>8
      <2>3. \A b \in Replicas : b # r => IsFiniteSet(Running(b)') /\ Cardinality(Running(b)') <= held'
            BY <1>4, <1>8, FS_EmptySet
      <2> QED BY <1>6, <1>10, <2>1, <2>2, <2>3 DEF Covered
<1> QED BY <1>11, <1>12

\* A replica that stops takes its runs with it, and its connections' lock.
LEMMA StopKeeps ==
    ASSUME LockInv, NEW r \in Replicas, Stop(r)
    PROVE  LockInv'
<1> USE DEF LockInv, LockTypeOK
<1>1. LockTypeOK'
      BY DEF Stop
<1>2. Running(r)' = {}
      BY DEF Stop, Running
<1>3. \A b \in Replicas : b # r => Running(b)' = Running(b)
      BY DEF Stop, Running
<1>4. CASE owner # Nobody /\ owner[1] = r
      <2>1. owner' = Nobody /\ held' = 0
            BY <1>4 DEF Stop
      <2>2. \A b \in Replicas : Running(b)' = {}
            BY <1>2, <1>3, <1>4 DEF Covered
      <2> QED BY <1>1, <2>1, <2>2, FS_EmptySet, SMTT(30) DEF Covered
<1>5. CASE ~(owner # Nobody /\ owner[1] = r)
      <2>1. UNCHANGED <<owner, held>>
            BY <1>5 DEF Stop
      <2> QED BY <1>1, <1>2, <1>3, <2>1, FS_EmptySet DEF Covered
<1> QED BY <1>4, <1>5

\* The lock's invariant holds of every behaviour: whoever runs holds it.
THEOREM LockCovered == LockSpec => []LockInv
<1>1. LockInv /\ [LockNext]_lockVars => LockInv'
      <2> SUFFICES ASSUME LockInv, [LockNext]_lockVars PROVE LockInv'
          OBVIOUS
      <2>1. CASE UNCHANGED lockVars
            BY <2>1 DEF lockVars, LockInv, LockTypeOK, Covered, Running
      <2> QED BY <2>1, StartKeeps, FinishKeeps, StopKeeps DEF LockNext
<1> QED BY <1>1, LockInitial, PTL DEF LockSpec

\* "Keeps multiple API replicas from doing it twice" (payment-reconciler.service.ts:12).
THEOREM OneReplicaRunsCorrect == LockSpec => []OneReplicaRuns
<1>1. LockInv => OneReplicaRuns
      BY DEF LockInv, Covered, OneReplicaRuns
<1> QED BY <1>1, LockCovered, PTL
=============================================================================
