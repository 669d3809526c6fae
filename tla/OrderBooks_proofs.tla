-------------------------- MODULE OrderBooks_proofs -------------------------
(***************************************************************************)
(* The papers of every order, for any orders, requests and clerks: none is *)
(* issued twice, and once its events are handled they follow the order.    *)
(*                                                                         *)
(* First what a run of the issuer adds to a sequence of papers; then the   *)
(* invariant: what the holder of an order's lock read as missing is still  *)
(* missing, and until an event waits it is all that is missing.            *)
(***************************************************************************)
EXTENDS OrderBooks, OrderDesk_proofs, SequenceTheorems

-----------------------------------------------------------------------------
(* The papers of one order, as a sequence.                                 *)

KindOf(P, kind) == {i \in DOMAIN P : P[i].kind = kind}
CreditedIn(P)   == {P[i].of : i \in KindOf(P, "CREDIT_NOTE")}
LiveIn(P)       == KindOf(P, "INVOICE") \ CreditedIn(P)
AtMostOne(S)    == \A x, y \in S : x = y

SoundPapers(P) ==
    /\ AtMostOne(LiveIn(P))
    /\ AtMostOne(KindOf(P, "RECEIPT"))
    /\ \A i \in KindOf(P, "CREDIT_NOTE") :
         /\ P[i].of \in KindOf(P, "INVOICE")
         /\ P[i].of < i
         /\ \A j \in KindOf(P, "CREDIT_NOTE") \ {i} : P[j].of # P[i].of

\* What a transaction is about to add is still missing from these papers.
StillMissing(P, m) ==
    /\ m.invoice => LiveIn(P) = {}
    /\ m.receipt => KindOf(P, "RECEIPT") = {}
    /\ m.credit \subseteq LiveIn(P)

-----------------------------------------------------------------------------
(* What a run of the issuer adds.                                          *)

\* Two papers one after the other are a sequence of two.
LEMMA Joined ==
    ASSUME NEW a \in Paper, NEW b \in Paper
    PROVE  <<a>> \o <<b>> = <<a, b>> /\ <<a>> \o <<>> = <<a>> /\ <<>> \o <<a>> = <<a>>
<1>1. <<a>> \in Seq(Paper) /\ <<b>> \in Seq(Paper) /\ <<a, b>> \in Seq(Paper)
      OBVIOUS
<1>2. /\ <<a>> \o <<b>> \in Seq(Paper) /\ Len(<<a>> \o <<b>>) = 2
      /\ (<<a>> \o <<b>>)[1] = a /\ (<<a>> \o <<b>>)[2] = b
      BY <1>1
<1>3. <<a>> \o <<b>> = <<a, b>>
  <2> DEFINE s == <<a>> \o <<b>>
             t == <<a, b>>
  <2>1. s \in Seq(Paper) /\ t \in Seq(Paper) /\ Len(s) = Len(t) /\ Len(s) = 2
        /\ s[1] = t[1] /\ s[2] = t[2]
        BY <1>1, <1>2
  <2> HIDE DEF s, t
  <2>2. \A i \in 1..Len(s) : s[i] = t[i]
        BY <2>1
  <2>3. s = t
        BY <2>1, <2>2, SeqEqual
  <2> QED BY <2>3 DEF s, t
<1> QED BY <1>1, <1>3, ConcatEmptySeq

\* At most one paper of each kind, and only what was missing.
LEMMA IssuedPapers ==
    ASSUME NEW m, m.credit \subseteq Nat, m.reverse \in BOOLEAN, m.invoice => m.credit = {}
    PROVE  /\ Issued(m) \in Seq(Paper)
           /\ \A i \in DOMAIN Issued(m) : Issued(m)[i].kind \in {"INVOICE", "RECEIPT", "CREDIT_NOTE"}
           /\ \A i, j \in DOMAIN Issued(m) : Issued(m)[i].kind = Issued(m)[j].kind => i = j
           /\ m.invoice <=> KindOf(Issued(m), "INVOICE") # {}
           /\ m.receipt <=> KindOf(Issued(m), "RECEIPT") # {}
           /\ m.credit # {} <=> KindOf(Issued(m), "CREDIT_NOTE") # {}
           /\ \A i \in KindOf(Issued(m), "CREDIT_NOTE") : Issued(m)[i].of \in m.credit
<1> DEFINE x == CHOOSE i \in m.credit : TRUE
           n == CreditNote(x, m.reverse)
<1>1. /\ Invoice \in Paper /\ Invoice.kind = "INVOICE"
      /\ Receipt \in Paper /\ Receipt.kind = "RECEIPT"
      BY DEF Paper, Invoice, Receipt
<1>2. m.credit # {} => x \in m.credit
      OBVIOUS
<1>3. m.credit # {} => n \in Paper /\ n.kind = "CREDIT_NOTE" /\ n.of \in m.credit
  <2> HIDE DEF x
  <2> QED BY <1>2 DEF Paper, CreditNote
<1>4. Issued(m) = (IF m.invoice THEN <<Invoice>> ELSE <<>>) \o (IF m.receipt THEN <<Receipt>> ELSE <<>>)
                   \o (IF m.credit # {} THEN <<n>> ELSE <<>>)
      BY DEF Issued
<1> HIDE DEF n, x
<1>5. CASE m.invoice /\ m.receipt
  <2>1. Issued(m) = (<<Invoice>> \o <<Receipt>>) \o <<>>
        BY <1>4, <1>5
  <2>2. <<Invoice>> \o <<Receipt>> = <<Invoice, Receipt>> /\ <<Invoice, Receipt>> \in Seq(Paper)
        BY <1>1, Joined
  <2>3. Issued(m) = <<Invoice, Receipt>>
        BY <2>1, <2>2, ConcatEmptySeq
  <2> QED BY <1>1, <1>5, <2>3 DEF KindOf
<1>6. CASE m.invoice /\ ~m.receipt
  <2>1. Issued(m) = <<Invoice>>
        BY <1>1, <1>4, <1>6, Joined, ConcatEmptySeq
  <2> QED BY <1>1, <1>6, <2>1 DEF KindOf
<1>7. CASE ~m.invoice /\ m.receipt /\ m.credit # {}
  <2>1. Issued(m) = <<Receipt, n>>
        BY <1>1, <1>3, <1>4, <1>7, Joined
  <2> QED BY <1>1, <1>3, <1>7, <2>1 DEF KindOf
<1>8. CASE ~m.invoice /\ m.receipt /\ m.credit = {}
  <2>1. Issued(m) = <<Receipt>>
        BY <1>1, <1>4, <1>8
  <2> QED BY <1>1, <1>8, <2>1 DEF KindOf
<1>9. CASE ~m.invoice /\ ~m.receipt /\ m.credit # {}
  <2>1. Issued(m) = <<n>>
        BY <1>3, <1>4, <1>9
  <2> QED BY <1>3, <1>9, <2>1 DEF KindOf
<1>10. CASE ~m.invoice /\ ~m.receipt /\ m.credit = {}
  <2>1. Issued(m) = <<>>
        BY <1>4, <1>10
  <2> QED BY <1>10, <2>1 DEF KindOf
<1> QED BY <1>5, <1>6, <1>7, <1>8, <1>9, <1>10

\* Papers of a kind after some are added: the old ones and the new ones.
LEMMA KindsAfter ==
    ASSUME NEW P \in Seq(Paper), NEW t \in Seq(Paper), NEW kind
    PROVE  /\ P \o t \in Seq(Paper)
           /\ KindOf(P \o t, kind) = KindOf(P, kind) \cup {Len(P) + j : j \in KindOf(t, kind)}
           /\ \A i \in KindOf(P, kind) : i \in 1..Len(P) /\ (P \o t)[i] = P[i]
           /\ \A j \in KindOf(t, kind) : j \in 1..Len(t) /\ (P \o t)[Len(P) + j] = t[j]
<1>1. /\ P \o t \in Seq(Paper) /\ Len(P \o t) = Len(P) + Len(t)
      /\ DOMAIN (P \o t) = 1..(Len(P) + Len(t)) /\ DOMAIN P = 1..Len(P) /\ DOMAIN t = 1..Len(t)
      /\ Len(P) \in Nat /\ Len(t) \in Nat
      BY ConcatProperties
<1>2. \A i \in 1..Len(P) : (P \o t)[i] = P[i]
      BY <1>1
<1>3. \A j \in 1..Len(t) : (P \o t)[Len(P) + j] = t[j] /\ Len(P) + j \in 1..(Len(P) + Len(t))
      BY <1>1
<1>4. ASSUME NEW i \in 1..(Len(P) + Len(t)) PROVE i \in 1..Len(P) \/ \E j \in 1..Len(t) : i = Len(P) + j
  <2>1. CASE i > Len(P)
    <3>1. i - Len(P) \in 1..Len(t) /\ i = Len(P) + (i - Len(P))
          BY <1>1, <2>1
    <3> QED BY <3>1
  <2> QED BY <1>1, <2>1
<1> DEFINE Q == P \o t
<1> HIDE DEF Q
<1>5. KindOf(Q, kind) = KindOf(P, kind) \cup {Len(P) + j : j \in KindOf(t, kind)}
  <2>1. ASSUME NEW i \in KindOf(Q, kind) PROVE i \in KindOf(P, kind) \cup {Len(P) + j : j \in KindOf(t, kind)}
    <3>1. i \in 1..(Len(P) + Len(t)) /\ Q[i].kind = kind
          BY <1>1 DEF KindOf, Q
    <3>2. CASE i \in 1..Len(P)
          BY <1>1, <1>2, <3>1, <3>2 DEF KindOf, Q
    <3>3. CASE \E j \in 1..Len(t) : i = Len(P) + j
          BY <1>1, <1>3, <3>1, <3>3 DEF KindOf, Q
    <3> QED BY <1>4, <3>1, <3>2, <3>3
  <2>2. ASSUME NEW i \in KindOf(P, kind) PROVE i \in KindOf(Q, kind)
        BY <1>1, <1>2 DEF KindOf, Q
  <2>3. ASSUME NEW j \in KindOf(t, kind) PROVE Len(P) + j \in KindOf(Q, kind)
        BY <1>1, <1>3 DEF KindOf, Q
  <2> QED BY <2>1, <2>2, <2>3
<1> QED BY <1>1, <1>2, <1>3, <1>5 DEF KindOf, Q

\* A run of the issuer leaves sound papers, if what it read as missing still is:
\* an invoice replaces one that was credited, a note credits the live one.
LEMMA PapersAfter ==
    ASSUME NEW P \in Seq(Paper), SoundPapers(P), NEW m, m.reverse \in BOOLEAN, StillMissing(P, m)
    PROVE  /\ P \o Issued(m) \in Seq(Paper) /\ SoundPapers(P \o Issued(m))
           /\ m.invoice => LiveIn(P \o Issued(m)) # {}
           /\ ~m.invoice => LiveIn(P \o Issued(m)) \subseteq LiveIn(P)
           /\ m.credit = {} => LiveIn(P) \subseteq LiveIn(P \o Issued(m))
           /\ m.credit # {} => LiveIn(P \o Issued(m)) = {}
           /\ m.receipt \/ KindOf(P, "RECEIPT") # {} => KindOf(P \o Issued(m), "RECEIPT") # {}
<1> DEFINE t == Issued(m)
           Q == P \o t
           n == Len(P)
           Inv == KindOf(P, "INVOICE")
           Cre == KindOf(P, "CREDIT_NOTE")
           Rec == KindOf(P, "RECEIPT")
           tInv == KindOf(t, "INVOICE")
           tCre == KindOf(t, "CREDIT_NOTE")
           tRec == KindOf(t, "RECEIPT")
<1>1. Inv \subseteq 1..n /\ Cre \subseteq 1..n /\ Rec \subseteq 1..n /\ n \in Nat
      BY LenProperties DEF KindOf
<1>2. m.credit \subseteq LiveIn(P) /\ LiveIn(P) \subseteq Inv /\ m.credit \subseteq Nat
      BY <1>1 DEF StillMissing, LiveIn
<1>3. m.invoice => m.credit = {}
      BY <1>2 DEF StillMissing
<1>4. /\ t \in Seq(Paper)
      /\ \A i, j \in DOMAIN t : t[i].kind = t[j].kind => i = j
      /\ (m.invoice <=> tInv # {}) /\ (m.receipt <=> tRec # {}) /\ (m.credit # {} <=> tCre # {})
      /\ \A j \in tCre : t[j].of \in m.credit
      BY <1>2, <1>3, IssuedPapers
<1>5. AtMostOne(tInv) /\ AtMostOne(tCre) /\ AtMostOne(tRec)
      BY <1>4 DEF AtMostOne, KindOf
<1>6. Q \in Seq(Paper)
      BY <1>4, KindsAfter
<1>7. /\ KindOf(Q, "INVOICE") = Inv \cup {n + j : j \in tInv}
      /\ KindOf(Q, "CREDIT_NOTE") = Cre \cup {n + j : j \in tCre}
      /\ KindOf(Q, "RECEIPT") = Rec \cup {n + j : j \in tRec}
      BY <1>4, KindsAfter
<1>8. /\ \A i \in Cre : Q[i].of = P[i].of
      /\ \A j \in tCre : Q[n + j].of = t[j].of
      BY <1>4, KindsAfter
<1>9. \A j \in tInv \cup tCre \cup tRec : j \in Nat /\ n + j \in Nat /\ n + j > n
  <2>1. DOMAIN t = 1..Len(t) /\ Len(t) \in Nat
        BY <1>4, LenProperties
  <2>2. \A j \in tInv \cup tCre \cup tRec : j \in 1..Len(t)
        BY <2>1 DEF KindOf
  <2> QED BY <1>1, <2>1, <2>2
<1>10. CreditedIn(Q) = CreditedIn(P) \cup {t[j].of : j \in tCre}
      <2>1. CreditedIn(Q) = {Q[i].of : i \in Cre \cup {n + j : j \in tCre}}
            BY <1>7 DEF CreditedIn
      <2>2. CreditedIn(P) = {P[i].of : i \in Cre}
            BY DEF CreditedIn
      <2> HIDE DEF Q, t, Cre, tCre, n
      <2> QED BY <1>8, <2>1, <2>2
<1>11. CreditedIn(P) \subseteq Inv /\ CreditedIn(P) \cap LiveIn(P) = {}
      BY DEF SoundPapers, CreditedIn, LiveIn
<1>12. LiveIn(Q) = (Inv \cup {n + j : j \in tInv}) \ CreditedIn(Q) /\ LiveIn(P) = Inv \ CreditedIn(P)
      BY <1>7 DEF LiveIn
<1>13. /\ AtMostOne(LiveIn(P)) /\ AtMostOne(Rec)
       /\ \A i \in Cre : /\ P[i].of \in Inv /\ P[i].of < i
                         /\ \A j \in Cre \ {i} : P[j].of # P[i].of
      BY DEF SoundPapers
<1>14. (m.invoice => LiveIn(P) = {}) /\ (m.receipt => Rec = {})
      BY DEF StillMissing
<1>15. \A i \in Cre : P[i].of \in CreditedIn(P)
      BY DEF CreditedIn
<1> HIDE DEF Q, t, n, Inv, Cre, Rec, tInv, tCre, tRec
<1>16. \A i \in CreditedIn(Q) : i \in Inv
      BY <1>2, <1>4, <1>10, <1>11
<1>17. \A j \in tInv : n + j \in LiveIn(Q)
      <2> SUFFICES ASSUME NEW j \in tInv, n + j \in CreditedIn(Q) PROVE FALSE
          BY <1>12
      <2>1. n + j \in 1..n
            BY <1>1, <1>16
      <2> QED BY <1>1, <1>9, <2>1
<1>18. m.credit = {} => LiveIn(P) \subseteq LiveIn(Q)
      <2>1. m.credit = {} => CreditedIn(Q) = CreditedIn(P)
            BY <1>4, <1>10
      <2> QED BY <2>1, <1>12
<1>19. m.credit # {} => LiveIn(Q) = {}
      <2> SUFFICES ASSUME m.credit # {} PROVE LiveIn(Q) = {}
          OBVIOUS
      <2>1. PICK j \in tCre : t[j].of \in m.credit
            BY <1>4
      <2>2. \A i \in LiveIn(P) : i = t[j].of
            BY <1>2, <1>13, <2>1 DEF AtMostOne
      <2>3. tInv = {}
            BY <1>3, <1>4
      <2> QED BY <1>10, <1>12, <2>2, <2>3
<1>26. ~m.invoice => LiveIn(Q) \subseteq LiveIn(P)
      BY <1>4, <1>10, <1>12
<1>20. AtMostOne(LiveIn(Q))
  <2>1. CASE m.invoice
    <3>1. Inv \subseteq CreditedIn(Q)
          BY <1>10, <1>12, <1>14, <2>1
    <3>2. LiveIn(Q) \subseteq {n + j : j \in tInv}
          BY <1>12, <3>1
    <3> QED BY <1>5, <3>2 DEF AtMostOne
  <2>2. CASE ~m.invoice
        BY <1>13, <1>26, <2>2 DEF AtMostOne
  <2> QED BY <2>1, <2>2
<1>21. AtMostOne(KindOf(Q, "RECEIPT"))
  <2>1. CASE m.receipt
        BY <1>5, <1>7, <1>14, <2>1 DEF AtMostOne
  <2>2. CASE ~m.receipt
        BY <1>4, <1>7, <1>13, <2>2, ZenonT(40)
  <2> QED BY <2>1, <2>2
<1>22. ASSUME NEW i \in KindOf(Q, "CREDIT_NOTE")
       PROVE  /\ Q[i].of \in KindOf(Q, "INVOICE") /\ Q[i].of < i
              /\ \A j \in KindOf(Q, "CREDIT_NOTE") \ {i} : Q[j].of # Q[i].of
  <2>1. CASE i \in Cre
    <3>1. Q[i].of = P[i].of /\ P[i].of \in Inv /\ P[i].of < i /\ P[i].of \in CreditedIn(P)
          BY <1>8, <1>13, <1>15, <2>1
    <3>2. ASSUME NEW j \in KindOf(Q, "CREDIT_NOTE") \ {i} PROVE Q[j].of # Q[i].of
      <4>1. CASE j \in Cre
            BY <1>8, <1>13, <2>1, <4>1
      <4>2. CASE \E x \in tCre : j = n + x
            BY <1>2, <1>4, <1>8, <1>11, <3>1, <4>2
      <4> QED BY <1>7, <4>1, <4>2
    <3> QED BY <1>7, <3>1, <3>2
  <2>2. CASE \E x \in tCre : i = n + x
    <3>1. PICK x \in tCre : i = n + x
          BY <2>2
    <3>2. Q[i].of \in m.credit /\ Q[i].of \in LiveIn(P) /\ Q[i].of \in Inv
          BY <1>2, <1>4, <1>8, <3>1
    <3>3. Q[i].of < i
      <4> DEFINE ref == Q[i].of
      <4>1. ref \in 1..n
            BY <1>1, <3>2
      <4>2. i \in Nat /\ i > n
            BY <1>9, <3>1
      <4> HIDE DEF ref
      <4>3. ref < i
            BY <1>1, <4>1, <4>2
      <4> QED BY <4>3 DEF ref
    <3>4. ASSUME NEW j \in KindOf(Q, "CREDIT_NOTE") \ {i} PROVE Q[j].of # Q[i].of
      <4>1. CASE j \in Cre
            BY <1>8, <1>11, <1>15, <3>2, <4>1
      <4>2. CASE \E y \in tCre : j = n + y
            BY <1>5, <3>1, <4>2 DEF AtMostOne
      <4> QED BY <1>7, <4>1, <4>2
    <3> QED BY <1>7, <3>2, <3>3, <3>4
  <2> QED BY <1>7, <2>1, <2>2
<1>23. SoundPapers(Q)
      BY <1>20, <1>21, <1>22 DEF SoundPapers
<1>24. m.invoice => LiveIn(Q) # {}
      BY <1>4, <1>17
<1>25. m.receipt \/ Rec # {} => KindOf(Q, "RECEIPT") # {}
  <2>1. CASE m.receipt
    <3>1. PICK j \in tRec : TRUE
          BY <1>4, <2>1
    <3> QED BY <1>7, <3>1
  <2>2. CASE Rec # {}
        BY <1>7, <2>2
  <2> QED BY <2>1, <2>2
<1> QED BY <1>6, <1>18, <1>19, <1>23, <1>24, <1>25, <1>26 DEF Q, t, Rec

-----------------------------------------------------------------------------
(* What a step of the desk may do to an order.                             *)

\* A placed order stays one, keeps its method and what it was paid; any other
\* comes out of the step pending, if at all.
RowFollows(old, new) ==
    IF old.status = "UNPLACED" THEN new.status \in {"UNPLACED", "PENDING"}
    ELSE /\ new.status # "UNPLACED"
         /\ new.method = old.method
         /\ old.payment # "UNPAID" => new.payment # "UNPAID"
         /\ old.payment = "UNPAID" => new.payment \in {"UNPAID", "PAID"}

\* A request writes the row of a placed order, or none.
LEMMA SessionFollows ==
    ASSUME TypeOK, Control, NEW s \in Sessions, SessionStep(s), NEW x \in Orders
    PROVE  RowFollows(orders[x], orders'[x])
<1>0. \A o \in Orders : orders[o] \in Row
      BY DEF TypeOK
<1>1. CASE UNCHANGED orders
      BY <1>1 DEF RowFollows
<1>2. ASSUME NEW o \in Orders, NEW row, orders' = [orders EXCEPT ![o] = row], RowFollows(orders[o], row)
      PROVE  RowFollows(orders[x], orders'[x])
      BY <1>2 DEF RowFollows, TypeOK
<1>3. ASSUME NEW old \in Row, old.status # "UNPLACED", NEW plan \in Plan
      PROVE  RowFollows(old, Written(old, plan))
  <2>1. plan.to # "UNPLACED"
        BY DEF Plan, Status, Open, Terminal
  <2> QED BY <1>3, <2>1, WrittenFields DEF RowFollows
<1>4. ASSUME NEW old \in Row, old.status # "UNPLACED"
      PROVE  /\ RowFollows(old, Paid(old)) /\ Paid(old) \in Row /\ Paid(old).status # "UNPLACED"
             /\ Paid(old).payment = "PAID" /\ Paid(old).method = old.method
      BY <1>4, PaidType DEF RowFollows, Paid, Row
<1>5. CASE WritePlanned(s)
  <2> DEFINE o == work[s].order
             plan == work[s].plan
  <2>1. o \in Orders /\ plan \in Plan
        BY <1>5, PlannedType DEF WritePlanned
  <2>2. orders[o].status # "UNPLACED"
        BY <1>5 DEF WritePlanned, Control, PlansFresh, Fresh, Placed
  <2>3. orders' = [orders EXCEPT ![o] = Written(orders[o], plan)]
        BY <1>5 DEF WritePlanned
  <2> HIDE DEF o, plan
  <2> QED BY <1>0, <1>2, <1>3, <2>1, <2>2, <2>3
<1>6. CASE WriteMarkPaid(s)
  <2> DEFINE o == work[s].order
  <2>1. o \in Orders /\ orders[o].status # "UNPLACED"
        BY <1>6 DEF WriteMarkPaid, TypeOK, Work, Idle, Control, PlansFresh, Fresh, Placed
  <2>2. orders' = [orders EXCEPT ![o] = Paid(orders[o])] \/ orders' = orders
        BY <1>6 DEF WriteMarkPaid
  <2> HIDE DEF o
  <2> QED BY <1>0, <1>1, <1>2, <1>4, <2>1, <2>2
<1>7. CASE WriteCapture(s)
  <2> DEFINE o == work[s].order
             paid == Paid(orders[o])
             plan == TransitionPlan(paid, GatewayConfirm)
  <2>1. o \in Orders /\ orders[o].status # "UNPLACED"
        BY <1>7 DEF WriteCapture, TypeOK, Work, Idle, Control, PlansFresh, Fresh, Placed
  <2>2. \/ orders' = [orders EXCEPT ![o] = paid]
        \/ orders' = [orders EXCEPT ![o] = Written(paid, plan)]
        \/ orders' = [orders EXCEPT ![o] = orders[o]]
        BY <1>7 DEF WriteCapture
  <2>3. RowFollows(orders[o], paid) /\ paid \in Row /\ paid.status # "UNPLACED" /\ paid.payment = "PAID"
        BY <1>0, <1>4, <2>1
  <2>4. plan \in Plan
        BY <2>3, RequestTypes, TransitionPlanType
  <2>5. RowFollows(paid, Written(paid, plan))
        BY <1>3, <2>3, <2>4
  <2>6. Written(paid, plan).payment = "PAID"
        BY <2>3, WrittenFields
  <2>7. RowFollows(orders[o], Written(paid, plan)) /\ RowFollows(orders[o], orders[o])
    <3> HIDE DEF o, paid, plan
    <3> QED BY <2>1, <2>3, <2>5, <2>6 DEF RowFollows
  <2> HIDE DEF o, paid, plan
  <2> QED BY <1>2, <2>1, <2>2, <2>3, <2>7
<1>8. \/ UNCHANGED orders
      \/ WritePlanned(s) \/ WriteMarkPaid(s) \/ WriteCapture(s)
      BY DEF SessionStep, ReadTransition, ReadReopen, ReadMarkPaid, ReadCapture, DecideAutoCancel,
             ReadAutoCancel, RollBackPlanned
<1> QED BY <1>1, <1>5, <1>6, <1>7, <1>8

\* A step of the desk keeps types and plans, and moves rows in this way only.
LEMMA DeskFollows ==
    ASSUME TypeOK, Control, DeskStep
    PROVE  TypeOK' /\ Control' /\ \A x \in Orders : RowFollows(orders[x], orders'[x])
<1>1. CASE \E s \in Sessions : SessionStep(s)
      BY <1>1, SessionType, ControlSession, SessionFollows
<1>2. ASSUME NEW o \in Orders, Place(o) PROVE TypeOK' /\ Control' /\ \A x \in Orders : RowFollows(orders[x], orders'[x])
  <2> DEFINE row == [NoRow(o) EXCEPT !.status = "PENDING", !.held = TRUE]
  <2>1. orders' = [orders EXCEPT ![o] = row] /\ orders[o].status = "UNPLACED"
        BY <1>2 DEF Place
  <2>2. row.status = "PENDING"
        BY DEF NoRow
  <2> HIDE DEF row
  <2>3. \A x \in Orders : RowFollows(orders[x], orders'[x])
        BY <2>1, <2>2 DEF RowFollows, TypeOK
  <2> QED BY <1>2, <2>3, PlaceType, ControlPlace
<1> QED BY <1>1, <1>2 DEF DeskStep

\* An event is owed for every move of a placed order and for every payment.
LEMMA EventsOwed ==
    ASSUME NEW o \in Orders
    PROVE  /\ EventsOf(o) \in Nat
           /\ EventsOf(o) = 0 => ~(o \in Moved /\ Placed(o)) /\ o \notin PaidNow
<1> DEFINE Due(e) ==
        \/ e = "status" /\ o \in Moved /\ Placed(o)
        \/ e = "paid" /\ o \in PaidNow
        \/ e = "captured" /\ \E s \in Sessions : /\ Free(s)
                                                 /\ work'[s].pc = "capturing"
                                                 /\ work'[s].order = o
           E == {e \in {"status", "paid", "captured"} : Due(e)}
<1>1. EventsOf(o) = Cardinality(E)
      BY DEF EventsOf
<1>2. ("status" \in E <=> o \in Moved /\ Placed(o)) /\ ("paid" \in E <=> o \in PaidNow)
      OBVIOUS
<1>3. E \subseteq {"status", "paid", "captured"}
      OBVIOUS
<1> HIDE DEF E
<1>4. IsFiniteSet({"status", "paid", "captured"})
  <2>1. IsFiniteSet({"status"}) /\ IsFiniteSet({"paid"}) /\ IsFiniteSet({"captured"})
        BY FS_Singleton
  <2>2. IsFiniteSet({"status"} \cup {"paid"})
        BY <2>1, FS_Union
  <2>3. IsFiniteSet(({"status"} \cup {"paid"}) \cup {"captured"})
        BY <2>1, <2>2, FS_Union
  <2>4. ({"status"} \cup {"paid"}) \cup {"captured"} = {"status", "paid", "captured"}
        OBVIOUS
  <2> QED BY <2>3, <2>4
<1>5. IsFiniteSet(E)
      BY <1>3, <1>4, FS_Subset
<1>6. Cardinality(E) \in Nat /\ (Cardinality(E) = 0 => E = {})
      BY <1>5, FS_CardinalityType, FS_EmptySet
<1> QED BY <1>1, <1>2, <1>6

-----------------------------------------------------------------------------
(* The invariant.                                                          *)

PaperTypes ==
    /\ papers = [o \in Orders |-> papers[o]] /\ \A o \in Orders : papers[o] \in Seq(Paper)
    /\ cod \in [Orders -> 0..1] /\ courier \in [Orders -> 0..1]
    /\ owed \in [Orders -> Nat]

Job(k, job) == clerk[k].job = job
Busy(k, o)  == clerk[k] # Off /\ clerk[k].order = o

\* One transaction at a time holds the lock of an order, a placed one.
Clerical ==
    /\ clerk = [k \in Clerks |-> clerk[k]]
    /\ \A k \in Clerks :
         clerk[k] = Off \/ (clerk[k].order \in Orders /\ clerk[k].job \in {"sync", "remit", "courier"})
    /\ \A o \in Orders, k \in Clerks : Busy(k, o) => Placed(o)
    /\ \A o \in Orders : \A k, l \in Clerks : Busy(k, o) /\ Busy(l, o) => k = l

\* What the holder of the lock has read as missing, still is.
JobSound(k, o) ==
    /\ Job(k, "sync") => /\ StillMissing(papers[o], clerk[k].missing)
                         /\ clerk[k].missing.reverse \in BOOLEAN
                         /\ clerk[k].missing.cashIn => cod[o] = 0
    /\ Job(k, "remit") /\ ~clerk[k].booked => cod[o] = 0
    /\ Job(k, "courier") => courier[o] = 0

Books ==
    /\ \A o \in Orders : SoundPapers(papers[o])
    /\ \A k \in Clerks, o \in Orders : Busy(k, o) => JobSound(k, o)

\* No event of the order waits: its papers follow it, or will when the one
\* that brings them up to date writes what it has read.
Followed(o) ==
    \/ \E k \in Clerks : Busy(k, o) /\ Job(k, "sync") /\ clerk[k].missing = Missing(o)
    \/ UpToDate(o) /\ \A k \in Clerks : Busy(k, o) => ~Job(k, "sync")

Following == \A o \in Orders : owed[o] = 0 /\ o \notin behind => Followed(o)

DeskSound == TypeOK /\ Control
BooksInv == DeskSound /\ PaperTypes /\ Clerical /\ Books /\ Following

\* The issuer sees no difference in the order, its papers and its cash.
SameToBooks(o) ==
    /\ orders'[o].status = orders[o].status /\ orders'[o].method = orders[o].method
    /\ orders'[o].payment # "UNPAID" <=> orders[o].payment # "UNPAID"
    /\ cancelledFrom'[o] = cancelledFrom[o] /\ papers'[o] = papers[o] /\ cod'[o] = cod[o]

\* What planBooks computes, from what it reads.
MissingFrom(status, prepaid, paid, invoices, receipts, back, entries) ==
    LET live    == status \in Live
        moneyIn == paid \/ (~prepaid /\ status = "DELIVERED")
        receipt == live /\ moneyIn /\ receipts = {}
    IN  [invoice |-> live /\ invoices = {},
         receipt |-> receipt,
         credit  |-> {i \in invoices : status \in Dead /\ \A j \in invoices : j <= i},
         reverse |-> back,
         cashIn  |-> ~prepaid /\ live /\ (receipt \/ receipts # {}) /\ entries = 0]

\* Then it would find the same missing, and the same up to date.
LEMMA ReadsSame ==
    ASSUME NEW o, SameToBooks(o)
    PROVE  Missing(o)' = Missing(o) /\ (UpToDate(o)' <=> UpToDate(o))
<1>1. \A kind : OfKind(o, kind)' = OfKind(o, kind)
      BY DEF SameToBooks, OfKind
<1>2. LiveInvoices(o)' = LiveInvoices(o)
      BY <1>1 DEF SameToBooks, LiveInvoices, Credited
<1>3. ReverseCourier(o)' = ReverseCourier(o)
      BY DEF SameToBooks, ReverseCourier
<1>4. UpToDate(o)' <=> UpToDate(o)
      BY <1>1, <1>2 DEF SameToBooks, UpToDate
<1>5. Missing(o)' = Missing(o)
  <2> DEFINE M(row, inv, rec, back, n) ==
               MissingFrom(row.status, row.method \in Prepaid, row.payment # "UNPAID", inv, rec, back, n)
  <2>1. Missing(o) = M(orders[o], LiveInvoices(o), OfKind(o, "RECEIPT"), ReverseCourier(o), cod[o])
        BY DEF Missing, MissingIf, MissingFrom
  <2>2. Missing(o)' = M(orders'[o], LiveInvoices(o)', OfKind(o, "RECEIPT")', ReverseCourier(o)', cod'[o])
        BY DEF Missing, MissingIf, MissingFrom
  <2>3. (orders'[o].payment # "UNPAID") = (orders[o].payment # "UNPAID")
        BY DEF SameToBooks
  <2>4. M(orders'[o], LiveInvoices(o), OfKind(o, "RECEIPT"), ReverseCourier(o), cod[o])
          = M(orders[o], LiveInvoices(o), OfKind(o, "RECEIPT"), ReverseCourier(o), cod[o])
        BY <2>3 DEF SameToBooks
  <2>5. M(orders'[o], LiveInvoices(o)', OfKind(o, "RECEIPT")', ReverseCourier(o)', cod'[o])
          = M(orders'[o], LiveInvoices(o), OfKind(o, "RECEIPT"), ReverseCourier(o), cod[o])
        BY <1>1, <1>2, <1>3 DEF SameToBooks
  <2> HIDE DEF M
  <2> QED BY <2>1, <2>2, <2>4, <2>5
<1> QED BY <1>4, <1>5

\* No order is placed, no paper issued and no lock taken at the start.
LEMMA BooksInitial == BooksInit => BooksInv
<1> SUFFICES ASSUME BooksInit PROVE BooksInv
    OBVIOUS
<1>1. DeskSound
      BY TypeInit, ControlInit DEF BooksInit, DeskSound
<1>2. \A o \in Orders : orders[o].status = "UNPLACED" /\ papers[o] = <<>>
      BY DEF BooksInit, Init, NoRow
<1>3. PaperTypes
      BY DEF BooksInit, PaperTypes
<1>4. \A k \in Clerks : clerk[k] = Off
      BY DEF BooksInit
<1>5. Clerical
      BY <1>4 DEF BooksInit, Clerical, Busy
<1>6. \A o \in Orders : SoundPapers(papers[o])
      BY <1>2 DEF SoundPapers, KindOf, LiveIn, AtMostOne
<1>7. Books
      BY <1>4, <1>6 DEF Books, Busy
<1>8. \A o \in Orders : UpToDate(o)
      BY <1>2 DEF UpToDate, Live, Dead
<1>9. Following
      BY <1>4, <1>8 DEF Following, Followed, Busy
<1> QED BY <1>1, <1>3, <1>5, <1>7, <1>9 DEF BooksInv

\* The desk moves orders: whatever the issuer would notice is told in an event.
LEMMA DeskBooksStep ==
    ASSUME BooksInv, DeskWithEvents
    PROVE  BooksInv'
<1>1. /\ DeskSound' /\ \A o \in Orders : RowFollows(orders[o], orders'[o])
      /\ UNCHANGED <<papers, cod, courier, clerk, behind>>
      /\ \A o \in Orders : o \notin Moved => cancelledFrom'[o] = cancelledFrom[o]
      BY DeskFollows DEF DeskWithEvents, BooksInv, DeskSound
<1>2. owed' \in [Orders -> Nat]
      BY EventsOwed DEF DeskWithEvents, BooksInv, PaperTypes
<1>3. \A o \in Orders : Placed(o) => Placed(o)'
      BY <1>1 DEF RowFollows, Placed
<1>4. \A o \in Orders : owed'[o] = 0 => owed[o] = 0 /\ EventsOf(o) = 0
  <2> SUFFICES ASSUME NEW o \in Orders, owed'[o] = 0 PROVE owed[o] = 0 /\ EventsOf(o) = 0
      OBVIOUS
  <2>1. owed'[o] = owed[o] + EventsOf(o)
        BY DEF DeskWithEvents
  <2>2. owed[o] \in Nat /\ EventsOf(o) \in Nat
        BY EventsOwed DEF BooksInv, PaperTypes
  <2> QED BY <2>1, <2>2
<1>5. PaperTypes' /\ Clerical' /\ Books'
      BY <1>1, <1>2, <1>3 DEF BooksInv, PaperTypes, Clerical, Books, Busy, Job, JobSound
<1>6. ASSUME NEW o \in Orders, owed'[o] = 0, o \notin behind PROVE Followed(o)'
  <2>1. Followed(o) /\ ~(o \in Moved /\ Placed(o)) /\ o \notin PaidNow
        BY <1>4, <1>6, EventsOwed DEF BooksInv, Following
  <2>2. CASE Placed(o)
    <3>1. SameToBooks(o)
          BY <1>1, <2>1, <2>2 DEF SameToBooks, RowFollows, Placed, Moved, PaidNow
    <3> QED BY <1>1, <2>1, <3>1, ReadsSame DEF Followed, Busy, Job
  <2>3. CASE ~Placed(o)
    <3>1. \A k \in Clerks : ~Busy(k, o)
          BY <2>3 DEF BooksInv, Clerical
    <3>2. orders'[o].status \in {"UNPLACED", "PENDING"}
          BY <1>1, <2>3 DEF RowFollows, Placed
    <3>3. UpToDate(o)'
          BY <3>2 DEF UpToDate, Live, Dead
    <3> QED BY <1>1, <3>1, <3>3 DEF Followed, Busy
  <2> QED BY <2>2, <2>3
<1> QED BY <1>1, <1>5, <1>6 DEF BooksInv, Following

\* A step of the books leaves the desk as it is.
LEMMA DeskSame == DeskSound /\ UNCHANGED vars => DeskSound'
BY ControlSame DEF DeskSound, vars, TypeOK, stock, coupons

\* An order nobody else's step is about is followed as before.
LEMMA Untouched ==
    ASSUME NEW x \in Orders, Followed(x), UNCHANGED <<orders, cancelledFrom>>,
           papers'[x] = papers[x], cod'[x] = cod[x],
           \A l \in Clerks : (Busy(l, x)' <=> Busy(l, x)) /\ (Busy(l, x) => clerk'[l] = clerk[l])
    PROVE  Followed(x)'
<1>1. SameToBooks(x)
      BY DEF SameToBooks
<1> QED BY <1>1, ReadsSame DEF Followed, Job

\* A transaction takes the lock of a placed order: it is the only one there.
LEMMA Taken ==
    ASSUME Clerical, NEW k \in Clerks, NEW o \in Orders, Take(k, o), Placed(o), UNCHANGED orders,
           NEW v, v.order = o, v.job \in {"sync", "remit", "courier"}, clerk' = [clerk EXCEPT ![k] = v]
    PROVE  /\ Clerical'
           /\ clerk'[k] = v /\ \A l \in Clerks \ {k} : clerk'[l] = clerk[l]
           /\ \A l \in Clerks, x \in Orders : Busy(l, x)' <=> IF l = k THEN x = o ELSE Busy(l, x)
           /\ \A l \in Clerks : ~Busy(l, o)
           /\ \A x \in Orders : ~Busy(k, x)
<1>1. v # Off
      BY DEF Off
<1>2. clerk' = [l \in Clerks |-> clerk'[l]] /\ \A l \in Clerks : clerk'[l] = IF l = k THEN v ELSE clerk[l]
      BY DEF Clerical
<1>3. clerk[k] = Off /\ \A l \in Clerks : ~Busy(l, o)
      BY DEF Take, Locked, Busy
<1>4. \A l \in Clerks, x \in Orders : Busy(l, x)' <=> IF l = k THEN x = o ELSE Busy(l, x)
      BY <1>1, <1>2 DEF Busy
<1>5. Clerical'
  <2>1. \A l \in Clerks :
          clerk'[l] = Off \/ (clerk'[l].order \in Orders /\ clerk'[l].job \in {"sync", "remit", "courier"})
        BY <1>2 DEF Clerical
  <2>2. \A x \in Orders, l \in Clerks : Busy(l, x)' => Placed(x)'
        BY <1>4 DEF Clerical, Placed
  <2>3. \A x \in Orders : \A l, j \in Clerks : Busy(l, x)' /\ Busy(j, x)' => l = j
        BY <1>3, <1>4 DEF Clerical
  <2> QED BY <1>2, <2>1, <2>2, <2>3 DEF Clerical
<1> QED BY <1>2, <1>3, <1>4, <1>5 DEF Busy

\* It ends, and lets go of the lock.
LEMMA Released ==
    ASSUME Clerical, NEW k \in Clerks, UNCHANGED orders, clerk' = [clerk EXCEPT ![k] = Off]
    PROVE  /\ Clerical'
           /\ \A l \in Clerks \ {k} : clerk'[l] = clerk[l]
           /\ \A l \in Clerks, x \in Orders : Busy(l, x)' <=> l # k /\ Busy(l, x)
<1>1. clerk' = [l \in Clerks |-> clerk'[l]] /\ \A l \in Clerks : clerk'[l] = IF l = k THEN Off ELSE clerk[l]
      BY DEF Clerical
<1>2. \A l \in Clerks, x \in Orders : Busy(l, x)' <=> l # k /\ Busy(l, x)
      BY <1>1 DEF Busy
<1>3. Clerical'
  <2>1. \A l \in Clerks :
          clerk'[l] = Off \/ (clerk'[l].order \in Orders /\ clerk'[l].job \in {"sync", "remit", "courier"})
        BY <1>1 DEF Clerical
  <2>2. \A x \in Orders, l \in Clerks : Busy(l, x)' => Placed(x)'
        BY <1>2 DEF Clerical, Placed
  <2>3. \A x \in Orders : \A l, j \in Clerks : Busy(l, x)' /\ Busy(j, x)' => l = j
        BY <1>2 DEF Clerical
  <2> QED BY <1>1, <2>1, <2>2, <2>3 DEF Clerical
<1> QED BY <1>1, <1>2, <1>3

\* The issuer reads: what it finds missing is what is missing now.
LEMMA ReadBooksStep ==
    ASSUME BooksInv, NEW k \in Clerks, NEW o \in Orders, ReadBooks(k, o),
           UNCHANGED <<vars, cancelledFrom, papers, cod, courier, behind>>,
           owed' \in [Orders -> Nat], \A x \in Orders \ {o} : owed'[x] = owed[x]
    PROVE  BooksInv'
<1> DEFINE v == [job |-> "sync", order |-> o, missing |-> Missing(o)]
<1>1. v.order = o /\ v.job = "sync" /\ v.missing = Missing(o)
      OBVIOUS
<1>2. Take(k, o) /\ Placed(o) /\ clerk' = [clerk EXCEPT ![k] = v]
      BY DEF ReadBooks
<1>3. UNCHANGED orders /\ DeskSound'
      BY DeskSame DEF vars, BooksInv
<1>0. Clerical /\ v.order = o /\ v.job \in {"sync", "remit", "courier"} /\ UNCHANGED orders
      BY <1>1, <1>3 DEF BooksInv
<1> HIDE DEF v
<1>4. /\ Clerical'
      /\ clerk'[k] = v /\ \A l \in Clerks \ {k} : clerk'[l] = clerk[l]
      /\ \A l \in Clerks, x \in Orders : Busy(l, x)' <=> IF l = k THEN x = o ELSE Busy(l, x)
      /\ \A l \in Clerks : ~Busy(l, o)
      /\ \A x \in Orders : ~Busy(k, x)
  <2> HIDE DEF v, Clerical, Take, Placed, Busy
  <2> QED BY ONLY <1>0, <1>2, Taken, k \in Clerks, o \in Orders, ZenonT(40)
<1>5. /\ StillMissing(papers[o], Missing(o)) /\ Missing(o).reverse \in BOOLEAN
      /\ Missing(o).cashIn => cod[o] = 0
      BY DEF StillMissing, Missing, MissingIf, ReverseCourier, LiveInvoices, Credited, OfKind,
             LiveIn, CreditedIn, KindOf
<1>6. JobSound(k, o)'
      BY <1>1, <1>4, <1>5 DEF JobSound, Job
<1>7. \A l \in Clerks, x \in Orders : Busy(l, x)' => JobSound(l, x)'
  <2> SUFFICES ASSUME NEW l \in Clerks, NEW x \in Orders, Busy(l, x)' PROVE JobSound(l, x)'
      OBVIOUS
  <2>1. CASE l = k
        BY <1>4, <1>6, <2>1
  <2>2. CASE l # k
    <3>1. JobSound(l, x) /\ clerk'[l] = clerk[l]
          BY <1>4, <2>2 DEF BooksInv, Books
    <3> QED BY <3>1 DEF JobSound, Job
  <2> QED BY <2>1, <2>2
<1>8. Missing(o)' = Missing(o)
      BY <1>3, ReadsSame DEF SameToBooks
<1>9. Followed(o)'
      BY <1>1, <1>4, <1>8 DEF Followed, Job
<1>10. ASSUME NEW x \in Orders, owed'[x] = 0, x \notin behind PROVE Followed(x)'
  <2>1. CASE x # o
    <3>1. Followed(x)
          BY <1>10, <2>1 DEF BooksInv, Following
    <3> QED BY <1>3, <1>4, <2>1, <3>1, Untouched
  <2> QED BY <1>9, <2>1
<1> QED BY <1>3, <1>4, <1>7, <1>10 DEF BooksInv, PaperTypes, Books, Following

\* The cashbook reads whether an entry stands: none is made while it holds the lock.
LEMMA ReadCashStep ==
    ASSUME BooksInv, NEW k \in Clerks, NEW o \in Orders, ReadCash(k, o)
    PROVE  BooksInv'
<1> DEFINE r == [job |-> "remit", order |-> o, booked |-> cod[o] > 0]
           c == [job |-> "courier", order |-> o]
<1>1. /\ Take(k, o) /\ Placed(o) /\ UNCHANGED <<vars, cancelledFrom, papers, cod, courier, owed, behind>>
      /\ \/ clerk' = [clerk EXCEPT ![k] = r]
         \/ courier[o] = 0 /\ clerk' = [clerk EXCEPT ![k] = c]
      BY DEF ReadCash
<1>2. UNCHANGED orders /\ DeskSound' /\ Clerical
      BY <1>1, DeskSame DEF vars, BooksInv
<1>3. /\ r.order = o /\ r.job = "remit" /\ (~r.booked => cod[o] = 0)
      /\ c.order = o /\ c.job = "courier"
  <2>1. cod[o] \in 0..1
        BY DEF BooksInv, PaperTypes
  <2>2. CASE cod[o] > 0
        BY <2>1, <2>2
  <2>3. CASE ~(cod[o] > 0)
        BY <2>1, <2>3
  <2> QED BY <2>2, <2>3
<1> HIDE DEF r, c
<1>4. PICK v : /\ clerk' = [clerk EXCEPT ![k] = v] /\ v.order = o
               /\ \/ v.job = "remit" /\ (~v.booked => cod[o] = 0)
                  \/ v.job = "courier" /\ courier[o] = 0
      BY <1>1, <1>3
<1>5. v.order = o /\ v.job \in {"sync", "remit", "courier"} /\ UNCHANGED orders
      BY <1>2, <1>4
<1>6. /\ Clerical'
      /\ clerk'[k] = v /\ \A l \in Clerks \ {k} : clerk'[l] = clerk[l]
      /\ \A l \in Clerks, x \in Orders : Busy(l, x)' <=> IF l = k THEN x = o ELSE Busy(l, x)
      /\ \A l \in Clerks : ~Busy(l, o)
      /\ \A x \in Orders : ~Busy(k, x)
  <2> HIDE DEF Clerical, Take, Placed, Busy
  <2> QED BY ONLY <1>1, <1>2, <1>4, <1>5, Taken, k \in Clerks, o \in Orders
<1>7. JobSound(k, o)'
      BY <1>1, <1>4, <1>6 DEF JobSound, Job
<1>8. \A l \in Clerks, x \in Orders : Busy(l, x)' => JobSound(l, x)'
  <2> SUFFICES ASSUME NEW l \in Clerks, NEW x \in Orders, Busy(l, x)' PROVE JobSound(l, x)'
      OBVIOUS
  <2>1. CASE l = k
        BY <1>6, <1>7, <2>1
  <2>2. CASE l # k
    <3>1. JobSound(l, x) /\ clerk'[l] = clerk[l]
          BY <1>6, <2>2 DEF BooksInv, Books
    <3> QED BY <1>1, <3>1 DEF JobSound, Job
  <2> QED BY <2>1, <2>2
<1>9. ASSUME NEW x \in Orders, owed'[x] = 0, x \notin behind PROVE Followed(x)'
  <2>1. Followed(x)
        BY <1>1, <1>9 DEF BooksInv, Following
  <2>2. CASE x # o
        BY <1>1, <1>2, <1>6, <2>1, <2>2, Untouched
  <2>3. CASE x = o
    <3>1. UpToDate(o)
          BY <1>6, <2>1, <2>3 DEF Followed
    <3>2. UpToDate(o)'
          BY <1>1, <1>2, <3>1, ReadsSame DEF SameToBooks
    <3>3. \A l \in Clerks : Busy(l, o)' => ~Job(l, "sync")'
          BY <1>4, <1>6 DEF Job
    <3> QED BY <2>3, <3>2, <3>3 DEF Followed
  <2> QED BY <2>2, <2>3
<1> QED BY <1>1, <1>2, <1>6, <1>8, <1>9 DEF BooksInv, PaperTypes, Books, Following

\* Whoever works on an order is its only one, and not off.
LEMMA AtWork ==
    ASSUME Clerical, NEW k \in Clerks, clerk[k].job \in {"sync", "remit", "courier"}
    PROVE  /\ clerk[k].order \in Orders /\ Busy(k, clerk[k].order)
           /\ \A l \in Clerks \ {k} : ~Busy(l, clerk[k].order)
           /\ \A x \in Orders : Busy(k, x) => x = clerk[k].order
<1>1. clerk[k] # Off
      BY DEF Off
<1> QED BY <1>1 DEF Clerical, Busy

\* A run that read all that was missing leaves nothing missing.
LEMMA BroughtUpToDate ==
    ASSUME NEW o \in Orders, papers[o] \in Seq(Paper), SoundPapers(papers[o]), cod[o] \in 0..1, UNCHANGED orders,
           NEW m, m = Missing(o), StillMissing(papers[o], m), m.reverse \in BOOLEAN,
           papers'[o] = papers[o] \o Issued(m), cod'[o] = IF m.cashIn THEN cod[o] + 1 ELSE cod[o]
    PROVE  UpToDate(o)'
<1> DEFINE P == papers[o]
           Q == papers'[o]
           st == orders[o].status
<1>1. /\ m.invoice <=> st \in Live /\ LiveIn(P) = {}
      /\ m.receipt <=> /\ st \in Live /\ KindOf(P, "RECEIPT") = {}
                       /\ \/ orders[o].payment # "UNPAID"
                          \/ orders[o].method \notin Prepaid /\ st = "DELIVERED"
      /\ m.credit = {i \in LiveIn(P) : st \in Dead /\ \A j \in LiveIn(P) : j <= i}
      /\ m.cashIn <=> /\ orders[o].method \notin Prepaid /\ st \in Live /\ cod[o] = 0
                      /\ m.receipt \/ KindOf(P, "RECEIPT") # {}
      BY DEF Missing, MissingIf, LiveInvoices, Credited, OfKind, LiveIn, CreditedIn, KindOf
<1>2. /\ m.invoice => LiveIn(Q) # {}
      /\ ~m.invoice => LiveIn(Q) \subseteq LiveIn(P)
      /\ m.credit = {} => LiveIn(P) \subseteq LiveIn(Q)
      /\ m.credit # {} => LiveIn(Q) = {}
      /\ m.receipt \/ KindOf(P, "RECEIPT") # {} => KindOf(Q, "RECEIPT") # {}
      BY PapersAfter
<1>3. LiveInvoices(o)' = LiveIn(Q) /\ OfKind(o, "RECEIPT")' = KindOf(Q, "RECEIPT")
      BY DEF LiveInvoices, Credited, OfKind, LiveIn, CreditedIn, KindOf
<1>4. Live \cap Dead = {} /\ "DELIVERED" \in Live
      BY DEF Live, Dead
<1>5. AtMostOne(LiveIn(P)) /\ LiveIn(P) \subseteq Nat
      BY LenProperties DEF SoundPapers, LiveIn, KindOf
<1> HIDE DEF P, Q
<1>6. st \in Live => LiveIn(Q) # {}
  <2> SUFFICES ASSUME st \in Live PROVE LiveIn(Q) # {}
      OBVIOUS
  <2>1. m.credit = {}
        BY <1>1, <1>4
  <2>2. CASE m.invoice
        BY <1>2, <2>2
  <2>3. CASE ~m.invoice
        BY <1>1, <1>2, <2>1, <2>3
  <2> QED BY <2>2, <2>3
<1>7. st \in Dead => LiveIn(Q) = {}
  <2> SUFFICES ASSUME st \in Dead PROVE LiveIn(Q) = {}
      OBVIOUS
  <2>1. CASE LiveIn(P) # {}
    <3>1. PICK i \in LiveIn(P) : TRUE
          BY <2>1
    <3>2. \A j \in LiveIn(P) : j = i /\ j \in Nat
          BY <1>5, <3>1 DEF AtMostOne
    <3>3. \A j \in LiveIn(P) : j <= i
          BY <3>1, <3>2
    <3> QED BY <1>1, <1>2, <3>1, <3>3
  <2>2. CASE LiveIn(P) = {}
        BY <1>1, <1>2, <1>4, <2>2
  <2> QED BY <2>1, <2>2
<1>8. ASSUME st \in Live,
             orders[o].payment # "UNPAID" \/ (orders[o].method \notin Prepaid /\ st = "DELIVERED")
      PROVE  m.receipt \/ KindOf(P, "RECEIPT") # {}
      BY <1>1, <1>8
<1>9. st \in Live /\ orders[o].payment # "UNPAID" => KindOf(Q, "RECEIPT") # {}
      BY <1>2, <1>8
<1>10. st = "DELIVERED" /\ orders[o].method \notin Prepaid => cod'[o] = 1
  <2> SUFFICES ASSUME st = "DELIVERED", orders[o].method \notin Prepaid PROVE cod'[o] = 1
      OBVIOUS
  <2>1. m.receipt \/ KindOf(P, "RECEIPT") # {}
        BY <1>4, <1>8
  <2>2. m.cashIn <=> cod[o] = 0
        BY <1>1, <1>4, <2>1
  <2> QED BY <2>2
<1> QED BY <1>3, <1>6, <1>7, <1>9, <1>10 DEF UpToDate

\* A transaction ends: nothing but its own order has changed, which is up to date
\* if nothing is owed to it any more.
LEMMA Finished ==
    ASSUME BooksInv, DeskSound', PaperTypes', NEW k \in Clerks, NEW o \in Orders,
           clerk[k].job \in {"sync", "remit", "courier"}, clerk[k].order = o,
           clerk' = [clerk EXCEPT ![k] = Off], UNCHANGED <<orders, cancelledFrom, owed>>,
           \A x \in Orders \ {o} :
              /\ papers'[x] = papers[x] /\ cod'[x] = cod[x] /\ courier'[x] = courier[x]
              /\ x \in behind' <=> x \in behind,
           SoundPapers(papers'[o]), owed[o] = 0 /\ o \notin behind' => UpToDate(o)'
    PROVE  BooksInv'
<1>0. Clerical /\ UNCHANGED orders
      BY DEF BooksInv
<1>1. /\ Busy(k, o)
      /\ \A l \in Clerks \ {k} : ~Busy(l, o)
      /\ \A x \in Orders : Busy(k, x) => x = o
      BY <1>0, AtWork
<1>2. /\ Clerical'
      /\ \A l \in Clerks \ {k} : clerk'[l] = clerk[l]
      /\ \A l \in Clerks, x \in Orders : Busy(l, x)' <=> l # k /\ Busy(l, x)
      BY <1>0, Released
<1>3. Books'
  <2>1. \A x \in Orders : SoundPapers(papers[x])'
        BY DEF BooksInv, Books
  <2>2. ASSUME NEW l \in Clerks, NEW x \in Orders, Busy(l, x)' PROVE JobSound(l, x)'
    <3>1. l # k /\ Busy(l, x) /\ x # o /\ clerk'[l] = clerk[l]
          BY <1>1, <1>2, <2>2
    <3>2. JobSound(l, x) /\ papers'[x] = papers[x] /\ cod'[x] = cod[x] /\ courier'[x] = courier[x]
          BY <3>1 DEF BooksInv, Books
    <3> QED BY <3>1, <3>2 DEF JobSound, Job
  <2> QED BY <2>1, <2>2 DEF Books
<1>4. ASSUME NEW x \in Orders, owed'[x] = 0, x \notin behind' PROVE Followed(x)'
  <2>1. CASE x = o
    <3>1. UpToDate(o)'
          BY <1>4, <2>1
    <3>2. \A l \in Clerks : ~Busy(l, o)'
          BY <1>1, <1>2
    <3> QED BY <2>1, <3>1, <3>2 DEF Followed
  <2>2. CASE x # o
    <3>1. x \notin behind /\ papers'[x] = papers[x] /\ cod'[x] = cod[x] /\ ~Busy(k, x)
          BY <1>1, <1>4, <2>2
    <3>2. Followed(x)
          BY <1>4, <3>1 DEF BooksInv, Following
    <3>3. \A l \in Clerks : (Busy(l, x)' <=> Busy(l, x)) /\ (Busy(l, x) => clerk'[l] = clerk[l])
          BY <1>2, <3>1
    <3> QED BY <3>1, <3>2, <3>3, Untouched
  <2> QED BY <2>1, <2>2
<1> QED BY <1>2, <1>3, <1>4 DEF BooksInv, Following

\* The issuer writes what it found missing: the papers are sound, and up to date
\* unless an event has come in meanwhile.
LEMMA WriteBooksStep ==
    ASSUME BooksInv, NEW k \in Clerks, WriteBooks(k)
    PROVE  BooksInv'
<1>1. clerk[k].job = "sync" /\ Clerical
      BY DEF WriteBooks, BooksInv
<1>2. PICK o \in Orders : o = clerk[k].order
      BY <1>1, AtWork
<1>3. PICK m : m = clerk[k].missing
      OBVIOUS
<1>4. /\ papers' = [papers EXCEPT ![o] = papers[o] \o Issued(m)]
      /\ cod' = [cod EXCEPT ![o] = IF m.cashIn THEN cod[o] + 1 ELSE cod[o]]
      /\ clerk' = [clerk EXCEPT ![k] = Off]
      /\ UNCHANGED <<vars, orders, cancelledFrom, courier, owed, behind>>
      BY <1>2, <1>3 DEF WriteBooks, vars
<1>5. Busy(k, o) /\ \A l \in Clerks \ {k} : ~Busy(l, o)
      BY <1>1, <1>2, AtWork
<1>6. StillMissing(papers[o], m) /\ m.reverse \in BOOLEAN /\ (m.cashIn => cod[o] = 0)
      BY <1>1, <1>3, <1>5 DEF BooksInv, Books, JobSound, Job
<1>7. /\ papers = [x \in Orders |-> papers[x]] /\ papers[o] \in Seq(Paper) /\ SoundPapers(papers[o])
      /\ cod \in [Orders -> 0..1] /\ cod[o] \in 0..1
      BY DEF BooksInv, PaperTypes, Books
<1>8. papers[o] \o Issued(m) \in Seq(Paper) /\ SoundPapers(papers[o] \o Issued(m))
      BY <1>6, <1>7, PapersAfter
<1>9. /\ papers' = [x \in Orders |-> papers'[x]] /\ papers'[o] = papers[o] \o Issued(m)
      /\ \A x \in Orders \ {o} : papers'[x] = papers[x]
      BY <1>4, <1>7
<1>10. (IF m.cashIn THEN cod[o] + 1 ELSE cod[o]) \in 0..1
      BY <1>6, <1>7
<1>11. /\ cod' \in [Orders -> 0..1] /\ cod'[o] = (IF m.cashIn THEN cod[o] + 1 ELSE cod[o])
       /\ \A x \in Orders \ {o} : cod'[x] = cod[x]
  <2> DEFINE n == IF m.cashIn THEN cod[o] + 1 ELSE cod[o]
  <2>1. n \in 0..1 /\ cod' = [cod EXCEPT ![o] = n]
        BY <1>4, <1>10
  <2> HIDE DEF n
  <2>2. cod' \in [Orders -> 0..1] /\ cod'[o] = n /\ \A x \in Orders \ {o} : cod'[x] = cod[x]
        BY <1>7, <2>1
  <2> QED BY <2>2 DEF n
<1>12. PaperTypes'
      BY <1>4, <1>8, <1>9, <1>11 DEF BooksInv, PaperTypes
<1>13. DeskSound'
      BY <1>4, DeskSame DEF BooksInv
<1>14. ASSUME owed[o] = 0, o \notin behind' PROVE UpToDate(o)'
  <2>1. Followed(o)
        BY <1>4, <1>14 DEF BooksInv, Following
  <2>2. m = Missing(o)
        BY <1>1, <1>3, <1>5, <2>1 DEF Followed, Job
  <2> QED BY <1>4, <1>6, <1>7, <1>9, <1>11, <2>2, BroughtUpToDate
<1>15. /\ UNCHANGED <<orders, cancelledFrom, owed>>
       /\ \A x \in Orders \ {o} : /\ papers'[x] = papers[x] /\ cod'[x] = cod[x] /\ courier'[x] = courier[x]
                                  /\ x \in behind' <=> x \in behind
      BY <1>4, <1>9, <1>11
<1>16. SoundPapers(papers'[o])
      BY <1>8, <1>9
<1>17. clerk[k].job \in {"sync", "remit", "courier"} /\ clerk[k].order = o
      BY <1>1, <1>2
<1> QED BY <1>4, <1>12, <1>13, <1>14, <1>15, <1>16, <1>17, Finished

\* The retries are used up: the order falls behind.
LEMMA FailBooksStep ==
    ASSUME BooksInv, NEW k \in Clerks, FailBooks(k)
    PROVE  BooksInv'
<1>1. clerk[k].job = "sync" /\ Clerical
      BY DEF FailBooks, BooksInv
<1>2. PICK o \in Orders : o = clerk[k].order
      BY <1>1, AtWork
<1>3. /\ behind' = behind \cup {o} /\ clerk' = [clerk EXCEPT ![k] = Off]
      /\ UNCHANGED <<vars, orders, cancelledFrom, papers, cod, courier, owed>>
      BY <1>2 DEF FailBooks, vars
<1>4. DeskSound' /\ PaperTypes' /\ SoundPapers(papers'[o])
      BY <1>3, DeskSame DEF BooksInv, PaperTypes, Books
<1> QED BY <1>1, <1>2, <1>3, <1>4, Finished

\* The cashbook writes: an entry that was missing is there once.
LEMMA WriteCashStep ==
    ASSUME BooksInv, NEW k \in Clerks, WriteCash(k)
    PROVE  BooksInv'
<1>1. clerk[k].job \in {"remit", "courier"} /\ Clerical
      BY DEF WriteCash, BooksInv
<1>2. PICK o \in Orders : o = clerk[k].order
      BY <1>1, AtWork
<1>3. /\ clerk' = [clerk EXCEPT ![k] = Off]
      /\ UNCHANGED <<vars, orders, cancelledFrom, papers, owed, behind>>
      BY DEF WriteCash, vars
<1>4. Busy(k, o) /\ JobSound(k, o)
      BY <1>1, <1>2, AtWork DEF BooksInv, Books
<1>5. cod \in [Orders -> 0..1] /\ courier \in [Orders -> 0..1]
      BY DEF BooksInv, PaperTypes
<1>6. \/ UNCHANGED <<cod, courier>>
      \/ cod[o] = 0 /\ cod' = [cod EXCEPT ![o] = 1] /\ UNCHANGED courier
      \/ courier[o] = 0 /\ courier' = [courier EXCEPT ![o] = 1] /\ UNCHANGED cod
  <2>1. CASE clerk[k].job = "remit" /\ clerk[k].booked
        BY <1>2, <1>5, <2>1 DEF WriteCash
  <2>2. CASE clerk[k].job = "remit" /\ ~clerk[k].booked
    <3>1. cod[o] = 0
          BY <1>4, <2>2 DEF JobSound, Job
    <3> QED BY <1>2, <2>2, <3>1 DEF WriteCash
  <2>3. CASE clerk[k].job = "courier"
    <3>1. courier[o] = 0
          BY <1>4, <2>3 DEF JobSound, Job
    <3> QED BY <1>2, <2>3, <3>1 DEF WriteCash
  <2> QED BY <1>1, <2>1, <2>2, <2>3
<1>7. /\ cod' \in [Orders -> 0..1] /\ courier' \in [Orders -> 0..1]
      /\ \A x \in Orders \ {o} : cod'[x] = cod[x] /\ courier'[x] = courier[x]
      /\ cod'[o] = cod[o] \/ (cod[o] = 0 /\ cod'[o] = 1)
      BY <1>5, <1>6
<1>8. DeskSound' /\ PaperTypes' /\ SoundPapers(papers'[o])
      BY <1>3, <1>7, DeskSame DEF BooksInv, PaperTypes, Books
<1>9. ASSUME owed[o] = 0, o \notin behind' PROVE UpToDate(o)'
  <2>1. ~Job(k, "sync") /\ \A l \in Clerks \ {k} : ~Busy(l, o)
        BY <1>1, <1>2, AtWork DEF Job
  <2>2. UpToDate(o)
        BY <1>3, <1>9, <2>1 DEF BooksInv, Following, Followed
  <2>3. LiveInvoices(o)' = LiveInvoices(o) /\ OfKind(o, "RECEIPT")' = OfKind(o, "RECEIPT")
        BY <1>3 DEF LiveInvoices, Credited, OfKind
  <2> QED BY <1>3, <1>7, <2>2, <2>3 DEF UpToDate
<1> QED BY <1>1, <1>2, <1>3, <1>7, <1>8, <1>9, Finished

\* A reversal takes no lock: the order falls behind, and what others read stays so.
LEMMA ReverseStep ==
    ASSUME BooksInv, NEW o \in Orders, Reverse(o)
    PROVE  BooksInv'
<1>1. UNCHANGED <<vars, orders, cancelledFrom, papers, owed, clerk>> /\ behind' = behind \cup {o}
      BY DEF Reverse, vars
<1>2. cod \in [Orders -> 0..1] /\ courier \in [Orders -> 0..1]
      BY DEF BooksInv, PaperTypes
<1>3. \/ cod' = [cod EXCEPT ![o] = 0] /\ UNCHANGED courier
      \/ courier' = [courier EXCEPT ![o] = 0] /\ UNCHANGED cod
  <2>1. CASE cod[o] > 0 /\ cod' = [cod EXCEPT ![o] = cod[o] - 1] /\ UNCHANGED courier
    <3>1. cod[o] - 1 = 0
          BY <1>2, <2>1
    <3> QED BY <2>1, <3>1
  <2>2. CASE courier[o] > 0 /\ courier' = [courier EXCEPT ![o] = courier[o] - 1] /\ UNCHANGED cod
    <3>1. courier[o] - 1 = 0
          BY <1>2, <2>2
    <3> QED BY <2>2, <3>1
  <2> QED BY <2>1, <2>2 DEF Reverse
<1>4. /\ cod' \in [Orders -> 0..1] /\ courier' \in [Orders -> 0..1]
      /\ \A x \in Orders \ {o} : cod'[x] = cod[x] /\ courier'[x] = courier[x]
      /\ \A x \in Orders : (cod[x] = 0 => cod'[x] = 0) /\ (courier[x] = 0 => courier'[x] = 0)
      BY <1>2, <1>3
<1>5. DeskSound' /\ PaperTypes' /\ Clerical'
      BY <1>1, <1>4, DeskSame DEF BooksInv, PaperTypes, Clerical, Busy, Placed
<1>6. Books'
      BY <1>1, <1>4 DEF BooksInv, Books, Busy, JobSound, Job
<1>7. ASSUME NEW x \in Orders, owed'[x] = 0, x \notin behind' PROVE Followed(x)'
  <2>1. Followed(x) /\ x # o
        BY <1>1, <1>7 DEF BooksInv, Following
  <2> QED BY <1>1, <1>4, <2>1, Untouched DEF Busy
<1> QED BY <1>5, <1>6, <1>7 DEF BooksInv, Following

\* A restart: an order with an event waiting or a transaction open falls behind,
\* any other is up to date, for nobody was at work on it.
LEMMA RestartStep ==
    ASSUME BooksInv, Restart
    PROVE  BooksInv'
<1>1. /\ work' = [s \in Sessions |-> Idle] /\ UNCHANGED <<orders, stock, listed, coupons>>
      /\ behind' = behind \cup {o \in Orders : owed[o] > 0 \/ Locked(o)}
      /\ owed' = [o \in Orders |-> 0]
      /\ clerk' = [k \in Clerks |-> Off]
      /\ UNCHANGED <<cancelledFrom, papers, cod, courier>>
      BY DEF Restart, DropRequests
<1>2. TypeOK'
      BY <1>1 DEF BooksInv, DeskSound, TypeOK, stock, coupons, Work
<1>3. Control'
      BY <1>1, IdleFresh, SameRowsSound DEF BooksInv, DeskSound, Control, PlansFresh, Fresh, Idle
<1>4. PaperTypes'
      BY <1>1 DEF BooksInv, PaperTypes
<1>5. \A k \in Clerks : clerk'[k] = Off
      BY <1>1
<1>6. Clerical'
      BY <1>1, <1>5 DEF Clerical, Busy
<1>7. Books'
      BY <1>1, <1>5 DEF BooksInv, Books, Busy
<1>8. ASSUME NEW o \in Orders, o \notin behind' PROVE Followed(o)'
  <2>1. owed[o] = 0 /\ o \notin behind /\ ~Locked(o)
    <3>1. owed[o] \in Nat
          BY DEF BooksInv, PaperTypes
    <3> QED BY <1>1, <1>8, <3>1
  <2>2. UpToDate(o)
        BY <2>1 DEF BooksInv, Following, Followed, Locked, Busy
  <2>3. UpToDate(o)'
        BY <1>1, <2>2, ReadsSame DEF SameToBooks
  <2> QED BY <1>5, <2>3 DEF Followed, Busy
<1> QED BY <1>2, <1>3, <1>4, <1>6, <1>7, <1>8 DEF BooksInv, DeskSound, Following

\* The books are inductive.
LEMMA BooksStep == BooksInv /\ [BooksNext]_booksVars => BooksInv'
<1> SUFFICES ASSUME BooksInv, [BooksNext]_booksVars PROVE BooksInv'
    OBVIOUS
<1>1. CASE DeskWithEvents
      BY <1>1, DeskBooksStep
<1>2. ASSUME NEW k \in Clerks, NEW o \in Orders, OnEvent(k, o) PROVE BooksInv'
  <2>1. owed \in [Orders -> Nat] /\ owed[o] > 0 /\ owed' = [owed EXCEPT ![o] = owed[o] - 1]
        BY <1>2 DEF OnEvent, BooksInv, PaperTypes
  <2>2. owed[o] - 1 \in Nat
        BY <2>1
  <2>3. owed' \in [Orders -> Nat] /\ \A x \in Orders \ {o} : owed'[x] = owed[x]
        BY <2>1, <2>2
  <2> QED BY <1>2, <2>3, ReadBooksStep DEF OnEvent
<1>3. ASSUME NEW k \in Clerks, NEW o \in Orders, Resync(k, o) PROVE BooksInv'
  <2>1. owed' \in [Orders -> Nat] /\ \A x \in Orders \ {o} : owed'[x] = owed[x]
        BY <1>3 DEF Resync, BooksInv, PaperTypes
  <2> QED BY <1>3, <2>1, ReadBooksStep DEF Resync
<1>4. ASSUME NEW k \in Clerks, NEW o \in Orders, ReadCash(k, o) PROVE BooksInv'
      BY <1>4, ReadCashStep
<1>5. ASSUME NEW k \in Clerks, WriteBooks(k) PROVE BooksInv'
      BY <1>5, WriteBooksStep
<1>6. ASSUME NEW k \in Clerks, FailBooks(k) PROVE BooksInv'
      BY <1>6, FailBooksStep
<1>7. ASSUME NEW k \in Clerks, WriteCash(k) PROVE BooksInv'
      BY <1>7, WriteCashStep
<1>8. ASSUME NEW o \in Orders, Reverse(o) PROVE BooksInv'
      BY <1>8, ReverseStep
<1>9. CASE Restart
      BY <1>9, RestartStep
<1>10. CASE UNCHANGED booksVars
  <2>1. UNCHANGED <<vars, orders, cancelledFrom, papers, cod, courier, owed, clerk, behind>>
        BY <1>10 DEF booksVars, paperVars, vars
  <2>2. DeskSound' /\ PaperTypes' /\ Clerical' /\ Books'
        BY <2>1, DeskSame DEF BooksInv, PaperTypes, Clerical, Books, Busy, Placed, Job, JobSound
  <2>3. ASSUME NEW x \in Orders, owed'[x] = 0, x \notin behind' PROVE Followed(x)'
    <3>1. Followed(x)
          BY <2>1, <2>3 DEF BooksInv, Following
    <3> QED BY <2>1, <3>1, Untouched DEF Busy
  <2> QED BY <2>2, <2>3 DEF BooksInv, Following
<1> QED BY <1>1, <1>2, <1>3, <1>4, <1>5, <1>6, <1>7, <1>8, <1>9, <1>10 DEF BooksNext, Handle

-----------------------------------------------------------------------------
(* What it means.                                                          *)

\* A set of positions with no two members has at most one.
LEMMA NoTwo ==
    ASSUME NEW S, AtMostOne(S)
    PROVE  Cardinality(S) <= 1
<1>1. CASE S = {}
      BY <1>1, FS_EmptySet
<1>2. CASE S # {}
  <2>1. PICK x \in S : S = {x}
        BY <1>2 DEF AtMostOne
  <2>2. Cardinality({x}) = 1
        BY FS_Singleton
  <2>3. Cardinality(S) = 1
        BY <2>1, <2>2
  <2> QED BY <2>3
<1> QED BY <1>1, <1>2

\* The strengthened invariant holds of every behaviour of the books.
LEMMA BooksInvariant == BooksSpec => []BooksInv
BY BooksInitial, BooksStep, PTL DEF BooksSpec

\* Whatever the interleaving of events, resyncs and the cashbook, and for any
\* number of orders and of transactions on their books: no paper is issued twice,
\* and no entry of the cashbook stands twice (FinancialDocumentIssuer.sync and the
\* advisory lock it shares with recordRemittance).
THEOREM NoDuplicatesCorrect == BooksSpec => []NoDuplicates
<1>1. BooksInv => NoDuplicates
  <2> SUFFICES ASSUME BooksInv, NEW o \in Orders
               PROVE  /\ Cardinality(LiveInvoices(o)) <= 1
                      /\ Cardinality(OfKind(o, "RECEIPT")) <= 1
                      /\ \A i \in OfKind(o, "CREDIT_NOTE") :
                           /\ papers[o][i].of \in OfKind(o, "INVOICE")
                           /\ papers[o][i].of < i
                           /\ \A j \in OfKind(o, "CREDIT_NOTE") \ {i} : papers[o][j].of # papers[o][i].of
                      /\ cod[o] <= 1
                      /\ courier[o] <= 1
      BY DEF NoDuplicates
  <2>1. \A kind : OfKind(o, kind) = KindOf(papers[o], kind)
        BY DEF OfKind, KindOf
  <2>2. LiveInvoices(o) = LiveIn(papers[o])
        BY <2>1 DEF LiveInvoices, Credited, LiveIn, CreditedIn
  <2>3. SoundPapers(papers[o]) /\ cod[o] \in 0..1 /\ courier[o] \in 0..1
        BY DEF BooksInv, Books, PaperTypes
  <2>4. Cardinality(LiveInvoices(o)) <= 1 /\ Cardinality(OfKind(o, "RECEIPT")) <= 1
        BY <2>1, <2>2, <2>3, NoTwo DEF SoundPapers
  <2> QED BY <2>1, <2>3, <2>4 DEF SoundPapers
<1> QED BY <1>1, BooksInvariant, PTL

\* For any number of orders and transactions: an order with no event waiting, no
\* event lost and nobody at work on it has the papers that planBooks would want.
THEOREM PapersFollowOrderCorrect == BooksSpec => []PapersFollowOrder
<1>1. BooksInv => PapersFollowOrder
      BY DEF BooksInv, Following, Followed, PapersFollowOrder, Settled, Locked, Busy
<1> QED BY <1>1, BooksInvariant, PTL

=============================================================================
