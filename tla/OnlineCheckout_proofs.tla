------------------------ MODULE OnlineCheckout_proofs -----------------------
(***************************************************************************)
(* Payment attempts, for any orders, requests, settlements and bound on    *)
(* the attempts: an order has one open attempt at most, only what the      *)
(* gateway captured is a success, and a success is told once and for good. *)
(*                                                                         *)
(* Two arguments carry it.  The attempts of an order are numbered without  *)
(* gaps, so the number a request has counted is free only while no attempt *)
(* was added since, and by then it has superseded those it counted.  And a *)
(* session is opened by one request only, before the gateway knows of it,  *)
(* so neither its failure nor its opening overwrites a capture.            *)
(***************************************************************************)
EXTENDS OnlineCheckout, FiniteSetTheorems, TLAPS

Numbers == 1..MaxAttempts
Attempt(o, i) == pay[<<o, i>>]

AttemptTypes ==
    /\ pay \in [Tran -> PaymentStatus \cup {"none"}]
    /\ gateway \in [Tran -> {"none", "session", "declined", "paid", "paidOtherAmount"}]
    /\ checkout \in [Shoppers -> Requests]
    /\ asked \in [Workers -> Settlement]
    /\ succeeded \subseteq {t \in Tran : pay[t] = "SUCCESS"}

\* Request h is at this point, for attempt i of order o.
At(h, pc, o, i) == checkout[h] = [pc |-> pc, tran |-> <<o, i>>]

\* Attempts are numbered without gaps.
NoGap == \A o \in Orders, i, j \in Numbers : i < j /\ Attempt(o, j) # "none" => Attempt(o, i) # "none"

OneOpen == \A o \in Orders, i, j \in Numbers : Attempt(o, i) \in OPEN /\ Attempt(o, j) \in OPEN => i = j

\* What a request has counted is still there ...
Counted ==
    \A h \in Shoppers, o \in Orders, i \in Numbers :
        At(h, "counted", o, i) \/ At(h, "superseded", o, i) => \A j \in Numbers : j < i => Attempt(o, j) # "none"

\* ... and once it has superseded the open ones, none is open while its number is free.
Replaced ==
    \A h \in Shoppers, o \in Orders, i \in Numbers :
        At(h, "superseded", o, i) /\ Attempt(o, i) = "none" => \A j \in Numbers : Attempt(o, j) \notin OPEN

\* One request opens the session of an attempt, which the gateway has not seen.
Opening ==
    \A h \in Shoppers, o \in Orders, i \in Numbers :
        At(h, "opening", o, i) => /\ Attempt(o, i) # "none" /\ gateway[<<o, i>>] = "none"
                                  /\ \A g \in Shoppers : At(g, "opening", o, i) => g = h

\* What the gateway knows.
Known ==
    /\ \A t \in Tran : pay[t] = "none" => gateway[t] = "none"
    /\ \A t \in Tran : pay[t] = "SUCCESS" => gateway[t] = "paid"
    /\ \A w \in Workers : asked[w] # NoRequest /\ asked[w].aim = "SUCCESS" => gateway[asked[w].tran] = "paid"

\* What a step may tell: a new success, once, and none is ever taken back.
Told ==
    \A t \in Tran : /\ t \in succeeded' \ succeeded <=> pay[t] # "SUCCESS" /\ pay'[t] = "SUCCESS"
                    /\ pay[t] = "SUCCESS" => pay'[t] = "SUCCESS"

CheckoutInv == AttemptTypes /\ NoGap /\ OneOpen /\ Counted /\ Replaced /\ Opening /\ Known

-----------------------------------------------------------------------------
(* Attempts, requests and settlements as values.                           *)

\* An order and a number make the key of an attempt.
LEMMA Attempted == ASSUME NEW o \in Orders, NEW i \in Numbers PROVE <<o, i>> \in Tran /\ OrderOf(<<o, i>>) = o
BY DEF Tran, OrderOf, Numbers

\* Every key of an attempt is an order and a number.
LEMMA Numbered ==
    ASSUME NEW t \in Tran
    PROVE  \E o \in Orders, i \in Numbers : t = <<o, i>>
BY DEF Tran, Numbers

\* A request is idle, or at one of three points for an attempt.
LEMMA RequestAt ==
    ASSUME AttemptTypes, NEW h \in Shoppers, checkout[h] # NoRequest
    PROVE  \E pc \in {"counted", "superseded", "opening"}, o \in Orders, i \in Numbers : At(h, pc, o, i)
<1>1. PICK pc \in {"counted", "superseded", "opening"}, t \in Tran : checkout[h] = [pc |-> pc, tran |-> t]
      BY DEF AttemptTypes, Requests
<1>2. PICK o \in Orders, i \in Numbers : t = <<o, i>>
      BY Numbered
<1> QED BY <1>1, <1>2 DEF At

\* What it says of a request to be at a point.
LEMMA AtFields ==
    ASSUME NEW h, NEW pc, NEW o, NEW i, At(h, pc, o, i)
    PROVE  checkout[h].pc = pc /\ checkout[h].tran = <<o, i>>
BY DEF At

\* Where a request is that says so.
LEMMA AtPoint ==
    ASSUME AttemptTypes, NEW h \in Shoppers, NEW pc \in {"counted", "superseded", "opening"}, checkout[h].pc = pc
    PROVE  \E o \in Orders, i \in Numbers : At(h, pc, o, i)
<1>1. checkout[h] # NoRequest
      BY DEF NoRequest
<1>2. PICK pd \in {"counted", "superseded", "opening"}, o \in Orders, i \in Numbers : At(h, pd, o, i)
      BY <1>1, RequestAt
<1> QED BY <1>2, AtFields

\* Attempts numbered up to k are at most k.
LEMMA AtMostNumbered ==
    ASSUME NEW o \in Orders, NEW k \in Nat,
           \A i \in Numbers : Attempt(o, i) # "none" => i <= k
    PROVE  Cardinality(Attempts(o)) \in Nat /\ Cardinality(Attempts(o)) <= k
<1> DEFINE Box == {o} \X (1..k)
<1>1. Attempts(o) \subseteq Box
  <2> SUFFICES ASSUME NEW t \in Attempts(o) PROVE t \in Box
      OBVIOUS
  <2>1. t \in Tran /\ OrderOf(t) = o /\ pay[t] # "none"
        BY DEF Attempts
  <2>2. PICK i \in Numbers : t = <<o, i>>
        BY <2>1, Numbered DEF OrderOf
  <2>3. i <= k
        BY <2>1, <2>2 DEF Attempt
  <2> QED BY <2>2, <2>3 DEF Numbers
<1>2. IsFiniteSet(Box) /\ Cardinality(Box) = k
  <2>1. IsFiniteSet(1..k) /\ Cardinality(1..k) = k
        BY FS_Interval
  <2>2. IsFiniteSet({o}) /\ Cardinality({o}) = 1
        BY FS_Singleton
  <2>3. IsFiniteSet(Box) /\ Cardinality(Box) = Cardinality({o}) * Cardinality(1..k)
        BY <2>1, <2>2, FS_Product
  <2> QED BY <2>1, <2>2, <2>3
<1> HIDE DEF Box
<1>3. IsFiniteSet(Attempts(o)) /\ Cardinality(Attempts(o)) <= Cardinality(Box)
      BY <1>1, <1>2, FS_Subset
<1>4. Cardinality(Attempts(o)) \in Nat
      BY <1>3, FS_CardinalityType
<1> QED BY <1>2, <1>3, <1>4

\* Numbers up to the count belong to attempts: they are numbered without gaps.
LEMMA CountedBefore ==
    ASSUME NoGap, NEW o \in Orders, NEW j \in Numbers, j <= Cardinality(Attempts(o))
    PROVE  Attempt(o, j) # "none"
<1> SUFFICES ASSUME Attempt(o, j) = "none" PROVE FALSE
    OBVIOUS
<1>1. j \in Nat /\ j - 1 \in Nat
      BY AttemptsAssumption DEF Numbers
<1>2. \A i \in Numbers : Attempt(o, i) # "none" => i <= j - 1
      BY <1>1, AttemptsAssumption DEF NoGap, Numbers
<1>3. Cardinality(Attempts(o)) \in Nat /\ Cardinality(Attempts(o)) <= j - 1
      BY <1>1, <1>2, AtMostNumbered
<1> QED BY <1>1, <1>3

-----------------------------------------------------------------------------
(* What a change of the attempts leaves of the argument.                   *)

\* No attempt appears, goes or opens again: everything that was counted stands.
LEMMA RowsKept ==
    ASSUME NoGap, OneOpen, Counted, Replaced,
           \A o \in Orders, i \in Numbers : /\ Attempt(o, i)' = "none" <=> Attempt(o, i) = "none"
                                            /\ Attempt(o, i)' \in OPEN => Attempt(o, i) \in OPEN
    PROVE  /\ NoGap' /\ OneOpen'
           /\ \A h \in Shoppers, o \in Orders, i \in Numbers :
                /\ At(h, "counted", o, i) \/ At(h, "superseded", o, i) =>
                     \A j \in Numbers : j < i => Attempt(o, j)' # "none"
                /\ At(h, "superseded", o, i) /\ Attempt(o, i)' = "none" =>
                     \A j \in Numbers : Attempt(o, j)' \notin OPEN
<1>1. NoGap' /\ OneOpen'
      BY DEF NoGap, OneOpen
<1> QED BY <1>1 DEF Counted, Replaced

\* With the same requests, that is all.
LEMMA RequestsKept ==
    ASSUME NoGap, OneOpen, Counted, Replaced, UNCHANGED checkout,
           \A o \in Orders, i \in Numbers : /\ Attempt(o, i)' = "none" <=> Attempt(o, i) = "none"
                                            /\ Attempt(o, i)' \in OPEN => Attempt(o, i) \in OPEN
    PROVE  NoGap' /\ OneOpen' /\ Counted' /\ Replaced'
<1>1. \A h \in Shoppers : \A pc, o, i : At(h, pc, o, i)' <=> At(h, pc, o, i)
      BY DEF At
<1> QED BY <1>1, RowsKept DEF Counted, Replaced

-----------------------------------------------------------------------------
(* The steps.                                                              *)

\* There is no attempt, request or settlement at the start.
LEMMA CheckoutInitial == CheckoutInit => CheckoutInv
<1> SUFFICES ASSUME CheckoutInit PROVE CheckoutInv
    OBVIOUS
<1>1. /\ \A t \in Tran : pay[t] = "none" /\ gateway[t] = "none"
      /\ \A o \in Orders, i \in Numbers : Attempt(o, i) = "none"
      BY Attempted DEF CheckoutInit, Attempt
<1>2. /\ \A h \in Shoppers : checkout[h] = NoRequest
      /\ \A w \in Workers : asked[w] = NoRequest
      BY DEF CheckoutInit
<1>3. AttemptTypes
      BY DEF CheckoutInit, AttemptTypes, Requests, Settlement
<1>4. \A h \in Shoppers : \A pc \in {"counted", "superseded", "opening"} : \A o, i : ~At(h, pc, o, i)
      BY <1>2, AtFields DEF NoRequest
<1>5. NoGap /\ OneOpen
      BY <1>1 DEF NoGap, OneOpen, OPEN
<1>6. Counted /\ Replaced /\ Opening
      BY <1>4 DEF Counted, Replaced, Opening
<1>7. Known
      BY <1>1, <1>2 DEF Known
<1> QED BY <1>3, <1>5, <1>6, <1>7 DEF CheckoutInv

\* A checkout counts the attempts of its order: every lower number is one of them.
LEMMA BeginStep ==
    ASSUME CheckoutInv, NEW h \in Shoppers, NEW o \in Orders, Begin(h, o)
    PROVE  CheckoutInv' /\ Told
<1> DEFINE n == Cardinality(Attempts(o)) + 1
<1>1. /\ n <= MaxAttempts /\ checkout' = [checkout EXCEPT ![h] = [pc |-> "counted", tran |-> <<o, n>>]]
      /\ UNCHANGED <<pay, gateway, asked, succeeded>>
      BY DEF Begin
<1>2. n \in Numbers /\ \A j \in Numbers : j < n => Attempt(o, j) # "none"
  <2>1. \A i \in Numbers : Attempt(o, i) # "none" => i <= MaxAttempts
        BY AttemptsAssumption DEF Numbers
  <2>2. Cardinality(Attempts(o)) \in Nat
        BY <2>1, AttemptsAssumption, AtMostNumbered
  <2>3. n \in Numbers
        BY <1>1, <2>2, AttemptsAssumption DEF Numbers
  <2>4. ASSUME NEW j \in Numbers, j < n PROVE Attempt(o, j) # "none"
    <3>1. j <= Cardinality(Attempts(o))
          BY <2>2, <2>4, AttemptsAssumption DEF Numbers
    <3> QED BY <3>1, CountedBefore DEF CheckoutInv
  <2> QED BY <2>3, <2>4
<1> HIDE DEF n
<1>3. <<o, n>> \in Tran
      BY <1>2, Attempted
<1>4. AttemptTypes'
      BY <1>1, <1>3 DEF CheckoutInv, AttemptTypes, Requests
<1>5. \A g \in Shoppers : \A pc, x, i : At(g, pc, x, i)' <=>
          IF g = h THEN pc = "counted" /\ x = o /\ i = n ELSE At(g, pc, x, i)
      BY <1>1 DEF CheckoutInv, AttemptTypes, At
<1>6. \A x, i : Attempt(x, i)' = Attempt(x, i)
      BY <1>1 DEF Attempt
<1>7. NoGap' /\ OneOpen'
      BY <1>6 DEF CheckoutInv, NoGap, OneOpen
<1>8. Counted' /\ Replaced'
      BY <1>2, <1>5, <1>6 DEF CheckoutInv, Counted, Replaced
<1>9. Opening'
      BY <1>1, <1>5, <1>6 DEF CheckoutInv, Opening
<1>10. Known'
      BY <1>1 DEF CheckoutInv, Known
<1>11. Told
      BY <1>1 DEF Told
<1> QED BY <1>4, <1>7, <1>8, <1>9, <1>10, <1>11 DEF CheckoutInv

\* The open attempts of the order are cancelled; the others stay as they were.
LEMMA SupersedeStep ==
    ASSUME CheckoutInv, NEW h \in Shoppers, Supersede(h)
    PROVE  CheckoutInv' /\ Told
<1>1. PICK o \in Orders, n \in Numbers : At(h, "counted", o, n)
      BY AtPoint DEF Supersede, CheckoutInv
<1>2. checkout[h].tran = <<o, n>> /\ checkout[h] = [pc |-> "counted", tran |-> <<o, n>>]
      BY <1>1 DEF At
<1>3. /\ pay' = Superseded(o) /\ checkout' = [checkout EXCEPT ![h] = [pc |-> "superseded", tran |-> <<o, n>>]]
      /\ UNCHANGED <<gateway, asked, succeeded>>
  <2>1. [checkout[h] EXCEPT !.pc = "superseded"] = [pc |-> "superseded", tran |-> <<o, n>>]
        BY <1>2
  <2>2. checkout' = [checkout EXCEPT ![h] = [checkout[h] EXCEPT !.pc = "superseded"]]
        BY DEF Supersede
  <2>3. OrderOf(checkout[h].tran) = o
        BY <1>2 DEF OrderOf
  <2>4. pay' = Superseded(o)
        BY <2>3 DEF Supersede
  <2> QED BY <2>1, <2>2, <2>4 DEF Supersede
<1>4. <<o, n>> \in Tran
      BY Attempted
<1>5. /\ pay' \in [Tran -> PaymentStatus \cup {"none"}]
      /\ \A t \in Tran : /\ pay'[t] = "none" <=> pay[t] = "none"
                         /\ pay'[t] = "SUCCESS" <=> pay[t] = "SUCCESS"
                         /\ pay'[t] \in OPEN => pay[t] \in OPEN /\ OrderOf(t) # o
  <2>1. pay' = [t \in Tran |-> IF t \in Attempts(o) /\ pay[t] \in OPEN THEN "CANCELLED" ELSE pay[t]]
        BY <1>3 DEF Superseded
  <2>2. \A t \in Tran : pay[t] \in OPEN /\ OrderOf(t) = o => t \in Attempts(o)
        BY DEF Attempts, OPEN
  <2> QED BY <2>1, <2>2 DEF CheckoutInv, AttemptTypes, PaymentStatus, OPEN
<1>6. AttemptTypes'
      BY <1>3, <1>4, <1>5 DEF CheckoutInv, AttemptTypes, Requests
<1>7. \A x \in Orders, i \in Numbers : /\ Attempt(x, i)' = "none" <=> Attempt(x, i) = "none"
                                       /\ Attempt(x, i)' \in OPEN => Attempt(x, i) \in OPEN /\ x # o
      BY <1>5, Attempted DEF Attempt
<1>8. \A g \in Shoppers : \A pc, x, i : At(g, pc, x, i)' <=>
          IF g = h THEN pc = "superseded" /\ x = o /\ i = n ELSE At(g, pc, x, i)
      BY <1>3 DEF CheckoutInv, AttemptTypes, At
<1>9. /\ NoGap' /\ OneOpen'
      /\ \A g \in Shoppers, x \in Orders, i \in Numbers :
           /\ At(g, "counted", x, i) \/ At(g, "superseded", x, i) =>
                \A j \in Numbers : j < i => Attempt(x, j)' # "none"
           /\ At(g, "superseded", x, i) /\ Attempt(x, i)' = "none" =>
                \A j \in Numbers : Attempt(x, j)' \notin OPEN
      BY <1>7, RowsKept DEF CheckoutInv
<1>10. Counted' /\ Replaced'
      BY <1>1, <1>7, <1>8, <1>9 DEF Counted, Replaced
<1>11. Opening'
      BY <1>3, <1>7, <1>8 DEF CheckoutInv, Opening
<1>12. Known'
      BY <1>3, <1>5 DEF CheckoutInv, Known
<1>13. Told
      BY <1>3, <1>5 DEF Told
<1> QED BY <1>6, <1>9, <1>10, <1>11, <1>12, <1>13 DEF CheckoutInv

\* Requests and settlements may be given up, events handled or forgotten.
LEMMA GivenUp ==
    ASSUME CheckoutInv, UNCHANGED <<pay, gateway>>, succeeded' \subseteq succeeded,
           checkout' \in [Shoppers -> Requests], asked' \in [Workers -> Settlement],
           \A h \in Shoppers : checkout'[h] = checkout[h] \/ checkout'[h] = NoRequest,
           \A w \in Workers : asked'[w] = asked[w] \/ asked'[w] = NoRequest
    PROVE  CheckoutInv' /\ Told
<1>1. AttemptTypes'
      BY DEF CheckoutInv, AttemptTypes
<1>2. \A g \in Shoppers : \A x, i : \A pc \in {"counted", "superseded", "opening"} : At(g, pc, x, i)' => At(g, pc, x, i)
      BY DEF At, NoRequest
<1>3. \A x, i : Attempt(x, i)' = Attempt(x, i)
      BY DEF Attempt
<1>4. NoGap' /\ OneOpen'
      BY <1>3 DEF CheckoutInv, NoGap, OneOpen
<1>5. Counted' /\ Replaced'
      BY <1>2, <1>3 DEF CheckoutInv, Counted, Replaced
<1>6. Opening'
      BY <1>2, <1>3 DEF CheckoutInv, Opening
<1>7. Known'
      BY DEF CheckoutInv, Known
<1> QED BY <1>1, <1>4, <1>5, <1>6, <1>7 DEF CheckoutInv, Told

\* The row is inserted unless another request took the number: then nothing has
\* been added since both counted, and all they counted is closed.
LEMMA CreateStep ==
    ASSUME CheckoutInv, NEW h \in Shoppers, Create(h)
    PROVE  CheckoutInv' /\ Told
<1>1. PICK o \in Orders, n \in Numbers : At(h, "superseded", o, n)
      BY AtPoint DEF Create, CheckoutInv
<1>2. checkout[h].tran = <<o, n>> /\ checkout[h] = [pc |-> "superseded", tran |-> <<o, n>>] /\ <<o, n>> \in Tran
      BY <1>1, Attempted DEF At
<1>3. UNCHANGED <<gateway, asked, succeeded>>
      BY DEF Create
<1>4. CASE pay[<<o, n>>] # "none"
  <2>1. UNCHANGED pay /\ checkout' = [checkout EXCEPT ![h] = NoRequest]
        BY <1>2, <1>4 DEF Create
  <2> QED BY <1>3, <2>1, GivenUp DEF CheckoutInv, AttemptTypes, Requests
<1>5. CASE pay[<<o, n>>] = "none"
  <2>1. pay' = [pay EXCEPT ![<<o, n>>] = "INITIATED"]
        BY <1>2, <1>5 DEF Create
  <2>2. checkout' = [checkout EXCEPT ![h] = [pc |-> "opening", tran |-> <<o, n>>]]
    <3>1. [checkout[h] EXCEPT !.pc = "opening"] = [pc |-> "opening", tran |-> <<o, n>>]
          BY <1>2
    <3>2. checkout' = [checkout EXCEPT ![h] = [checkout[h] EXCEPT !.pc = "opening"]]
          BY <1>2, <1>5 DEF Create
    <3> QED BY <3>1, <3>2
  <2>3. AttemptTypes'
        BY <1>2, <1>3, <1>5, <2>1, <2>2 DEF CheckoutInv, AttemptTypes, Requests, PaymentStatus, OPEN
  <2>4. \A x \in Orders, i \in Numbers :
          Attempt(x, i)' = IF x = o /\ i = n THEN "INITIATED" ELSE Attempt(x, i)
        BY <1>2, <2>1, Attempted DEF Attempt, CheckoutInv, AttemptTypes
  <2>5. \A g \in Shoppers : \A pc, x, i : At(g, pc, x, i)' <=>
          IF g = h THEN pc = "opening" /\ x = o /\ i = n ELSE At(g, pc, x, i)
        BY <2>2 DEF CheckoutInv, AttemptTypes, At
  <2>6. /\ Attempt(o, n) = "none" /\ \A j \in Numbers : Attempt(o, j) \notin OPEN
        /\ \A j \in Numbers : j < n => Attempt(o, j) # "none"
        BY <1>1, <1>5 DEF CheckoutInv, Counted, Replaced, Attempt
  <2>7. NoGap' /\ OneOpen'
        BY <2>4, <2>6 DEF CheckoutInv, NoGap, OneOpen
  <2>8. Counted'
        BY <2>4, <2>5 DEF CheckoutInv, Counted
  <2>9. Replaced'
    <3> SUFFICES ASSUME NEW g \in Shoppers, NEW x \in Orders, NEW i \in Numbers,
                        At(g, "superseded", x, i)', Attempt(x, i)' = "none", NEW j \in Numbers
                 PROVE  Attempt(x, j)' \notin OPEN
        BY DEF Replaced
    <3>1. At(g, "superseded", x, i) /\ Attempt(x, i) = "none" /\ ~(x = o /\ i = n)
          BY <2>4, <2>5
    <3>2. \A k \in Numbers : Attempt(x, k) \notin OPEN /\ (k < i => Attempt(x, k) # "none")
          BY <3>1 DEF CheckoutInv, Replaced, Counted
    <3>3. CASE x # o
          BY <2>4, <3>2, <3>3
    <3>4. CASE x = o
      <4>1. i < n \/ n < i
            BY <3>1, <3>4, AttemptsAssumption DEF Numbers
      <4> QED BY <2>6, <3>1, <3>2, <3>4, <4>1
    <3> QED BY <3>3, <3>4
  <2>10. Opening'
        BY <1>2, <1>3, <2>4, <2>5, <2>6 DEF CheckoutInv, Opening, Known, Attempt
  <2>11. \A t \in Tran : /\ pay'[t] = "none" => pay[t] = "none"
                         /\ pay'[t] = "SUCCESS" <=> pay[t] = "SUCCESS"
        BY <1>2, <1>5, <2>1 DEF CheckoutInv, AttemptTypes
  <2>12. Known' /\ Told
        BY <1>3, <2>11 DEF CheckoutInv, Known, Told
  <2> QED BY <2>3, <2>7, <2>8, <2>9, <2>10, <2>12 DEF CheckoutInv
<1> QED BY <1>4, <1>5

\* The session of an attempt is opened, or its row is failed: the gateway knows
\* nothing of it, so it cannot have been captured.
LEMMA OpenSessionStep ==
    ASSUME CheckoutInv, NEW h \in Shoppers, OpenSession(h)
    PROVE  CheckoutInv' /\ Told
<1>1. PICK o \in Orders, n \in Numbers : At(h, "opening", o, n)
      BY AtPoint DEF OpenSession, CheckoutInv
<1>2. PICK t \in Tran : t = <<o, n>> /\ checkout[h].tran = t
      BY <1>1, Attempted DEF At
<1>3. /\ checkout' = [checkout EXCEPT ![h] = NoRequest] /\ UNCHANGED <<asked, succeeded>>
      /\ \/ gateway' = [gateway EXCEPT ![t] = "session"] /\ UNCHANGED pay
         \/ pay' = [pay EXCEPT ![t] = "FAILED"] /\ UNCHANGED gateway
      BY <1>2 DEF OpenSession
<1>4. gateway[t] = "none" /\ pay[t] # "none" /\ pay[t] # "SUCCESS"
      BY <1>1, <1>2 DEF CheckoutInv, Opening, Known, Attempt
<1>5. \A g \in Shoppers : \A x, i : \A pc \in {"counted", "superseded", "opening"} :
          At(g, pc, x, i)' <=> g # h /\ At(g, pc, x, i)
      BY <1>3 DEF CheckoutInv, AttemptTypes, At, NoRequest
<1>6. \A g \in Shoppers \ {h} : ~At(g, "opening", o, n)
      BY <1>1 DEF CheckoutInv, Opening
<1>7. /\ pay' \in [Tran -> PaymentStatus \cup {"none"}]
      /\ \A u \in Tran : /\ pay'[u] = "none" <=> pay[u] = "none"
                         /\ pay'[u] = "SUCCESS" <=> pay[u] = "SUCCESS"
                         /\ pay'[u] \in OPEN => pay[u] \in OPEN
      BY <1>3, <1>4 DEF CheckoutInv, AttemptTypes, PaymentStatus, OPEN
<1>8. /\ gateway' \in [Tran -> {"none", "session", "declined", "paid", "paidOtherAmount"}]
      /\ \A u \in Tran : u # t => gateway'[u] = gateway[u]
      BY <1>3 DEF CheckoutInv, AttemptTypes
<1>9. AttemptTypes'
      BY <1>3, <1>7, <1>8 DEF CheckoutInv, AttemptTypes, Requests
<1>10. \A x \in Orders, i \in Numbers : /\ Attempt(x, i)' = "none" <=> Attempt(x, i) = "none"
                                        /\ Attempt(x, i)' \in OPEN => Attempt(x, i) \in OPEN
      BY <1>7, Attempted DEF Attempt
<1>11. /\ NoGap' /\ OneOpen'
       /\ \A g \in Shoppers, x \in Orders, i \in Numbers :
            /\ At(g, "counted", x, i) \/ At(g, "superseded", x, i) =>
                 \A j \in Numbers : j < i => Attempt(x, j)' # "none"
            /\ At(g, "superseded", x, i) /\ Attempt(x, i)' = "none" =>
                 \A j \in Numbers : Attempt(x, j)' \notin OPEN
      BY <1>10, RowsKept DEF CheckoutInv
<1>12. Counted' /\ Replaced'
      BY <1>5, <1>11 DEF Counted, Replaced
<1>13. ASSUME NEW g \in Shoppers, NEW x \in Orders, NEW i \in Numbers, At(g, "opening", x, i)'
       PROVE  /\ Attempt(x, i)' # "none" /\ gateway'[<<x, i>>] = "none"
              /\ \A f \in Shoppers : At(f, "opening", x, i)' => f = g
  <2>1. g # h /\ At(g, "opening", x, i)
        BY <1>5, <1>13
  <2>2. <<x, i>> # t /\ <<x, i>> \in Tran
        BY <1>2, <1>6, <2>1, Attempted
  <2> QED BY <1>5, <1>8, <1>10, <2>1, <2>2 DEF CheckoutInv, Opening
<1>14. Opening'
      BY <1>13 DEF Opening
<1>15. Known'
  <2>1. \A u \in Tran : pay'[u] = "none" => gateway'[u] = "none"
        BY <1>4, <1>7, <1>8 DEF CheckoutInv, Known
  <2>2. \A u \in Tran : pay'[u] = "SUCCESS" => gateway'[u] = "paid"
        BY <1>4, <1>7, <1>8 DEF CheckoutInv, Known
  <2>3. ASSUME NEW w \in Workers, asked[w] # NoRequest, asked[w].aim = "SUCCESS"
        PROVE  gateway'[asked[w].tran] = "paid"
    <3>1. asked[w].tran \in Tran /\ gateway[asked[w].tran] = "paid"
          BY <2>3 DEF CheckoutInv, AttemptTypes, Settlement, Known
    <3> QED BY <1>4, <1>8, <3>1
  <2> QED BY <1>3, <2>1, <2>2, <2>3 DEF Known
<1>16. Told
      BY <1>3, <1>7 DEF Told
<1> QED BY <1>9, <1>11, <1>12, <1>14, <1>15, <1>16 DEF CheckoutInv

\* The shopper pays or is declined: what was captured stays so.
LEMMA GatewayStep ==
    ASSUME CheckoutInv, NEW t \in Tran, gateway[t] \in {"session", "declined"},
           NEW result \in {"declined", "paid", "paidOtherAmount"},
           gateway' = [gateway EXCEPT ![t] = result], UNCHANGED <<pay, checkout, asked, succeeded>>
    PROVE  CheckoutInv' /\ Told
<1>1. /\ gateway' \in [Tran -> {"none", "session", "declined", "paid", "paidOtherAmount"}]
      /\ gateway'[t] = result /\ \A u \in Tran : u # t => gateway'[u] = gateway[u]
      BY DEF CheckoutInv, AttemptTypes
<1>2. AttemptTypes' /\ Told
      BY <1>1 DEF CheckoutInv, AttemptTypes, Told
<1>3. NoGap' /\ OneOpen' /\ Counted' /\ Replaced'
      BY RequestsKept DEF CheckoutInv, Attempt
<1>4. \A g \in Shoppers, x \in Orders, i \in Numbers :
          /\ At(g, "opening", x, i)' <=> At(g, "opening", x, i)
          /\ Attempt(x, i)' = Attempt(x, i)
          /\ At(g, "opening", x, i) => <<x, i>> # t /\ <<x, i>> \in Tran
      BY Attempted DEF At, Attempt, CheckoutInv, Opening
<1>5. Opening'
      BY <1>1, <1>4 DEF CheckoutInv, Opening
<1>6. \A u \in Tran : gateway[u] = "none" \/ gateway[u] = "paid" => u # t
      OBVIOUS
<1>7. \A w \in Workers : asked[w] # NoRequest => asked[w].tran \in Tran
      BY DEF CheckoutInv, AttemptTypes, Settlement
<1>8. \A u \in Tran : pay[u] = "none" => gateway'[u] = "none"
      BY <1>1, <1>6 DEF CheckoutInv, Known
<1>9. \A u \in Tran : pay[u] = "SUCCESS" => gateway'[u] = "paid"
      BY <1>1, <1>6 DEF CheckoutInv, Known
<1>10. \A w \in Workers : asked[w] # NoRequest /\ asked[w].aim = "SUCCESS" => gateway'[asked[w].tran] = "paid"
      BY <1>1, <1>6, <1>7 DEF CheckoutInv, Known
<1>11. Known'
      BY <1>8, <1>9, <1>10 DEF Known
<1> QED BY <1>2, <1>3, <1>5, <1>11 DEF CheckoutInv

\* A settlement goes for SUCCESS only when the gateway says the amount was captured.
LEMMA AskStep ==
    ASSUME CheckoutInv, NEW w \in Workers, NEW t \in Tran, NEW via \in Notice \cup {"job"},
           NEW fallback \in {"nothing", "FAILED", "EXPIRED"}, Ask(w, t, via, fallback)
    PROVE  CheckoutInv' /\ Told
<1>1. PICK aim \in AimsOf(t, via, fallback) :
          /\ asked' = [asked EXCEPT ![w] = [tran |-> t, via |-> via, aim |-> aim]]
          /\ UNCHANGED <<pay, gateway, checkout, succeeded>>
      BY DEF Ask
<1>2. aim \in Aims /\ (aim = "SUCCESS" => gateway[t] = "paid")
      BY DEF AimsOf, Aims
<1>3. AttemptTypes' /\ Told
      BY <1>1, <1>2 DEF CheckoutInv, AttemptTypes, Settlement, Told
<1>4. NoGap' /\ OneOpen' /\ Counted' /\ Replaced'
      BY <1>1, RequestsKept DEF CheckoutInv, Attempt
<1>5. Opening'
      BY <1>1, ZenonT(40) DEF CheckoutInv, Opening, At, Attempt
<1>6. Known'
      BY <1>1, <1>2 DEF CheckoutInv, AttemptTypes, Known
<1> QED BY <1>3, <1>4, <1>5, <1>6 DEF CheckoutInv

\* The write: a conditional UPDATE that closes open attempts only, makes a success
\* of one that is not, and opens none.
LEMMA Acted ==
    ASSUME CheckoutInv, NEW t \in Tran, NEW aim \in Aims, aim = "SUCCESS" => gateway[t] = "paid", Act(t, aim)
    PROVE  /\ pay' \in [Tran -> PaymentStatus \cup {"none"}]
           /\ \A u \in Tran : /\ pay'[u] = "none" => pay[u] = "none"
                              /\ pay[u] = "none" /\ gateway[u] = "none" => pay'[u] = "none"
                              /\ pay'[u] \in OPEN => pay[u] \in OPEN
                              /\ pay'[u] = "SUCCESS" => pay[u] = "SUCCESS" \/ gateway[u] = "paid"
           /\ succeeded' \subseteq {u \in Tran : pay'[u] = "SUCCESS"}
           /\ Told
<1>1. pay \in [Tran -> PaymentStatus \cup {"none"}] /\ succeeded \subseteq {u \in Tran : pay[u] = "SUCCESS"}
      BY DEF CheckoutInv, AttemptTypes
<1>2. CASE Capture(t) /\ aim = "SUCCESS"
  <2>1. CASE pay[t] # "SUCCESS"
    <3>1. /\ pay' = [pay EXCEPT ![t] = "SUCCESS"] /\ succeeded' = succeeded \cup {t} /\ gateway[t] = "paid"
          BY <1>2, <2>1 DEF Capture
    <3>2. \A u \in Tran : pay'[u] = IF u = t THEN "SUCCESS" ELSE pay[u]
          BY <1>1, <3>1
    <3>3. pay' \in [Tran -> PaymentStatus \cup {"none"}]
          BY <1>1, <3>1 DEF PaymentStatus
    <3>4. Told /\ succeeded' \subseteq {u \in Tran : pay'[u] = "SUCCESS"}
          BY <1>1, <2>1, <3>1, <3>2 DEF Told
    <3> QED BY <3>1, <3>2, <3>3, <3>4 DEF OPEN
  <2>2. CASE pay[t] = "SUCCESS"
    <3>1. UNCHANGED <<pay, succeeded>>
          BY <1>2, <2>2 DEF Capture
    <3> QED BY <1>1, <3>1 DEF Told
  <2> QED BY <2>1, <2>2
<1>3. CASE Close(t, aim) /\ aim \in {"FAILED", "EXPIRED"}
  <2>1. CASE pay[t] \in OPEN
    <3>1. pay' = [pay EXCEPT ![t] = aim] /\ UNCHANGED succeeded
          BY <1>3, <2>1 DEF Close
    <3>2. \A u \in Tran : pay'[u] = IF u = t THEN aim ELSE pay[u]
          BY <1>1, <3>1
    <3>3. pay' \in [Tran -> PaymentStatus \cup {"none"}] /\ Told
          BY <1>1, <1>3, <2>1, <3>1, <3>2 DEF PaymentStatus, OPEN, Told
    <3> QED BY <1>1, <1>3, <2>1, <3>1, <3>2, <3>3 DEF OPEN
  <2>2. CASE pay[t] \notin OPEN
    <3>1. UNCHANGED <<pay, succeeded>>
          BY <1>3, <2>2 DEF Close
    <3> QED BY <1>1, <3>1 DEF Told
  <2> QED BY <2>1, <2>2
<1>4. CASE MarkPending(t)
  <2>1. pay' = [pay EXCEPT ![t] = IF pay[t] = "INITIATED" THEN "PENDING" ELSE pay[t]] /\ UNCHANGED succeeded
        BY <1>4 DEF MarkPending
  <2>2. \A u \in Tran : pay'[u] = pay[u] \/ (pay[u] = "INITIATED" /\ pay'[u] = "PENDING")
        BY <1>1, <2>1
  <2>3. pay' \in [Tran -> PaymentStatus \cup {"none"}] /\ Told
        BY <1>1, <2>1, <2>2 DEF PaymentStatus, OPEN, Told
  <2> QED BY <1>1, <2>1, <2>2, <2>3 DEF OPEN
<1>5. CASE UNCHANGED <<pay, succeeded, failed>>
      BY <1>1, <1>5 DEF Told
<1> QED BY <1>2, <1>3, <1>4, <1>5 DEF Act, Aims

\* A settlement writes what it went for.
LEMMA SettleStep ==
    ASSUME CheckoutInv, NEW w \in Workers, Settle(w)
    PROVE  CheckoutInv' /\ Told
<1>1. asked[w] # NoRequest /\ asked[w] \in Settlement
      BY DEF Settle, CheckoutInv, AttemptTypes
<1>2. PICK t \in Tran, aim \in Aims : asked[w].tran = t /\ asked[w].aim = aim
      BY <1>1 DEF Settlement
<1>3. /\ Act(t, aim) /\ asked' = [asked EXCEPT ![w] = NoRequest] /\ UNCHANGED <<gateway, checkout>>
      /\ aim = "SUCCESS" => gateway[t] = "paid"
      BY <1>1, <1>2 DEF Settle, CheckoutInv, Known
<1>4. /\ pay' \in [Tran -> PaymentStatus \cup {"none"}]
      /\ \A u \in Tran : /\ pay'[u] = "none" => pay[u] = "none"
                         /\ pay[u] = "none" /\ gateway[u] = "none" => pay'[u] = "none"
                         /\ pay'[u] \in OPEN => pay[u] \in OPEN
                         /\ pay'[u] = "SUCCESS" => pay[u] = "SUCCESS" \/ gateway[u] = "paid"
      /\ succeeded' \subseteq {u \in Tran : pay'[u] = "SUCCESS"}
      /\ Told
      BY <1>3, Acted
<1>5. AttemptTypes'
      BY <1>3, <1>4 DEF CheckoutInv, AttemptTypes, Settlement
<1>6. \A u \in Tran : pay[u] = "none" => gateway[u] = "none"
      BY DEF CheckoutInv, Known
<1>7. \A o \in Orders, i \in Numbers : /\ Attempt(o, i)' = "none" <=> Attempt(o, i) = "none"
                                       /\ Attempt(o, i)' \in OPEN => Attempt(o, i) \in OPEN
      BY <1>4, <1>6, Attempted DEF Attempt
<1>8. NoGap' /\ OneOpen' /\ Counted' /\ Replaced'
      BY <1>3, <1>7, RequestsKept DEF CheckoutInv
<1>9. Opening'
  <2>1. \A h, o, i : At(h, "opening", o, i)' <=> At(h, "opening", o, i)
        BY <1>3 DEF At
  <2> QED BY <1>3, <1>7, <2>1 DEF CheckoutInv, Opening
<1>10. Known'
      BY <1>3, <1>4 DEF CheckoutInv, AttemptTypes, Known
<1> QED BY <1>4, <1>5, <1>8, <1>9, <1>10 DEF CheckoutInv

\* Every step of the checkout keeps the invariant, and tells what it may.
LEMMA CheckoutStep == CheckoutInv /\ [CheckoutNext]_checkoutVars => CheckoutInv' /\ Told
<1> SUFFICES ASSUME CheckoutInv, [CheckoutNext]_checkoutVars PROVE CheckoutInv' /\ Told
    OBVIOUS
<1>0. checkout \in [Shoppers -> Requests] /\ asked \in [Workers -> Settlement]
      BY DEF CheckoutInv, AttemptTypes
<1>1. CASE DeskWithCheckout
  <2>1. UNCHANGED <<pay, gateway, checkout, asked>> /\ succeeded' \subseteq succeeded
        BY <1>1 DEF DeskWithCheckout, attemptVars, OnSucceeded, OnFailed, Sweep, DeskKeeps
  <2> QED BY <1>0, <2>1, GivenUp
<1>2. ASSUME NEW h \in Shoppers, NEW o \in Orders, Begin(h, o) PROVE CheckoutInv' /\ Told
      BY <1>2, BeginStep
<1>3. ASSUME NEW h \in Shoppers, Supersede(h) PROVE CheckoutInv' /\ Told
      BY <1>3, SupersedeStep
<1>4. ASSUME NEW h \in Shoppers, Create(h) PROVE CheckoutInv' /\ Told
      BY <1>4, CreateStep
<1>5. ASSUME NEW h \in Shoppers, OpenSession(h) PROVE CheckoutInv' /\ Told
      BY <1>5, OpenSessionStep
<1>6. ASSUME NEW t \in Tran, ShopperPays(t) \/ ShopperDeclined(t) PROVE CheckoutInv' /\ Told
      BY <1>6, GatewayStep DEF ShopperPays, ShopperDeclined
<1>7. ASSUME NEW t \in Tran, Grow(t) PROVE CheckoutInv' /\ Told
      BY <1>0, <1>7, GivenUp DEF Grow
<1>8. ASSUME NEW w \in Workers, NEW t \in Tran, Reconcile(w, t) PROVE CheckoutInv' /\ Told
      BY <1>8, AskStep DEF Reconcile
<1>9. ASSUME NEW w \in Workers, NEW t \in Tran, NEW n \in Notice, Deliver(w, n, t) PROVE CheckoutInv' /\ Told
      BY <1>9, AskStep DEF Deliver
<1>10. ASSUME NEW w \in Workers, Settle(w) PROVE CheckoutInv' /\ Told
      BY <1>10, SettleStep
<1>11. ASSUME NEW w \in Workers, FailToSettle(w) PROVE CheckoutInv' /\ Told
  <2>1. asked' = [asked EXCEPT ![w] = NoRequest] /\ UNCHANGED <<pay, gateway, checkout, succeeded>>
        BY <1>11 DEF FailToSettle
  <2> QED BY <1>0, <2>1, GivenUp DEF Settlement
<1>12. CASE Restart
  <2>1. /\ checkout' = [h \in Shoppers |-> NoRequest] /\ asked' = [w \in Workers |-> NoRequest]
        /\ succeeded' = {} /\ UNCHANGED <<pay, gateway>>
        BY <1>12 DEF Restart
  <2> QED BY <2>1, GivenUp DEF Requests, Settlement
<1>13. CASE UNCHANGED checkoutVars
      BY <1>0, <1>13, GivenUp DEF checkoutVars, attemptVars
<1> QED BY <1>1, <1>2, <1>3, <1>4, <1>5, <1>6, <1>7, <1>8, <1>9, <1>10, <1>11, <1>12, <1>13 DEF CheckoutNext

-----------------------------------------------------------------------------
(* What it means.                                                          *)

\* The strengthened invariant holds of every behaviour of the checkout.
LEMMA CheckoutInvariant == CheckoutSpec => []CheckoutInv
BY CheckoutInitial, CheckoutStep, PTL DEF CheckoutSpec

\* For any number of overlapping requests (PaymentCheckoutService.initiate): at
\* most one attempt of an order is open, at every moment.
THEOREM SingleOpenAttemptCorrect == CheckoutSpec => []SingleOpenAttempt
<1>1. CheckoutInv => SingleOpenAttempt
  <2> SUFFICES ASSUME CheckoutInv, NEW o \in Orders
               PROVE  Cardinality({t \in Attempts(o) : pay[t] \in OPEN}) <= 1
      BY DEF SingleOpenAttempt
  <2> DEFINE S == {t \in Attempts(o) : pay[t] \in OPEN}
  <2>1. ASSUME NEW t \in S, NEW u \in S PROVE t = u
    <3>1. PICK i \in Numbers : t = <<o, i>> /\ Attempt(o, i) \in OPEN
          BY Numbered DEF Attempts, Attempt, OrderOf
    <3>2. PICK j \in Numbers : u = <<o, j>> /\ Attempt(o, j) \in OPEN
          BY Numbered DEF Attempts, Attempt, OrderOf
    <3> QED BY <3>1, <3>2 DEF CheckoutInv, OneOpen
  <2> HIDE DEF S
  <2>2. Cardinality(S) <= 1
    <3>1. CASE S = {}
          BY <3>1, FS_EmptySet
    <3>2. CASE S # {}
      <4>1. PICK t \in S : S = {t}
            BY <2>1, <3>2
      <4>2. Cardinality({t}) = 1
            BY FS_Singleton
      <4>3. Cardinality(S) = 1
            BY <4>1, <4>2
      <4> QED BY <4>3
    <3> QED BY <3>1, <3>2
  <2> QED BY <2>2 DEF S
<1> QED BY <1>1, CheckoutInvariant, PTL

\* Whatever callback, IPN or look of the reconciler settles an attempt, it is a
\* SUCCESS only if the gateway captured it in the amount asked for
\* (PaymentSettlementService.confirm after validation).
THEOREM CaptureRealCorrect == CheckoutSpec => []CaptureReal
<1>1. CheckoutInv => CaptureReal
      BY DEF CheckoutInv, Known, CaptureReal
<1> QED BY <1>1, CheckoutInvariant, PTL

\* For any number of settlements of an attempt, at the same time or one after the
\* other: one SUCCESS, told in one event by the step that makes it, for good.
THEOREM OneSuccessOneEventCorrect == CheckoutSpec => OneSuccessOneEvent
<1>1. CheckoutInv /\ [CheckoutNext]_checkoutVars =>
        [\A t \in Tran :
           /\ t \in succeeded' \ succeeded <=> pay[t] # "SUCCESS" /\ pay'[t] = "SUCCESS"
           /\ pay[t] = "SUCCESS" => pay'[t] = "SUCCESS"]_checkoutVars
      BY CheckoutStep DEF Told
<1> QED BY <1>1, CheckoutInvariant, PTL DEF CheckoutSpec, OneSuccessOneEvent

=============================================================================
