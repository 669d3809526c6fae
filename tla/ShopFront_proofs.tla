-------------------------- MODULE ShopFront_proofs --------------------------
(***************************************************************************)
(* From the cart to the message, for any number of carts, tabs,            *)
(* submissions, keys, messages, workers and staff.                         *)
(***************************************************************************)
EXTENDS PlacementRequests, Outbox, Cart, Quote, Sums_proofs, FiniteSetTheorems, TLAPS

-----------------------------------------------------------------------------
(* However many submissions overlap under however many keys, and however   *)
(* often their transactions fail and are tried again: order numbers have   *)
(* no gap and no double, a key places one order in its day, and a page is  *)
(* told the order of its own key and body.  The argument is that of two    *)
(* locks: the counter row has one holder, who numbers with the committed   *)
(* number; a key has one claimant, who found no row under it.              *)

Requests == [key : Keys \cup {"none"}, body : Bodies \cup {"none"}, at : Stages,
             try : Nat, sawNo : Nat, sawChanges : Nat, no : Nat]

Shape ==
    /\ keyRow \in [Keys -> [no : Nat, body : Bodies \cup {"none"}]]
    /\ IsFiniteSet(placed)
    /\ nextNo \in Nat \ {0}
    /\ request \in [Submissions -> Requests]
    /\ \A r \in Submissions : request[r].at \notin {"unsent", "done"} => request[r].key \in Keys
    /\ expiries \in [Keys -> Nat]
    /\ changes \in Nat

Claims(q) == q.at \in {"number", "write"}

\* One holder of the counter, numbering with what is committed.
CounterLocked ==
    \A r \in Submissions :
        request[r].at = "write" =>
            /\ request[r].no = nextNo
            /\ \A s \in Submissions : request[s].at = "write" => s = r

\* One claimant per key, and nothing committed under it.
KeyLocked ==
    \A r \in Submissions :
        Claims(request[r]) =>
            /\ keyRow[request[r].key] = NoKey
            /\ \A s \in Submissions : Claims(request[s]) /\ request[s].key = request[r].key => s = r

\* A key row that has not expired speaks of an order.
RowsReal == \A k \in Keys : keyRow[k] # NoKey => [no |-> keyRow[k].no, key |-> k, body |-> keyRow[k].body] \in placed

OrdersOf(k) == {o \in placed : o.key = k}

\* Each order of a key but the one its row speaks of has seen its row expire.
KeysCounted ==
    \A k \in Keys : Cardinality(OrdersOf(k)) <= expiries[k] + (IF keyRow[k] = NoKey THEN 0 ELSE 1)

PlacementInv ==
    Shape /\ CounterLocked /\ KeyLocked /\ RowsReal /\ KeysCounted /\ NumbersGapless /\ AnswersOwnOrder

\* Nothing is placed and nothing asked at the start.
LEMMA PlacementInitial == PlacementInit => PlacementInv
<1> SUFFICES ASSUME PlacementInit PROVE PlacementInv
    OBVIOUS
<1>1. Shape /\ CounterLocked /\ KeyLocked /\ RowsReal /\ AnswersOwnOrder
      BY FS_EmptySet DEF PlacementInit, Shape, CounterLocked, KeyLocked, RowsReal, AnswersOwnOrder,
                         Requests, Stages, Unsent, NoKey, Claims
<1>2. \A k \in Keys : OrdersOf(k) = {}
      BY DEF PlacementInit, OrdersOf
<1>3. KeysCounted /\ NumbersGapless
      BY <1>2, FS_EmptySet DEF PlacementInit, KeysCounted, NumbersGapless
<1> QED BY <1>1, <1>3 DEF PlacementInv

\* A step that moves one request: what it must respect of the two locks.
LEMMA RequestMoves ==
    ASSUME PlacementInv, NEW r \in Submissions, NEW q \in Requests,
           request' = [request EXCEPT ![r] = q],
           UNCHANGED <<keyRow, placed, nextNo, expiries, changes>>,
           q.at \notin {"unsent", "done"} => q.key \in Keys,
           Claims(q) => /\ keyRow[q.key] = NoKey
                        /\ \A s \in Submissions : Claims(request[s]) /\ request[s].key = q.key => s = r,
           q.at = "write" => q.no = nextNo /\ \A s \in Submissions : request[s].at # "write",
           q.at = "answered" => [no |-> q.no, key |-> q.key, body |-> q.body] \in placed
    PROVE  PlacementInv'
<1> USE DEF PlacementInv
<1>1. \A s \in Submissions : request'[s] = IF s = r THEN q ELSE request[s]
      BY DEF Shape
<1>2. Shape'
      BY <1>1 DEF Shape
<1>3. CounterLocked' /\ AnswersOwnOrder'
      BY <1>1 DEF CounterLocked, AnswersOwnOrder
<1>4. KeyLocked'
      BY <1>1 DEF KeyLocked
<1>5. RowsReal' /\ KeysCounted' /\ NumbersGapless'
      BY DEF RowsReal, KeysCounted, NumbersGapless, OrdersOf
<1> QED BY <1>2, <1>3, <1>4, <1>5

\* Giving the transaction up or starting it again releases both locks.
LEMMA RollbackGood ==
    ASSUME PlacementInv, NEW r \in Submissions, request[r].key \in Keys,
           NEW at \in Stages \ {"number", "write", "answered"}, RolledBack(r, at),
           UNCHANGED <<keyRow, placed, nextNo, expiries, changes>>
    PROVE  PlacementInv'
<1> DEFINE q == [request[r] EXCEPT !.at = at, !.no = 0, !.sawNo = 0, !.sawChanges = 0]
<1>1. request[r] \in Requests
      BY DEF PlacementInv, Shape
<1>2. q \in Requests /\ q.at = at /\ q.key = request[r].key
      BY <1>1 DEF Requests
<1>3. request' = [request EXCEPT ![r] = q]
      BY DEF RolledBack
<1> QED BY <1>2, <1>3, RequestMoves DEF Claims

\* A transaction that conflicts with another is rolled back.
LEMMA ConflictGood ==
    ASSUME PlacementInv, NEW r \in Submissions, request[r].key \in Keys, Conflict(r),
           UNCHANGED <<keyRow, placed, nextNo, expiries, changes>>
    PROVE  PlacementInv'
BY RollbackGood DEF Conflict, Stages

\* A page submits its checkout under its key.
LEMMA SubmitGood ==
    ASSUME PlacementInv, NEW r \in Submissions, NEW k \in Keys, NEW b \in Bodies, Submit(r, k, b)
    PROVE  PlacementInv'
<1> DEFINE q == [Unsent EXCEPT !.key = k, !.body = b, !.at = "lookup"]
<1>1. q \in Requests /\ q.at = "lookup" /\ q.key = k
      BY DEF Unsent, Requests, Stages
<1> QED BY <1>1, RequestMoves DEF Submit, Claims

\* A stored answer is replayed to the body it was stored for.
LEMMA LookupGood ==
    ASSUME PlacementInv, NEW r \in Submissions, Lookup(r)
    PROVE  PlacementInv'
<1>1. request[r] \in Requests /\ request[r].key \in Keys
      BY DEF PlacementInv, Shape, Lookup
<1>2. ASSUME NEW at \in {"begin", "failed"}, Moved(r, at) PROVE PlacementInv'
      <2>1. [request[r] EXCEPT !.at = at] \in Requests
            BY <1>1 DEF Requests, Stages
      <2> QED BY <1>1, <1>2, <2>1, RequestMoves DEF Lookup, Moved, Claims, Requests
<1>3. CASE /\ keyRow[request[r].key] # NoKey /\ keyRow[request[r].key].body = request[r].body
           /\ request' = [request EXCEPT ![r].at = "answered", ![r].no = keyRow[request[r].key].no]
      <2> DEFINE q == [request[r] EXCEPT !.at = "answered", !.no = keyRow[request[r].key].no]
      <2>1. /\ q \in Requests /\ q.at = "answered" /\ q.key = request[r].key
            /\ q.no = keyRow[request[r].key].no /\ q.body = request[r].body
            BY <1>1 DEF Requests, Stages, PlacementInv, Shape
      <2>2. [no |-> q.no, key |-> q.key, body |-> q.body] \in placed
            BY <1>1, <1>3, <2>1 DEF PlacementInv, RowsReal
      <2>3. request' = [request EXCEPT ![r] = q]
            BY <1>3 DEF PlacementInv, Shape
      <2> HIDE DEF q
      <2> QED BY <1>1, <2>1, <2>2, <2>3, RequestMoves DEF Lookup, Claims
<1> QED BY <1>2, <1>3 DEF Lookup

\* A transaction begins, with what is committed by then.
LEMMA BeginGood ==
    ASSUME PlacementInv, NEW r \in Submissions, Begin(r)
    PROVE  PlacementInv'
<1> DEFINE n == request[r].try + 1
           started == [request[r] EXCEPT !.at = "claim", !.try = n]
           q == [started EXCEPT !.sawNo = nextNo, !.sawChanges = changes]
<1>1. request[r] \in Requests /\ request[r].key \in Keys
      BY DEF PlacementInv, Shape, Begin
<1>2. nextNo \in Nat /\ changes \in Nat /\ n \in Nat
      BY <1>1 DEF PlacementInv, Shape, Requests
<1>3. q \in Requests /\ q.at = "claim" /\ q.key = request[r].key
      <2> HIDE DEF n
      <2>1. started \in Requests /\ started.at = "claim" /\ started.key = request[r].key
            BY <1>1, <1>2 DEF Requests, Stages
      <2> HIDE DEF started
      <2> QED BY <1>2, <2>1 DEF Requests
<1>4. request' = [request EXCEPT ![r] = q]
      BY DEF Begin, PlacementInv, Shape
<1> HIDE DEF q
<1> QED BY <1>1, <1>3, <1>4, RequestMoves DEF Begin, Claims

\* The key is claimed when nobody else holds it and no row is under it.
LEMMA ClaimKeyGood ==
    ASSUME PlacementInv, NEW r \in Submissions, ClaimKey(r)
    PROVE  PlacementInv'
<1>1. request[r] \in Requests /\ request[r].key \in Keys /\ UNCHANGED <<keyRow, placed, nextNo, expiries, changes>>
      BY DEF PlacementInv, Shape, ClaimKey
<1>2. CASE keyRow[request[r].key] = NoKey /\ Moved(r, "number")
      <2> DEFINE q == [request[r] EXCEPT !.at = "number"]
      <2>1. q \in Requests /\ q.at = "number" /\ q.key = request[r].key
            BY <1>1 DEF Requests, Stages
      <2>2. \A s \in Submissions : ~(Claims(request[s]) /\ request[s].key = q.key)
            BY <2>1 DEF ClaimKey, Claimants, Claims
      <2> QED BY <1>1, <1>2, <2>1, <2>2, RequestMoves DEF Moved, Claims
<1>3. CASE RolledBack(r, "collided")
      BY <1>1, <1>3, RollbackGood DEF Stages
<1>4. CASE Conflict(r)
      BY <1>1, <1>4, ConflictGood
<1> QED BY <1>2, <1>3, <1>4 DEF ClaimKey

\* The number is taken when nobody else holds the counter row.
LEMMA TakeNumberGood ==
    ASSUME PlacementInv, NEW r \in Submissions, TakeNumber(r)
    PROVE  PlacementInv'
<1>1. request[r] \in Requests /\ request[r].key \in Keys /\ UNCHANGED <<keyRow, placed, nextNo, expiries, changes>>
      BY DEF PlacementInv, Shape, TakeNumber
<1>2. CASE request' = [request EXCEPT ![r].at = "write", ![r].no = nextNo]
      <2> DEFINE q == [request[r] EXCEPT !.at = "write", !.no = nextNo]
      <2>1. q \in Requests /\ q.at = "write" /\ q.key = request[r].key /\ q.no = nextNo
            BY <1>1 DEF Requests, Stages, PlacementInv, Shape
      <2>2. \A s \in Submissions : request[s].at # "write"
            BY DEF TakeNumber, CounterHolders
      <2>3. /\ keyRow[q.key] = NoKey
            /\ \A s \in Submissions : Claims(request[s]) /\ request[s].key = q.key => s = r
            BY <2>1 DEF TakeNumber, PlacementInv, KeyLocked, Claims
      <2>4. request' = [request EXCEPT ![r] = q]
            BY <1>2 DEF PlacementInv, Shape
      <2> HIDE DEF q
      <2> QED BY <1>1, <2>1, <2>2, <2>3, <2>4, RequestMoves
<1>3. CASE Conflict(r)
      BY <1>1, <1>3, ConflictGood
<1> QED BY <1>2, <1>3 DEF TakeNumber

\* A submission that is given up lets go of its claims.
LEMMA GivenUpGood ==
    ASSUME PlacementInv, NEW r \in Submissions, WriteConflict(r) \/ Refuse(r)
    PROVE  PlacementInv'
<1>1. request[r].key \in Keys /\ UNCHANGED <<keyRow, placed, nextNo, expiries, changes>>
      BY DEF PlacementInv, Shape, WriteConflict, Refuse, InTransaction
<1> QED BY <1>1, RollbackGood, ConflictGood DEF WriteConflict, Refuse, Stages

\* An answer reaches the page it is for.
LEMMA DeliverGood ==
    ASSUME PlacementInv, NEW r \in Submissions, Deliver(r)
    PROVE  PlacementInv'
<1>1. [Unsent EXCEPT !.at = "done"] \in Requests
      BY DEF Unsent, Requests, Stages
<1> QED BY <1>1, RequestMoves DEF Deliver, Claims, Unsent

\* The holder of both locks writes order, key row and counter together.
LEMMA CommitGood ==
    ASSUME PlacementInv, NEW r \in Submissions, Commit(r)
    PROVE  PlacementInv'
<1> DEFINE q == request[r]
           o == [no |-> q.no, key |-> q.key, body |-> q.body]
           done == [q EXCEPT !.at = "answered", !.sawNo = 0, !.sawChanges = 0]
<1>1. /\ q \in Requests /\ q.key \in Keys /\ q.at = "write" /\ q.no = nextNo
      /\ keyRow[q.key] = NoKey /\ nextNo \in Nat \ {0}
      BY DEF PlacementInv, Shape, Commit, CounterLocked, KeyLocked, Claims
<1>2. /\ placed' = placed \cup {o}
      /\ keyRow' = [keyRow EXCEPT ![q.key] = [no |-> q.no, body |-> q.body]]
      /\ nextNo' = nextNo + 1
      /\ request' = [request EXCEPT ![r] = done]
      /\ UNCHANGED <<expiries, changes>>
      BY <1>1 DEF Commit
<1>3. done \in Requests /\ done.at = "answered" /\ done.no = q.no /\ done.key = q.key /\ done.body = q.body
      BY <1>1 DEF Requests, Stages
<1>4. \A s \in Submissions : request'[s] = IF s = r THEN done ELSE request[s]
      BY <1>2 DEF PlacementInv, Shape
<1>5. /\ [no |-> q.no, body |-> q.body] # NoKey /\ keyRow'[q.key] = [no |-> q.no, body |-> q.body]
      /\ \A k \in Keys : k # q.key => keyRow'[k] = keyRow[k]
      BY <1>1, <1>2 DEF NoKey, PlacementInv, Shape
<1>6. o \notin placed
      <2>1. \A p \in placed : p.no \in 1..(nextNo - 1)
            BY DEF PlacementInv, NumbersGapless
      <2>2. o.no = nextNo
            BY <1>1
      <2> QED BY <1>1, <2>1, <2>2
<1>7. Shape'
      <2>1. keyRow' \in [Keys -> [no : Nat, body : Bodies \cup {"none"}]]
            BY <1>1, <1>2 DEF PlacementInv, Shape, Requests
      <2>2. request' \in [Submissions -> Requests] /\ IsFiniteSet(placed')
            BY <1>2, <1>3, FS_AddElement DEF PlacementInv, Shape
      <2>3. \A s \in Submissions : request'[s].at \notin {"unsent", "done"} => request'[s].key \in Keys
            BY <1>1, <1>3, <1>4 DEF PlacementInv, Shape
      <2> QED BY <1>1, <1>2, <2>1, <2>2, <2>3 DEF PlacementInv, Shape
<1>8. CounterLocked' /\ KeyLocked'
      <2>1. \A s \in Submissions : s # r => /\ request[s].at # "write"
                                           /\ ~(Claims(request[s]) /\ request[s].key = q.key)
            BY <1>1 DEF PlacementInv, CounterLocked, KeyLocked, Claims
      <2>2. \A s \in Submissions : Claims(request'[s]) => s # r /\ request'[s] = request[s] /\ request[s].key # q.key
            BY <1>3, <1>4, <2>1 DEF Claims
      <2>3. CounterLocked'
            BY <1>3, <1>4, <2>1 DEF CounterLocked
      <2>4. KeyLocked'
            <3>1. \A s \in Submissions : Claims(request[s]) => request[s].key \in Keys
                  BY DEF PlacementInv, Shape, Claims
            <3> QED BY <1>5, <2>2, <3>1 DEF PlacementInv, KeyLocked, Claims
      <2> QED BY <2>3, <2>4
<1>9. RowsReal'
      BY <1>2, <1>5 DEF PlacementInv, RowsReal
<1>10. AnswersOwnOrder'
      BY <1>2, <1>3, <1>4 DEF PlacementInv, AnswersOwnOrder
<1>11. NumbersGapless'
      <2>1. {p.no : p \in placed'} = 1..(nextNo' - 1)
            <3>1. {p.no : p \in placed'} = {p.no : p \in placed} \cup {nextNo}
                  <4>1. o.no = nextNo
                        BY <1>1
                  <4> HIDE DEF o
                  <4> QED BY <1>2, <4>1
            <3> QED BY <1>1, <1>2, <3>1 DEF PlacementInv, NumbersGapless
      <2>2. Cardinality(placed') = Cardinality(placed) + 1
            BY <1>2, <1>6, FS_AddElement DEF PlacementInv, Shape
      <2> QED BY <1>1, <1>2, <2>1, <2>2 DEF PlacementInv, NumbersGapless
<1>12. KeysCounted'
      <2> SUFFICES ASSUME NEW k \in Keys
                   PROVE  Cardinality(OrdersOf(k)') <= expiries'[k] + (IF keyRow'[k] = NoKey THEN 0 ELSE 1)
          BY DEF KeysCounted
      <2>1. Cardinality(OrdersOf(k)) <= expiries[k] + (IF keyRow[k] = NoKey THEN 0 ELSE 1)
            BY DEF PlacementInv, KeysCounted
      <2>2. CASE k # q.key
            <3>1. OrdersOf(k)' = OrdersOf(k)
                  BY <1>2, <2>2 DEF OrdersOf
            <3> QED BY <1>2, <1>5, <2>1, <2>2, <3>1
      <2>3. CASE k = q.key
            <3>1. OrdersOf(k)' = OrdersOf(k) \cup {o} /\ o \notin OrdersOf(k)
                  BY <1>2, <1>6, <2>3 DEF OrdersOf
            <3>2. IsFiniteSet(OrdersOf(k))
                  BY FS_Subset DEF OrdersOf, PlacementInv, Shape
            <3>3. Cardinality(OrdersOf(k)') = Cardinality(OrdersOf(k)) + 1 /\ Cardinality(OrdersOf(k)) \in Nat
                  BY <3>1, <3>2, FS_AddElement, FS_CardinalityType
            <3> QED BY <1>1, <1>2, <1>5, <2>1, <2>3, <3>3 DEF PlacementInv, Shape
      <2> QED BY <2>2, <2>3
<1> QED BY <1>7, <1>8, <1>9, <1>10, <1>11, <1>12 DEF PlacementInv

\* A key that expires may place one order more.
LEMMA ExpireGood ==
    ASSUME PlacementInv, NEW k \in Keys, Expire(k)
    PROVE  PlacementInv'
<1>1. /\ keyRow' = [keyRow EXCEPT ![k] = NoKey] /\ keyRow[k] # NoKey
      /\ expiries' = [expiries EXCEPT ![k] = @ + 1]
      /\ UNCHANGED <<placed, nextNo, request, changes>>
      BY DEF Expire
<1>2. Shape'
      BY <1>1 DEF PlacementInv, Shape, NoKey
<1>3. CounterLocked' /\ KeyLocked' /\ RowsReal' /\ AnswersOwnOrder' /\ NumbersGapless'
      BY <1>1 DEF PlacementInv, Shape, CounterLocked, KeyLocked, RowsReal, AnswersOwnOrder, NumbersGapless, Claims
<1>4. KeysCounted'
      BY <1>1 DEF PlacementInv, Shape, KeysCounted, OrdersOf
<1> QED BY <1>2, <1>3, <1>4 DEF PlacementInv

\* Every step of a placement keeps the invariant.
LEMMA PlacementStep == PlacementInv /\ [PlacementNext]_placementVars => PlacementInv'
<1> SUFFICES ASSUME PlacementInv, [PlacementNext]_placementVars PROVE PlacementInv'
    OBVIOUS
<1>1. CASE UNCHANGED <<keyRow, placed, nextNo, request, expiries>> /\ changes' \in Nat
      BY <1>1 DEF PlacementInv, Shape, CounterLocked, KeyLocked, RowsReal, KeysCounted, OrdersOf,
                  NumbersGapless, AnswersOwnOrder, Claims
<1>2. ASSUME NEW r \in Submissions, Proceed(r) PROVE PlacementInv'
      BY <1>2, LookupGood, BeginGood, ClaimKeyGood, TakeNumberGood, GivenUpGood, CommitGood, DeliverGood
         DEF Proceed
<1>3. CASE UNCHANGED placementVars \/ ChangeElsewhere
      BY <1>1, <1>3 DEF placementVars, ChangeElsewhere, PlacementInv, Shape
<1> QED BY <1>2, <1>3, GivenUpGood, SubmitGood, ExpireGood DEF PlacementNext

\* The placements' invariant holds of every behaviour.
LEMMA PlacementSafe == PlacementSpec => []PlacementInv
BY PlacementInitial, PlacementStep, PTL DEF PlacementSpec

\* document-counter.service.ts:19, for any number of submissions: the numbers of the
\* committed orders are 1, 2, 3 ... and none is given twice.
THEOREM NumbersGaplessCorrect == PlacementSpec => []NumbersGapless
<1>1. PlacementInv => NumbersGapless
      BY DEF PlacementInv
<1> QED BY <1>1, PlacementSafe, PTL

\* A replayed answer (idempotency.service.ts:12) is the order of the key and body asked for.
THEOREM AnswersOwnOrderCorrect == PlacementSpec => []AnswersOwnOrder
<1>1. PlacementInv => AnswersOwnOrder
      BY DEF PlacementInv
<1> QED BY <1>1, PlacementSafe, PTL

\* The unique index on the key (idempotency.service.ts:14): one order per key and day.
THEOREM OneOrderPerKeyCorrect == PlacementSpec => []OneOrderPerKey
<1>1. PlacementInv => OneOrderPerKey
      <2> SUFFICES ASSUME PlacementInv, NEW k \in Keys
                   PROVE  Cardinality({o \in placed : o.key = k}) <= 1 + expiries[k]
          BY DEF OneOrderPerKey
      <2>1. IsFiniteSet(OrdersOf(k)) /\ expiries[k] \in Nat
            BY FS_Subset DEF OrdersOf, PlacementInv, Shape
      <2>2. Cardinality(OrdersOf(k)) \in Nat
            BY <2>1, FS_CardinalityType
      <2> QED BY <2>1, <2>2 DEF PlacementInv, KeysCounted, OrdersOf
<1> QED BY <1>1, PlacementSafe, PTL

-----------------------------------------------------------------------------
(* A message on record SENT was delivered, and only a retry that was open  *)
(* beside another of the same message takes it back, for any number of     *)
(* messages, workers, staff, crashes and retries: a worker that reports    *)
(* success has delivered, no worker touches a row that is not SENDING, and *)
(* a retry that was alone since it was allowed finds its row as it was.    *)

\* Success is only reported of what was delivered, SENT only recorded of it.
Honest ==
    /\ \A w \in Workers, m \in Messages : claimed[w][m].result = "ok" => m \in delivered
    /\ \A m \in Messages : row[m].status = "SENT" => m \in delivered

\* Two open retries of a message are remembered; the row of any other retry has
\* ended unsent, and nobody else moves it.
RetrySound ==
    /\ \A s, other \in Staff :
         s # other /\ staff[s] = staff[other] /\ staff[s] # Nowhere => staff[s] \in twice
    /\ \A s \in Staff : \/ staff[s] = Nowhere \/ staff[s] \in twice
                         \/ row[staff[s]].status \in {"FAILED", "CANCELLED"}

OutboxInv == OutboxTypeOK /\ Honest /\ RetrySound

\* No sent row moves unless two of its retries were open, and no row becomes SENT undelivered.
RowsKept ==
    \A m \in Messages : /\ row[m].status = "SENT" /\ m \notin twice => row'[m].status = "SENT"
                        /\ row'[m].status = "SENT" => m \in delivered'

Good == OutboxInv' /\ RowsKept

\* No message is sent at the start.
LEMMA OutboxInitial == OutboxInit => OutboxInv
BY DEF OutboxInit, OutboxInv, OutboxTypeOK, Honest, RetrySound, NotMine, Status, Results, Nowhere

\* The next steps of a row nobody has claimed.
LEMMA RowSteps ==
    ASSUME OutboxInv, NEW m \in Messages, Enqueue(m) \/ ComesDue(m) \/ Cancel(m)
    PROVE  Good
<1> USE DEF OutboxInv, OutboxTypeOK, Status
<1> DEFINE Rows == [status : Status, attempts : Nat, due : BOOLEAN]
<1>0. row \in [Messages -> Rows]
      OBVIOUS
<1>1. UNCHANGED <<claimed, staff, delivered, twice>>
      BY DEF Enqueue, ComesDue, Cancel
<1>2. PICK r \in Rows :
        /\ row' = [row EXCEPT ![m] = r]
        /\ \/ r.status = row[m].status
           \/ r.status \in {"PENDING", "CANCELLED"} /\ row[m].status \in {"none", "PENDING"}
      <2>1. CASE Enqueue(m)
            <3> WITNESS [status |-> "PENDING", attempts |-> 0, due |-> TRUE] \in Rows
            <3> QED BY <2>1 DEF Enqueue
      <2>2. CASE ComesDue(m)
            <3> WITNESS [row[m] EXCEPT !.due = TRUE] \in Rows
            <3> QED BY <2>2 DEF ComesDue
      <2>3. CASE Cancel(m)
            <3> WITNESS [row[m] EXCEPT !.status = "CANCELLED"] \in Rows
            <3> QED BY <2>3 DEF Cancel
      <2> QED BY <2>1, <2>2, <2>3
<1>3. Honest' /\ RowsKept
      BY <1>1, <1>2 DEF Honest, RowsKept
<1>4. RetrySound'
      BY <1>1, <1>2 DEF RetrySound
<1>5. row' \in [Messages -> Rows]
      BY <1>0, <1>2
<1> QED BY <1>1, <1>3, <1>4, <1>5 DEF Good

\* A batch is claimed from the rows that wait or whose lease is over.
LEMMA ClaimGood ==
    ASSUME OutboxInv, NEW w \in Workers, Claim(w)
    PROVE  Good
<1> USE DEF OutboxInv
<1>1. PICK S \in SUBSET Claimable :
        /\ row' = [m \in Messages |->
                     IF m \in S THEN [status |-> "SENDING", attempts |-> row[m].attempts + 1, due |-> FALSE]
                     ELSE row[m]]
        /\ claimed' = [claimed EXCEPT ![w] =
                         [m \in Messages |->
                            IF m \in S THEN [attempt |-> row[m].attempts + 1, result |-> "claimed"] ELSE NotMine]]
      BY DEF Claim
<1>2. UNCHANGED <<staff, delivered, twice>>
      BY DEF Claim
<1>3. row' \in [Messages -> [status : Status, attempts : Nat, due : BOOLEAN]]
      BY <1>1 DEF OutboxTypeOK, Status
<1>4. [m \in Messages |-> IF m \in S THEN [attempt |-> row[m].attempts + 1, result |-> "claimed"] ELSE NotMine]
        \in [Messages -> {NotMine} \cup [attempt : Nat \ {0}, result : Results]]
      BY DEF OutboxTypeOK, Results
<1>5. OutboxTypeOK'
      BY <1>1, <1>2, <1>3, <1>4 DEF OutboxTypeOK
<1>6. \A m \in Messages : \/ row'[m].status = row[m].status
                          \/ row'[m].status = "SENDING" /\ row[m].status \in {"PENDING", "SENDING"}
      BY <1>1 DEF Claimable
<1>7. \A v \in Workers, m \in Messages :
        claimed'[v][m].result = "ok" => v # w /\ claimed'[v][m] = claimed[v][m]
      BY <1>1 DEF OutboxTypeOK, NotMine
<1>8. Honest' /\ RowsKept
      BY <1>2, <1>6, <1>7 DEF Honest, RowsKept
<1>9. RetrySound'
      BY <1>2, <1>6 DEF RetrySound, OutboxTypeOK
<1> QED BY <1>5, <1>8, <1>9 DEF Good

\* The provider's answer: a success was delivered.
LEMMA SendGood ==
    ASSUME OutboxInv, NEW w \in Workers, NEW m \in Messages, Send(w, m)
    PROVE  Good
<1> USE DEF OutboxInv
<1>1. PICK result \in {"ok", "retryable", "permanent"} :
        /\ claimed' = [claimed EXCEPT ![w][m].result = result]
        /\ \/ result # "permanent" /\ delivered' = delivered \cup {m}
           \/ result # "ok" /\ UNCHANGED delivered
      BY DEF Send
<1>2. UNCHANGED <<row, staff, twice>>
      BY DEF Send
<1>3. claimed[w][m] \in [attempt : Nat \ {0}, result : Results]
      BY DEF Send, OutboxTypeOK, NotMine
<1>4. /\ claimed'[w][m] = [claimed[w][m] EXCEPT !.result = result]
      /\ claimed'[w][m] \in [attempt : Nat \ {0}, result : Results]
      /\ claimed' \in [Workers -> [Messages -> {NotMine} \cup [attempt : Nat \ {0}, result : Results]]]
      BY <1>1, <1>3 DEF OutboxTypeOK, Results
<1>5. OutboxTypeOK'
      BY <1>1, <1>2, <1>4 DEF OutboxTypeOK
<1>6. \A v \in Workers, n \in Messages : v # w \/ n # m => claimed'[v][n] = claimed[v][n]
      BY <1>1 DEF OutboxTypeOK
<1>7. claimed'[w][m].result = "ok" => m \in delivered'
      BY <1>1, <1>3, <1>4
<1>8. Honest' /\ RowsKept
      BY <1>1, <1>2, <1>6, <1>7 DEF Honest, RowsKept
<1> QED BY <1>2, <1>5, <1>8 DEF Good, RetrySound

\* The outcome of a sending is only written over SENDING.
LEMMA RecordGood ==
    ASSUME OutboxInv, NEW w \in Workers, NEW m \in Messages, Record(w, m)
    PROVE  Good
<1> USE DEF OutboxInv
<1>1. UNCHANGED <<staff, delivered, twice>> /\ claimed' = [claimed EXCEPT ![w][m] = NotMine]
      BY DEF Record
<1>2. Outcome(claimed[w][m]) \in Status
      BY DEF Outcome, AfterFailure, Status
<1>3. row' \in [Messages -> [status : Status, attempts : Nat, due : BOOLEAN]]
      BY <1>2 DEF Record, OutboxTypeOK
<1>4. OutboxTypeOK'
      BY <1>1, <1>3 DEF OutboxTypeOK
<1>5. \A n \in Messages :
        \/ row'[n].status = row[n].status
        \/ n = m /\ row[n].status = "SENDING" /\ row'[n].status = Outcome(claimed[w][m])
      BY DEF Record, OutboxTypeOK
<1>6. Outcome(claimed[w][m]) = "SENT" => m \in delivered
      BY DEF Outcome, AfterFailure, Honest
<1>7. \A v \in Workers, n \in Messages : claimed'[v][n].result = "ok" => claimed[v][n].result = "ok"
      BY <1>1 DEF OutboxTypeOK, NotMine
<1>8. Honest' /\ RowsKept
      BY <1>1, <1>5, <1>6, <1>7 DEF Honest, RowsKept
<1>9. RetrySound'
      BY <1>1, <1>5 DEF RetrySound, OutboxTypeOK
<1> QED BY <1>4, <1>8, <1>9 DEF Good

\* A success that is not recorded, and a worker that stops, forget what they know.
LEMMA WorkerLoses ==
    ASSUME OutboxInv, NEW w \in Workers, Crash(w) \/ \E m \in Messages : RecordLost(w, m)
    PROVE  Good
<1> USE DEF OutboxInv
<1>1. UNCHANGED <<row, staff, delivered, twice>>
      BY DEF Crash, RecordLost
<1>2. /\ claimed' \in [Workers -> [Messages -> {NotMine} \cup [attempt : Nat \ {0}, result : Results]]]
      /\ \A v \in Workers, n \in Messages : claimed'[v][n].result = "ok" => claimed[v][n].result = "ok"
      <2>1. CASE Crash(w)
            BY <2>1 DEF Crash, OutboxTypeOK, NotMine
      <2>2. ASSUME NEW m \in Messages, RecordLost(w, m) PROVE <1>2
            <3>1. /\ claimed[w][m] \in [attempt : Nat \ {0}, result : Results]
                  /\ claimed' = [claimed EXCEPT ![w][m].result = "retryable"]
                  BY <2>2 DEF RecordLost, OutboxTypeOK, NotMine
            <3>2. [claimed[w][m] EXCEPT !.result = "retryable"] \in [attempt : Nat \ {0}, result : Results]
                  BY <3>1 DEF Results
            <3> QED BY <3>1, <3>2 DEF OutboxTypeOK
      <2> QED BY <2>1, <2>2
<1> QED BY <1>1, <1>2 DEF Good, OutboxTypeOK, Honest, RetrySound, RowsKept

\* A retry is allowed on a row that has ended; one that stays alone finds it so.
LEMMA RetryGood ==
    ASSUME OutboxInv, NEW s \in Staff,
           WriteRetry(s) \/ \E m \in Messages : ReadForRetry(s, m)
    PROVE  Good
<1> USE DEF OutboxInv
<1>1. CASE WriteRetry(s)
      <2>1. /\ staff[s] \in Messages /\ staff[s] # Nowhere
            /\ staff[s] \notin twice => row[staff[s]].status \in {"FAILED", "CANCELLED"}
            /\ row' = [row EXCEPT ![staff[s]] = [status |-> "PENDING", attempts |-> 0, due |-> TRUE]]
            /\ staff' = [staff EXCEPT ![s] = Nowhere]
            /\ UNCHANGED <<claimed, delivered, twice>>
            BY <1>1 DEF WriteRetry, OutboxTypeOK, RetrySound
      <2>2. OutboxTypeOK'
            BY <2>1 DEF OutboxTypeOK, Status
      <2>3. \A other \in Staff : other # s => staff'[other] = staff[other]
            BY <2>1 DEF OutboxTypeOK
      <2>4. \A other \in Staff : \/ staff'[other] = Nowhere \/ staff'[other] \in twice
                                 \/ other # s /\ staff'[other] = staff[other] /\ staff[other] # staff[s]
            BY <2>1, <2>3 DEF OutboxTypeOK, RetrySound
      <2>5. RetrySound'
            BY <2>1, <2>3, <2>4 DEF RetrySound, OutboxTypeOK
      <2>6. Honest' /\ RowsKept
            BY <2>1 DEF Honest, RowsKept, OutboxTypeOK
      <2> QED BY <2>2, <2>5, <2>6 DEF Good
<1>2. ASSUME NEW m \in Messages, ReadForRetry(s, m) PROVE Good
      <2>1. /\ staff[s] = Nowhere /\ row[m].status \in {"FAILED", "CANCELLED"}
            /\ staff' = [staff EXCEPT ![s] = m]
            /\ twice' = IF \E other \in Staff : staff[other] = m THEN twice \cup {m} ELSE twice
            /\ UNCHANGED <<row, claimed, delivered>>
            BY <1>2 DEF ReadForRetry
      <2>2. OutboxTypeOK' /\ Honest' /\ RowsKept
            BY <2>1 DEF OutboxTypeOK, Honest, RowsKept
      <2>3. /\ staff'[s] = m /\ twice \subseteq twice'
            /\ \A other \in Staff : other # s => staff'[other] = staff[other]
            /\ \A other \in Staff : staff[other] = m => m \in twice'
            BY <2>1 DEF OutboxTypeOK
      <2>4. RetrySound'
            BY <2>1, <2>3 DEF RetrySound, OutboxTypeOK
      <2> QED BY <2>2, <2>4 DEF Good
<1> QED BY <1>1, <1>2

\* Every step of the outbox keeps the invariant.
LEMMA OutboxStep ==
    ASSUME OutboxInv, [OutboxNext]_outboxVars
    PROVE  Good
<1>1. CASE UNCHANGED outboxVars
      BY <1>1 DEF outboxVars, OutboxInv, OutboxTypeOK, Honest, RetrySound, RowsKept, Good
<1>2. CASE OutboxNext
      BY <1>2, RowSteps, ClaimGood, SendGood, RecordGood, WorkerLoses, RetryGood DEF OutboxNext
<1> QED BY <1>1, <1>2

\* An outcome is recorded by an UPDATE that names the status SENDING
\* (outbox-worker.service.ts:96): SENT means delivered, and only the second of two
\* retries that were open at once (outbox-admin.service.ts:36-39) takes it back.
THEOREM SentForGoodCorrect == OutboxSpec => SentForGood
<1>1. OutboxInv /\ [OutboxNext]_outboxVars => OutboxInv' /\ RowsKept
      BY OutboxStep DEF Good
<1>2. RowsKept <=> \A m \in Messages : /\ row[m].status = "SENT" /\ m \notin twice => row'[m].status = "SENT"
                                       /\ row'[m].status = "SENT" => m \in delivered'
      BY DEF RowsKept
<1> QED BY <1>1, <1>2, OutboxInitial, PTL DEF OutboxSpec, SentForGood

-----------------------------------------------------------------------------
(* However many tabs and carts: copies are never made up, but for orders   *)
(* under an open merge.  Each product is given a peak per cart, the most   *)
(* that cart has held since it was last emptied: what a tab has read is    *)
(* covered by the peak of the cart it read as long as the line it read is  *)
(* still there, and the peaks, the requests still to be written and what   *)
(* orders cleared come to no more than was asked for.  An order that       *)
(* clears a cart from under a merge leaves the peak of that cart alone:    *)
(* its copies are counted behind.                                          *)

LineRow == [qty : Nat, row : Nat]

\* The fields a request has.
Fitting(r) ==
    /\ r.at = "create" => r.goods \in Goods
    /\ r.at = "write" => r.cart \in Carts /\ r.goods \in Goods /\ r.seen \in LineRow
    /\ r.at = "set" => r.cart \in Carts /\ r.goods \in Goods /\ r.to \in Nat
    /\ r.at = "clear" => r.cart \in Carts
    /\ r.at = "merge" => /\ r.guest \in Carts /\ r.mine \in Carts \cup {NoCart}
                         /\ r.theirs \in [Goods -> LineRow] /\ r.ours \in [Goods -> LineRow]
Called == DOMAIN call = Tabs /\ \A t \in Tabs : Fitting(call[t])

CartTypes ==
    /\ cart \in [Carts -> {"free", "guest", "customer", "gone"}]
    /\ line \in [Carts -> [Goods -> LineRow]]
    /\ latest \in Carts \cup {NoCart} /\ token \in Carts \cup {NoCart}
    /\ Called
    /\ asked \in [Goods -> Nat] /\ cleared \in [Goods -> Nat] /\ behind \in [Goods -> Nat]

Merging(t) == call[t].at = "merge"

\* Whose carts the browser and the merges speak of.
Owned ==
    /\ latest # NoCart => cart[latest] = "customer"
    /\ token # NoCart => cart[token] \in {"guest", "gone"}
    /\ \A t \in Tabs : Merging(t) =>
          /\ cart[call[t].guest] \in {"guest", "gone"}
          /\ call[t].mine # NoCart => cart[call[t].mine] = "customer"
          /\ call[t].mine = NoCart => \A p \in Goods : call[t].ours[p].qty = 0

\* A line that was read is not newer than the one that is there.
Dated ==
    /\ \A t \in Tabs : call[t].at = "write" => call[t].seen.row <= line[call[t].cart][call[t].goods].row
    /\ \A t \in Tabs : Merging(t) /\ call[t].mine # NoCart =>
          \A p \in Goods : call[t].ours[p].row <= line[call[t].mine][p].row

Current(c, p, seen) == seen.qty > 0 /\ line[c][p].qty > 0 /\ line[c][p].row = seen.row

AddCovered(t, p, k) ==
    call[t].at = "write" /\ call[t].goods = p /\ Current(call[t].cart, p, call[t].seen)
        => call[t].seen.qty <= k[call[t].cart]

MergeCovered(t, p, k) ==
    Merging(t) =>
        /\ cart[call[t].guest] = "guest" => call[t].theirs[p].qty <= k[call[t].guest]
        /\ call[t].mine # NoCart /\ Current(call[t].mine, p, call[t].ours[p])
              => call[t].ours[p].qty <= k[call[t].mine]

WaitingTabs(p) == {t \in Tabs : call[t].at \in {"create", "write"} /\ call[t].goods = p}
Waiting(p) == Cardinality(WaitingTabs(p))

\* What orders cleared for good.
Spent(p) == cleared[p] - behind[p]

Covered(p, k) ==
    /\ \A c \in Carts : line[c][p].qty <= k[c]
    /\ \A t \in Tabs : AddCovered(t, p, k) /\ MergeCovered(t, p, k)
    /\ SumOf(k, Carts) + Waiting(p) + Spent(p) <= asked[p]

CartInv == CartTypes /\ Owned /\ Dated /\ \A p \in Goods : \E k \in [Carts -> Nat] : Covered(p, k)

\* A line keeps its row, and is not filled again under it, or becomes another row.
LinesGoOn ==
    \A c \in Carts, p \in Goods :
        \/ line'[c][p].row > line[c][p].row
        \/ line'[c][p].row = line[c][p].row /\ (line'[c][p].qty > 0 => line[c][p].qty > 0)

\* What a tab holds it has held before, or reads now.
AddGoesOn(t) ==
    call'[t].at = "write" =>
        \/ call'[t] = call[t]
        \/ call'[t].seen = NoLine
        \/ call'[t].seen = line'[call'[t].cart][call'[t].goods]
MergeGoesOn(t) ==
    call'[t].at = "merge" =>
        \/ call'[t] = call[t]
        \/ /\ call'[t].theirs = line'[call'[t].guest]
           /\ call'[t].mine # NoCart => call'[t].ours = line'[call'[t].mine]
TabsGoOn == \A t \in Tabs : AddGoesOn(t) /\ MergeGoesOn(t)

\* One tab's request is sent, goes on, or is answered.
LEMMA OneCall ==
    ASSUME CartTypes, NEW t \in Tabs, NEW r, Fitting(r), call' = [call EXCEPT ![t] = r]
    PROVE  /\ Called' /\ call'[t] = r /\ \A s \in Tabs : s # t => call'[s] = call[s]
           /\ AddGoesOn(t) /\ MergeGoesOn(t) => TabsGoOn
           /\ r.at \notin {"write", "merge"} => TabsGoOn
           /\ \A p : \/ r.at \in {"create", "write"} /\ r.goods = p
                     \/ WaitingTabs(p)' = WaitingTabs(p) \ {t}
<1>1. DOMAIN call' = Tabs /\ call'[t] = r /\ \A s \in Tabs : s # t => call'[s] = call[s]
      BY DEF CartTypes, Called
<1>2. Called'
      BY <1>1 DEF CartTypes, Called
<1>3. ASSUME (AddGoesOn(t) /\ MergeGoesOn(t)) \/ r.at \notin {"write", "merge"} PROVE TabsGoOn
      BY <1>1, <1>3 DEF TabsGoOn, AddGoesOn, MergeGoesOn
<1>4. ASSUME NEW p, ~(r.at \in {"create", "write"} /\ r.goods = p)
      PROVE  WaitingTabs(p)' = WaitingTabs(p) \ {t}
      BY <1>1, <1>4 DEF WaitingTabs
<1> QED BY <1>1, <1>2, <1>3, <1>4

\* A request is answered.
LEMMA Answered ==
    ASSUME CartTypes, NEW t \in Tabs, Answer(t)
    PROVE  /\ Called' /\ TabsGoOn /\ \A p : WaitingTabs(p)' = WaitingTabs(p) \ {t}
           /\ \A s \in Tabs : call'[s].at # "none" => s # t /\ call'[s] = call[s]
<1>1. Fitting(Resting) /\ Resting.at = "none"
      BY DEF Fitting, Resting
<1>2. call' = [call EXCEPT ![t] = Resting]
      BY DEF Answer
<1> HIDE DEF Resting
<1> QED BY <1>1, <1>2, OneCall

\* Where lines go on, what was read stays dated.
LEMMA DatedGoesOn ==
    ASSUME CartTypes, CartTypes', Dated, LinesGoOn, TabsGoOn
    PROVE  Dated'
<1>1. ASSUME NEW t \in Tabs, call'[t].at = "write"
      PROVE  call'[t].seen.row <= line'[call'[t].cart][call'[t].goods].row
  <2>1. call'[t].cart \in Carts /\ call'[t].goods \in Goods /\ call'[t].seen \in LineRow
        BY <1>1 DEF CartTypes, Called, Fitting
  <2>2. line'[call'[t].cart][call'[t].goods] \in LineRow /\ line[call'[t].cart][call'[t].goods] \in LineRow
        BY <2>1 DEF CartTypes
  <2>3. CASE call'[t] = call[t]
    <3>1. call[t].seen.row <= line[call[t].cart][call[t].goods].row
          BY <1>1, <2>3 DEF Dated
    <3>2. line[call'[t].cart][call'[t].goods].row <= line'[call'[t].cart][call'[t].goods].row
          BY <2>1, <2>2 DEF LinesGoOn, LineRow
    <3> QED BY <3>1, <3>2, <2>1, <2>2, <2>3 DEF LineRow
  <2>4. CASE call'[t].seen = NoLine \/ call'[t].seen = line'[call'[t].cart][call'[t].goods]
        BY <2>1, <2>2, <2>4 DEF LineRow, NoLine
  <2> QED BY <2>3, <2>4, <1>1 DEF TabsGoOn, AddGoesOn
<1>2. ASSUME NEW t \in Tabs, call'[t].at = "merge", call'[t].mine # NoCart, NEW p \in Goods
      PROVE  call'[t].ours[p].row <= line'[call'[t].mine][p].row
  <2>1. call'[t].mine \in Carts /\ call'[t].ours[p] \in LineRow
        BY <1>2 DEF CartTypes, Called, Fitting
  <2>2. line'[call'[t].mine][p] \in LineRow /\ line[call'[t].mine][p] \in LineRow
        BY <2>1 DEF CartTypes
  <2>3. CASE call'[t] = call[t]
    <3>1. call[t].ours[p].row <= line[call[t].mine][p].row
          BY <1>2, <2>3 DEF Dated, Merging
    <3>2. line[call'[t].mine][p].row <= line'[call'[t].mine][p].row
          BY <2>1, <2>2 DEF LinesGoOn, LineRow
    <3> QED BY <3>1, <3>2, <2>1, <2>2, <2>3 DEF LineRow
  <2>4. CASE call'[t].ours = line'[call'[t].mine]
        BY <2>1, <2>2, <2>4 DEF LineRow
  <2> QED BY <2>3, <2>4, <1>2 DEF TabsGoOn, MergeGoesOn
<1> QED BY <1>1, <1>2 DEF Dated, Merging

\* What the peaks cover is covered by other peaks: those that are no lower, but for
\* carts that were emptied and that no merge will take copies from any more.
LEMMA CoverGoesOn ==
    ASSUME CartTypes, CartTypes', Owned, Dated, LinesGoOn, TabsGoOn,
           NEW p \in Goods, NEW k \in [Carts -> Nat], NEW top \in [Carts -> Nat], Covered(p, k),
           \A c \in Carts : line'[c][p].qty <= top[c],
           \A c \in Carts : cart'[c] = "guest" => cart[c] \in {"guest", "free"},
           \A c \in Carts : k[c] <= top[c] \/ line'[c][p].qty = 0,
           \A t \in Tabs : call'[t].at = "merge" /\ cart'[call'[t].guest] = "guest"
                             => call'[t].theirs[p].qty = 0 \/ k[call'[t].guest] <= top[call'[t].guest],
           SumOf(top, Carts) + Waiting(p)' + Spent(p)' <= asked'[p]
    PROVE  Covered(p, top)'
<1>1. ASSUME NEW t \in Tabs, call'[t].at = "write", call'[t].goods = p,
             Current(call[t].cart, p, call[t].seen)'
      PROVE  call'[t].seen.qty <= top[call'[t].cart]
  <2> DEFINE c == call'[t].cart
  <2>1. c \in Carts /\ call'[t].seen \in LineRow
        BY <1>1 DEF CartTypes, Called, Fitting
  <2>2. line'[c][p] \in LineRow /\ line[c][p] \in LineRow
        BY <2>1 DEF CartTypes
  <2>3. call'[t].seen.qty > 0 /\ line'[c][p].qty > 0 /\ line'[c][p].row = call'[t].seen.row
        BY <1>1 DEF Current
  <2>4. CASE call'[t] = call[t]
    <3>1. call[t].seen.row <= line[c][p].row
          BY <1>1, <2>4 DEF Dated
    <3>2. line'[c][p].row = line[c][p].row /\ line[c][p].qty > 0
          BY <3>1, <2>1, <2>2, <2>3, <2>4 DEF LinesGoOn, LineRow
    <3>3. call[t].seen.qty <= k[c]
          BY <3>2, <1>1, <2>3, <2>4 DEF Covered, AddCovered, Current
    <3>4. k[c] <= top[c]
          BY <2>1, <2>2, <2>3 DEF LineRow
    <3> QED BY <3>3, <3>4, <2>1, <2>4 DEF LineRow
  <2>5. CASE call'[t].seen = NoLine
        BY <2>3, <2>5 DEF NoLine
  <2>6. CASE call'[t].seen = line'[c][p]
        BY <2>1, <2>6
  <2> QED BY <2>4, <2>5, <2>6, <1>1 DEF TabsGoOn, AddGoesOn
<1>2. ASSUME NEW t \in Tabs, call'[t].at = "merge", cart'[call'[t].guest] = "guest"
      PROVE  call'[t].theirs[p].qty <= top[call'[t].guest]
  <2> DEFINE c == call'[t].guest
  <2>1. c \in Carts /\ call'[t].theirs[p] \in LineRow
        BY <1>2 DEF CartTypes, Called, Fitting
  <2>2. CASE call'[t] = call[t]
    <3>1. cart[c] = "guest"
          BY <1>2, <2>1, <2>2 DEF Owned, Merging
    <3>2. call[t].theirs[p].qty <= k[c]
          BY <3>1, <1>2, <2>2 DEF Covered, MergeCovered, Merging
    <3>3. top[c] \in Nat /\ k[c] \in Nat /\ call'[t].theirs[p].qty \in Nat
          BY <2>1 DEF LineRow
    <3>4. call'[t].theirs[p].qty = 0 \/ k[c] <= top[c]
          BY <1>2
    <3> QED BY <3>2, <3>3, <3>4, <2>2
  <2>3. CASE call'[t].theirs = line'[c]
        BY <2>1, <2>3
  <2> QED BY <2>2, <2>3, <1>2 DEF TabsGoOn, MergeGoesOn
<1>3. ASSUME NEW t \in Tabs, call'[t].at = "merge", call'[t].mine # NoCart,
             Current(call[t].mine, p, call[t].ours[p])'
      PROVE  call'[t].ours[p].qty <= top[call'[t].mine]
  <2> DEFINE c == call'[t].mine
  <2>1. c \in Carts /\ call'[t].ours[p] \in LineRow
        BY <1>3 DEF CartTypes, Called, Fitting
  <2>2. line'[c][p] \in LineRow /\ line[c][p] \in LineRow
        BY <2>1 DEF CartTypes
  <2>3. call'[t].ours[p].qty > 0 /\ line'[c][p].qty > 0 /\ line'[c][p].row = call'[t].ours[p].row
        BY <1>3 DEF Current
  <2>4. CASE call'[t] = call[t]
    <3>1. call[t].ours[p].row <= line[c][p].row
          BY <1>3, <2>4 DEF Dated, Merging
    <3>2. line'[c][p].row = line[c][p].row /\ line[c][p].qty > 0
          BY <3>1, <2>1, <2>2, <2>3, <2>4 DEF LinesGoOn, LineRow
    <3>3. call[t].ours[p].qty <= k[c]
          BY <3>2, <1>3, <2>3, <2>4 DEF Covered, MergeCovered, Merging, Current
    <3>4. k[c] <= top[c]
          BY <2>1, <2>2, <2>3 DEF LineRow
    <3> QED BY <3>3, <3>4, <2>1, <2>4 DEF LineRow
  <2>5. CASE call'[t].ours = line'[c]
        BY <2>1, <2>5
  <2> QED BY <2>4, <2>5, <1>3 DEF TabsGoOn, MergeGoesOn
<1>4. \A t \in Tabs : AddCovered(t, p, top)' /\ MergeCovered(t, p, top)'
      BY <1>1, <1>2, <1>3 DEF AddCovered, MergeCovered, Merging
<1> QED BY <1>4 DEF Covered

\* What orders cleared for good is a number.
LEMMA SpentInt ==
    ASSUME NEW p \in Goods
    PROVE  /\ CartTypes => Spent(p) \in Int /\ asked[p] \in Nat
           /\ CartTypes' => Spent(p)' \in Int /\ asked'[p] \in Nat
BY DEF CartTypes, Spent

\* The requests still to be written can be counted.
LEMMA WaitingCounts == \A p : IsFiniteSet(WaitingTabs(p)) /\ Waiting(p) \in Nat /\ Waiting(p)' \in Nat
<1> TAKE p
<1>1. WaitingTabs(p) \subseteq Tabs /\ WaitingTabs(p)' \subseteq Tabs
      BY DEF WaitingTabs
<1>2. IsFiniteSet(WaitingTabs(p)) /\ IsFiniteSet(WaitingTabs(p)')
      BY <1>1, CartAssumption, FS_Subset
<1> QED BY <1>2, FS_CardinalityType DEF Waiting

\* A tab joins them or leaves them.
LEMMA WaitingChanges ==
    ASSUME NEW p, NEW t \in Tabs
    PROVE  /\ t \notin WaitingTabs(p) /\ WaitingTabs(p)' = WaitingTabs(p) \cup {t} => Waiting(p)' = Waiting(p) + 1
           /\ t \in WaitingTabs(p) /\ WaitingTabs(p)' = WaitingTabs(p) \ {t} => Waiting(p)' = Waiting(p) - 1
           /\ WaitingTabs(p)' = WaitingTabs(p) \/ WaitingTabs(p)' = WaitingTabs(p) \ {t} => Waiting(p)' <= Waiting(p)
<1>1. IsFiniteSet(WaitingTabs(p))
      BY WaitingCounts
<1>2. t \notin WaitingTabs(p) /\ WaitingTabs(p)' = WaitingTabs(p) \cup {t} => Waiting(p)' = Waiting(p) + 1
      BY <1>1, FS_AddElement DEF Waiting
<1>3. t \in WaitingTabs(p) /\ WaitingTabs(p)' = WaitingTabs(p) \ {t} => Waiting(p)' = Waiting(p) - 1
      BY <1>1, FS_RemoveElement DEF Waiting
<1>4. ASSUME WaitingTabs(p)' \subseteq WaitingTabs(p) PROVE Waiting(p)' <= Waiting(p)
      BY <1>1, <1>4, FS_Subset DEF Waiting
<1> QED BY <1>2, <1>3, <1>4

\* What a step has to show.
LEMMA CartGoesOn ==
    ASSUME CartInv, CartTypes', Owned', LinesGoOn, TabsGoOn,
           \A p \in Goods : \A k \in [Carts -> Nat] : Covered(p, k) => \E top \in [Carts -> Nat] : Covered(p, top)'
    PROVE  CartInv'
<1>1. Dated'
      BY DatedGoesOn DEF CartInv
<1>2. ASSUME NEW p \in Goods PROVE (\E k \in [Carts -> Nat] : Covered(p, k))'
  <2>1. PICK k \in [Carts -> Nat] : Covered(p, k)
        BY DEF CartInv
  <2>2. PICK top \in [Carts -> Nat] : Covered(p, top)'
        BY <2>1
  <2> QED BY <2>2
<1> QED BY <1>1, <1>2 DEF CartInv

\* A step that leaves the peaks alone.
LEMMA PeaksStay ==
    ASSUME CartInv, CartTypes', LinesGoOn, TabsGoOn,
           NEW p \in Goods, NEW k \in [Carts -> Nat], Covered(p, k),
           \A c \in Carts : line'[c][p].qty <= line[c][p].qty,
           \A c \in Carts : cart'[c] = "guest" => cart[c] \in {"guest", "free"},
           Waiting(p)' + Spent(p)' <= Waiting(p) + Spent(p) + (asked'[p] - asked[p])
    PROVE  \E top \in [Carts -> Nat] : Covered(p, top)'
<1>1. \A c \in Carts : line'[c][p].qty <= k[c]
  <2> TAKE c \in Carts
  <2>1. line[c][p] \in LineRow /\ line'[c][p] \in LineRow /\ k[c] \in Nat
        BY DEF CartInv, CartTypes
  <2>2. line[c][p].qty <= k[c]
        BY DEF Covered
  <2> QED BY <2>1, <2>2 DEF LineRow
<1>2. SumOf(k, Carts) + Waiting(p)' + Spent(p)' <= asked'[p]
  <2>1. SumOf(k, Carts) \in Int
    <3>1. IntsOn(k, Carts)
          BY DEF IntsOn
    <3> QED BY <3>1, SumType, CartAssumption
  <2>2. Waiting(p) \in Nat /\ Waiting(p)' \in Nat
        BY WaitingCounts
  <2>3. {Spent(p), Spent(p)', asked[p], asked'[p]} \subseteq Int
        BY SpentInt DEF CartInv
  <2>4. SumOf(k, Carts) + Waiting(p) + Spent(p) <= asked[p]
        BY DEF Covered
  <2> QED BY <2>1, <2>2, <2>3, <2>4
<1>3. \A c \in Carts : k[c] <= k[c]
      OBVIOUS
<1>4. \A t \in Tabs : call'[t].at = "merge" /\ cart'[call'[t].guest] = "guest"
                            => call'[t].theirs[p].qty = 0 \/ k[call'[t].guest] <= k[call'[t].guest]
  <2> TAKE t \in Tabs
  <2> HAVE call'[t].at = "merge" /\ cart'[call'[t].guest] = "guest"
  <2>1. k[call'[t].guest] \in Nat
        BY DEF CartTypes, Called, Fitting
  <2> QED BY <2>1
<1>5. Covered(p, k)'
      BY <1>1, <1>2, <1>3, <1>4, CoverGoesOn DEF CartInv
<1> QED BY <1>5

\* The cart a request finds is one of the carts.
LEMMA FoundCart ==
    ASSUME CartInv, NEW t \in Tabs
    PROVE  /\ Found(t) \in Carts \cup {NoCart}
           /\ Found(t) # NoCart => Found(t) \in Carts /\ cart[Found(t)] \in {"guest", "customer"}
BY DEF CartInv, CartTypes, Found, Owned

\* Lines that are not touched go on.
LEMMA SameLines ==
    ASSUME CartInv, line' = line
    PROVE  LinesGoOn /\ \A q \in Goods, c \in Carts : line'[c][q].qty <= line[c][q].qty
<1>1. \A c \in Carts, q \in Goods : line[c][q] \in LineRow /\ line'[c][q] = line[c][q]
      BY DEF CartInv, CartTypes
<1> QED BY <1>1 DEF LinesGoOn, LineRow

\* Carts are emptied: their lines keep their rows.
LEMMA EmptiedLines ==
    ASSUME CartInv, NEW T, line' = Emptied(T)
    PROVE  /\ line' \in [Carts -> [Goods -> LineRow]] /\ LinesGoOn
           /\ \A q \in Goods, c \in Carts : /\ line'[c][q].qty <= line[c][q].qty
                                            /\ c \in T => line'[c][q].qty = 0
<1>1. \A c \in Carts, q \in Goods : line[c][q] \in LineRow
      BY DEF CartInv, CartTypes
<1>2. \A c \in Carts : c \in T => line'[c] = [q \in Goods |-> [line[c][q] EXCEPT !.qty = 0]]
      BY DEF Emptied
<1>3. \A c \in Carts : c \notin T => line'[c] = line[c]
      BY DEF Emptied
<1>4. \A c \in Carts, q \in Goods : /\ line'[c][q] \in LineRow /\ line'[c][q].row = line[c][q].row
                                    /\ line'[c][q].qty \in {0, line[c][q].qty}
                                    /\ c \in T => line'[c][q].qty = 0
  <2> TAKE c \in Carts, q \in Goods
  <2>1. CASE c \in T
    <3>1. line'[c][q] = [line[c][q] EXCEPT !.qty = 0] /\ line[c][q] \in LineRow
          BY <1>1, <1>2, <2>1
    <3> QED BY <3>1 DEF LineRow
  <2>2. CASE c \notin T
    <3>1. line'[c][q] = line[c][q] /\ line[c][q] \in LineRow
          BY <1>1, <1>3, <2>2
    <3> QED BY <3>1, <2>2 DEF LineRow
  <2> QED BY <2>1, <2>2
<1>5. line' \in [Carts -> [Goods -> LineRow]]
  <2>1. \A c \in Carts : line'[c] \in [Goods -> LineRow]
    <3> TAKE c \in Carts
    <3>1. CASE c \in T
          BY <1>2, <1>4, <3>1
    <3>2. CASE c \notin T
          BY <1>3, <3>2 DEF CartInv, CartTypes
    <3> QED BY <3>1, <3>2
  <2> QED BY <2>1 DEF Emptied
<1>6. LinesGoOn
      BY <1>1, <1>4 DEF LinesGoOn, LineRow
<1>7. \A q \in Goods, c \in Carts : line'[c][q].qty <= line[c][q].qty /\ (c \in T => line'[c][q].qty = 0)
  <2> TAKE q \in Goods, c \in Carts
  <2>1. line[c][q].qty \in Nat
        BY <1>1 DEF LineRow
  <2> QED BY <2>1, <1>4
<1> QED BY <1>5, <1>6, <1>7

\* Peaks stay where nobody asks, waits or orders.
LEMMA PeaksStayQuiet ==
    ASSUME CartInv, CartTypes', LinesGoOn, TabsGoOn,
           NEW p \in Goods, NEW k \in [Carts -> Nat], Covered(p, k),
           \A c \in Carts : line'[c][p].qty <= line[c][p].qty,
           \A c \in Carts : cart'[c] = "guest" => cart[c] \in {"guest", "free"},
           Waiting(p)' <= Waiting(p), UNCHANGED <<asked, cleared, behind>>
    PROVE  \E top \in [Carts -> Nat] : Covered(p, top)'
<1>1. Spent(p)' = Spent(p) /\ Spent(p) \in Int /\ asked'[p] = asked[p] /\ asked[p] \in Nat
      BY SpentInt DEF CartInv, Spent
<1>2. Waiting(p)' + Spent(p)' <= Waiting(p) + Spent(p) + (asked'[p] - asked[p])
      BY <1>1, WaitingCounts
<1> QED BY <1>2, PeaksStay

\* Peaks stay where lines, requests to add and orders do.
LEMMA PeaksStayAll ==
    ASSUME CartInv, CartTypes', Owned', TabsGoOn, UNCHANGED <<line, asked, cleared, behind>>,
           \A c \in Carts : cart'[c] = "guest" => cart[c] \in {"guest", "free"},
           \A p \in Goods : Waiting(p)' <= Waiting(p)
    PROVE  CartInv'
<1>1. LinesGoOn /\ \A q \in Goods, c \in Carts : line'[c][q].qty <= line[c][q].qty
      BY SameLines
<1>2. ASSUME NEW q \in Goods, NEW k \in [Carts -> Nat], Covered(q, k)
      PROVE  \E top \in [Carts -> Nat] : Covered(q, top)'
      BY <1>1, <1>2, PeaksStayQuiet
<1> QED BY <1>1, <1>2, CartGoesOn

\* A request that adds or merges nothing is sent, or one is answered, and nothing else
\* happens: setting, clearing and ordering begin, an order is refused.
LEMMA OnlyCalls ==
    ASSUME CartInv, NEW t \in Tabs, NEW r, Fitting(r), r.at \notin {"create", "write", "merge"},
           call' = [call EXCEPT ![t] = r],
           UNCHANGED <<cart, line, latest, token, asked, cleared, behind>>
    PROVE  CartInv'
<1>1. /\ Called' /\ TabsGoOn /\ call'[t] = r /\ \A s \in Tabs : s # t => call'[s] = call[s]
      /\ \A p : WaitingTabs(p)' = WaitingTabs(p) \ {t}
      BY OneCall DEF CartInv
<1>2. CartTypes'
      BY <1>1 DEF CartInv, CartTypes
<1>3. Owned'
      BY <1>1 DEF CartInv, Owned, Merging
<1>4. \A p \in Goods : Waiting(p)' <= Waiting(p)
      BY <1>1, WaitingChanges
<1>5. \A c \in Carts : cart'[c] = "guest" => cart[c] \in {"guest", "free"}
      OBVIOUS
<1> QED BY <1>1, <1>2, <1>3, <1>4, <1>5, PeaksStayAll

\* Setting begins with the line the tab found (cart.service.ts:81).
LEMMA StartSetGood ==
    ASSUME CartInv, NEW t \in Tabs, NEW p \in Goods, NEW n \in 0..MaxLineQty, StartSet(t, p, n)
    PROVE  CartInv'
<1> DEFINE r == [at |-> "set", cart |-> Found(t), goods |-> p, row |-> line[Found(t)][p].row, to |-> n]
<1>1. call' = [call EXCEPT ![t] = r] /\ UNCHANGED <<cart, line, latest, token, asked, cleared, behind>>
      BY DEF StartSet
<1>2. Fitting(r) /\ r.at = "set"
  <2>1. Found(t) \in Carts /\ n \in Nat
        BY FoundCart, CartAssumption DEF StartSet
  <2> QED BY <2>1 DEF Fitting
<1> HIDE DEF r
<1> QED BY <1>1, <1>2, OnlyCalls

\* Clearing begins with the cart the tab found (cart.service.ts:95).
LEMMA StartClearGood == ASSUME CartInv, NEW t \in Tabs, StartClear(t) PROVE CartInv'
<1> DEFINE r == [at |-> "clear", cart |-> Found(t)]
<1>1. call' = [call EXCEPT ![t] = r] /\ UNCHANGED <<cart, line, latest, token, asked, cleared, behind>>
      BY DEF StartClear
<1>2. Fitting(r) /\ r.at = "clear"
      BY FoundCart DEF StartClear, Fitting
<1> HIDE DEF r
<1> QED BY <1>1, <1>2, OnlyCalls

\* An order is sent with whose it is and the token at that time (checkout.controller.ts:70).
LEMMA StartOrderGood == ASSUME CartInv, NEW t \in Tabs, StartOrder(t) PROVE CartInv'
<1> DEFINE r == [at |-> "order", customer |-> t \in signedIn, token |-> token]
<1>1. call' = [call EXCEPT ![t] = r] /\ UNCHANGED <<cart, line, latest, token, asked, cleared, behind>>
      BY DEF StartOrder
<1>2. Fitting(r) /\ r.at = "order"
      BY DEF Fitting
<1> HIDE DEF r
<1> QED BY <1>1, <1>2, OnlyCalls

\* An order is refused, its transaction rolled back.
LEMMA RefuseOrderGood == ASSUME CartInv, NEW t \in Tabs, RefuseOrder(t) PROVE CartInv'
<1>1. call' = [call EXCEPT ![t] = Resting] /\ UNCHANGED <<cart, line, latest, token, asked, cleared, behind>>
      BY DEF RefuseOrder, Answer
<1>2. Fitting(Resting) /\ Resting.at = "none"
      BY DEF Fitting, Resting
<1> HIDE DEF Resting
<1> QED BY <1>1, <1>2, OnlyCalls

\* A tab signs in or out, or nothing happens to the cart.
LEMMA SignInOut ==
    ASSUME CartInv, UNCHANGED <<cart, line, latest, call, asked, cleared, behind>>, token' \in {token, NoCart}
    PROVE  CartInv'
<1>1. CartTypes' /\ Owned' /\ TabsGoOn
      BY DEF CartInv, CartTypes, Called, Owned, Merging, TabsGoOn, AddGoesOn, MergeGoesOn
<1>2. \A p \in Goods : WaitingTabs(p)' = WaitingTabs(p)
      BY DEF WaitingTabs
<1>3. \A p \in Goods : Waiting(p)' <= Waiting(p)
      BY <1>2, WaitingCounts DEF Waiting
<1>4. \A c \in Carts : cart'[c] = "guest" => cart[c] \in {"guest", "free"}
      OBVIOUS
<1> QED BY <1>1, <1>3, <1>4, PeaksStayAll

\* A request to add reads the cart.
LEMMA StartAddGood == ASSUME CartInv, NEW t \in Tabs, NEW p \in Goods, StartAdd(t, p) PROVE CartInv'
<1>1. PICK r : /\ call' = [call EXCEPT ![t] = r] /\ Fitting(r)
               /\ r.at \in {"create", "write"} /\ r.goods = p
               /\ r.at = "write" => r.seen = line[r.cart][p]
  <2>1. CASE Found(t) = NoCart
    <3> DEFINE r == [at |-> "create", customer |-> t \in signedIn, goods |-> p]
    <3>1. Fitting(r) /\ r.at = "create" /\ r.goods = p
          BY DEF Fitting
    <3>2. call' = [call EXCEPT ![t] = r]
          BY <2>1 DEF StartAdd
    <3> HIDE DEF r
    <3> QED BY <3>1, <3>2
  <2>2. CASE Found(t) # NoCart
    <3> DEFINE r == [at |-> "write", cart |-> Found(t), goods |-> p, seen |-> line[Found(t)][p]]
    <3>1. Fitting(r) /\ r.at = "write" /\ r.goods = p /\ r.seen = line[r.cart][p]
          BY <2>2, FoundCart DEF Fitting, CartInv, CartTypes
    <3>2. call' = [call EXCEPT ![t] = r]
          BY <2>2 DEF StartAdd
    <3> HIDE DEF r
    <3> QED BY <3>1, <3>2
  <2> QED BY <2>1, <2>2
<1>2. /\ call[t].at = "none" /\ asked' = [asked EXCEPT ![p] = @ + 1]
      /\ UNCHANGED <<cart, line, latest, token, cleared, behind>>
      BY DEF StartAdd, Idle, Resting
<1>3. /\ Called' /\ call'[t] = r /\ \A s \in Tabs : s # t => call'[s] = call[s]
      /\ AddGoesOn(t) /\ MergeGoesOn(t) => TabsGoOn
      BY <1>1, OneCall DEF CartInv
<1>4. TabsGoOn
      BY <1>1, <1>2, <1>3 DEF AddGoesOn, MergeGoesOn
<1>5. CartTypes'
      BY <1>2, <1>3 DEF CartInv, CartTypes
<1>6. Owned'
      BY <1>1, <1>2, <1>3 DEF CartInv, Owned, Merging
<1>7. LinesGoOn /\ \A q \in Goods, c \in Carts : line'[c][q].qty <= line[c][q].qty
      BY <1>2, SameLines
<1>8. ASSUME NEW q \in Goods, NEW k \in [Carts -> Nat], Covered(q, k)
      PROVE  \E top \in [Carts -> Nat] : Covered(q, top)'
  <2>1. Spent(q)' = Spent(q) /\ Spent(q) \in Int /\ asked[q] \in Nat /\ Waiting(q) \in Nat
        BY <1>2, SpentInt, WaitingCounts DEF Spent, CartInv
  <2>2. Waiting(q)' + Spent(q)' <= Waiting(q) + Spent(q) + (asked'[q] - asked[q])
    <3>1. CASE q = p
      <4>1. t \notin WaitingTabs(p) /\ WaitingTabs(p)' = WaitingTabs(p) \cup {t}
            BY <1>1, <1>2, <1>3 DEF WaitingTabs
      <4>2. Waiting(p)' = Waiting(p) + 1 /\ asked'[p] = asked[p] + 1
            BY <4>1, <1>2, WaitingChanges DEF CartInv, CartTypes
      <4> QED BY <2>1, <3>1, <4>2
    <3>2. CASE q # p
      <4>1. WaitingTabs(q)' = WaitingTabs(q)
            BY <1>1, <1>2, <1>3, <3>2 DEF WaitingTabs
      <4>2. Waiting(q)' = Waiting(q) /\ asked'[q] = asked[q]
            BY <4>1, <1>2, <3>2 DEF Waiting, CartInv, CartTypes
      <4> QED BY <2>1, <4>2
    <3> QED BY <3>1, <3>2
  <2> QED BY <1>2, <1>4, <1>5, <1>7, <1>8, <2>2, PeaksStay
<1> QED BY <1>4, <1>5, <1>6, <1>7, <1>8, CartGoesOn

\* A cart is cleared, or is gone.
LEMMA WriteClearGood == ASSUME CartInv, NEW t \in Tabs, WriteClear(t) PROVE CartInv'
<1>1. Called' /\ TabsGoOn /\ \A p : WaitingTabs(p)' = WaitingTabs(p) \ {t}
      BY Answered DEF WriteClear, CartInv
<1>2. \A s \in Tabs : call'[s].at # "none" => s # t /\ call'[s] = call[s]
      BY Answered DEF WriteClear, CartInv
<1>3. \A p \in Goods : Waiting(p)' <= Waiting(p)
      BY <1>1, WaitingChanges
<1>4. PICK c \in Carts : c = call[t].cart
      BY DEF WriteClear, CartInv, CartTypes, Called, Fitting
<1>5. line' = line \/ line' = Emptied({c})
      BY <1>4 DEF WriteClear
<1>6. /\ line' \in [Carts -> [Goods -> LineRow]] /\ LinesGoOn
      /\ \A q \in Goods, d \in Carts : line'[d][q].qty <= line[d][q].qty
      BY <1>5, SameLines, EmptiedLines DEF CartInv, CartTypes
<1>7. (latest' = latest \/ (latest' = c /\ cart[c] = "customer")) /\ UNCHANGED <<cart, token, asked, cleared, behind>>
      BY <1>4 DEF WriteClear, Touch
<1>8. CartTypes'
      BY <1>1, <1>6, <1>7 DEF CartInv, CartTypes
<1>9. Owned'
      BY <1>2, <1>7 DEF CartInv, Owned, Merging
<1>10. ASSUME NEW q \in Goods, NEW k \in [Carts -> Nat], Covered(q, k)
       PROVE  \E top \in [Carts -> Nat] : Covered(q, top)'
      BY <1>1, <1>3, <1>6, <1>7, <1>8, <1>10, PeaksStayQuiet
<1> QED BY <1>1, <1>6, <1>8, <1>9, <1>10, CartGoesOn

\* A guest's cart is purged, no tab holding anything.
LEMMA PurgeGood == ASSUME CartInv, NEW d \in Carts, Purge(d) PROVE CartInv'
<1>1. /\ line' = Emptied({d}) /\ cart[d] = "guest" /\ cart' = [cart EXCEPT ![d] = "gone"]
      /\ UNCHANGED <<latest, token, call, asked, cleared, behind>>
      BY DEF Purge
<1>2. \A t \in Tabs : call[t].at = "none"
      BY DEF Purge, Idle, Resting
<1>3. /\ line' \in [Carts -> [Goods -> LineRow]] /\ LinesGoOn
      /\ \A q \in Goods, c \in Carts : line'[c][q].qty <= line[c][q].qty
      BY <1>1, EmptiedLines
<1>4. CartTypes'
      BY <1>1, <1>3 DEF CartInv, CartTypes, Called
<1>5. Owned'
      BY <1>1, <1>2 DEF CartInv, CartTypes, Owned, Merging, NoCart
<1>6. TabsGoOn
      BY <1>1, <1>2 DEF TabsGoOn, AddGoesOn, MergeGoesOn
<1>7. \A c \in Carts : cart'[c] = "guest" => cart[c] \in {"guest", "free"}
      BY <1>1 DEF CartInv, CartTypes
<1>8. ASSUME NEW q \in Goods, NEW k \in [Carts -> Nat], Covered(q, k)
      PROVE  \E top \in [Carts -> Nat] : Covered(q, top)'
  <2>1. WaitingTabs(q)' = WaitingTabs(q)
        BY <1>1 DEF WaitingTabs
  <2>2. Waiting(q)' <= Waiting(q)
        BY <2>1, WaitingCounts DEF Waiting
  <2> QED BY <1>1, <1>3, <1>4, <1>6, <1>7, <1>8, <2>2, PeaksStayQuiet
<1> QED BY <1>3, <1>4, <1>5, <1>6, <1>8, CartGoesOn

\* The cart that is created was free.
LEMMA FreeCart == ASSUME Free # {} PROVE Min(Free) \in Carts /\ cart[Min(Free)] = "free"
<1>1. Free \subseteq Nat /\ Free \subseteq Carts
      BY CartAssumption DEF Free
<1>2. \E x \in Free : \A y \in Free : x <= y
      BY <1>1, SmallestNumber
<1>3. Min(Free) \in Free
      BY <1>2 DEF Min
<1> QED BY <1>3 DEF Free

\* A request that found no cart creates one.
LEMMA CreateCartGood == ASSUME CartInv, NEW t \in Tabs, CreateCart(t) PROVE CartInv'
<1>1. PICK c \in Carts : /\ c = Min(Free) /\ cart[c] = "free"
      BY FreeCart DEF CreateCart
<1>2. call[t].at = "create" /\ call[t].goods \in Goods /\ UNCHANGED <<line, token, asked, cleared, behind>>
      BY DEF CreateCart, CartInv, CartTypes, Called, Fitting
<1>3. PICK kind \in {"guest", "customer"} : /\ cart' = [cart EXCEPT ![c] = kind]
                                            /\ latest' = latest \/ (kind = "customer" /\ latest' = c)
  <2>1. CASE call[t].customer
        BY <1>1, <2>1 DEF CreateCart
  <2>2. CASE ~call[t].customer
        BY <1>1, <2>2 DEF CreateCart
  <2> QED BY <2>1, <2>2
<1>4. PICK r : /\ call' = [call EXCEPT ![t] = r] /\ Fitting(r)
               /\ r.at = "write" /\ r.goods = call[t].goods /\ r.seen = NoLine
  <2> DEFINE r == [at |-> "write", cart |-> c, goods |-> call[t].goods, seen |-> NoLine]
  <2>1. Fitting(r) /\ r.at = "write" /\ r.goods = call[t].goods /\ r.seen = NoLine
        BY <1>2 DEF Fitting, NoLine, LineRow
  <2>2. call' = [call EXCEPT ![t] = r]
        BY <1>1 DEF CreateCart
  <2> HIDE DEF r
  <2> QED BY <2>1, <2>2
<1>5. /\ Called' /\ call'[t] = r /\ \A s \in Tabs : s # t => call'[s] = call[s]
      /\ AddGoesOn(t) /\ MergeGoesOn(t) => TabsGoOn
      BY <1>4, OneCall DEF CartInv
<1>6. TabsGoOn
      BY <1>4, <1>5 DEF AddGoesOn, MergeGoesOn
<1>7. \A q : WaitingTabs(q)' = WaitingTabs(q)
      BY <1>2, <1>4, <1>5 DEF WaitingTabs
<1>8. /\ cart' \in [Carts -> {"free", "guest", "customer", "gone"}] /\ cart'[c] = kind
      /\ \A d \in Carts : d # c => cart'[d] = cart[d]
      BY <1>3 DEF CartInv, CartTypes
<1>9. CartTypes'
      BY <1>2, <1>3, <1>5, <1>8 DEF CartInv, CartTypes
<1>10. Owned'
  <2>1. latest' # NoCart => cart'[latest'] = "customer"
        BY <1>1, <1>3, <1>8 DEF CartInv, CartTypes, Owned
  <2>2. token' # NoCart => cart'[token'] \in {"guest", "gone"}
        BY <1>1, <1>2, <1>8 DEF CartInv, CartTypes, Owned
  <2>3. ASSUME NEW s \in Tabs, call'[s].at = "merge"
        PROVE  /\ cart'[call'[s].guest] \in {"guest", "gone"}
               /\ call'[s].mine # NoCart => cart'[call'[s].mine] = "customer"
               /\ call'[s].mine = NoCart => \A p \in Goods : call'[s].ours[p].qty = 0
    <3>1. call'[s] = call[s] /\ call[s].guest \in Carts /\ call[s].mine \in Carts \cup {NoCart}
          BY <1>4, <1>5, <2>3 DEF CartInv, CartTypes, Called, Fitting
    <3> QED BY <1>1, <1>8, <2>3, <3>1 DEF CartInv, Owned, Merging
  <2> QED BY <2>1, <2>2, <2>3 DEF Owned, Merging
<1>11. \A d \in Carts : cart'[d] = "guest" => cart[d] \in {"guest", "free"}
       BY <1>1, <1>8
<1>12. \A q \in Goods : Waiting(q)' <= Waiting(q)
       BY <1>7, WaitingChanges
<1> QED BY <1>2, <1>6, <1>9, <1>10, <1>11, <1>12, PeaksStayAll

\* A tab that has signed in reads both carts; a token of a cart that is gone is dropped.
LEMMA StartMergeGood == ASSUME CartInv, NEW t \in Tabs, StartMerge(t) PROVE CartInv'
<1>1. token \in Carts /\ cart[token] \in {"guest", "gone"}
      BY DEF StartMerge, CartInv, CartTypes, Owned
<1>2. CASE cart[token] # "guest"
      BY <1>2, SignInOut DEF StartMerge
<1>3. CASE cart[token] = "guest"
  <2>1. PICK m : /\ call' = [call EXCEPT ![t] = m] /\ Fitting(m) /\ m.at = "merge"
                 /\ m.guest = token /\ m.mine = latest /\ m.theirs = line[token]
                 /\ m.mine # NoCart => m.ours = line[m.mine]
                 /\ m.mine = NoCart => \A p \in Goods : m.ours[p].qty = 0
    <3> DEFINE ours == IF latest = NoCart THEN [p \in Goods |-> NoLine] ELSE line[latest]
               m == [at |-> "merge", guest |-> token, mine |-> latest, theirs |-> line[token], ours |-> ours]
    <3>1. ours \in [Goods -> LineRow] /\ (latest = NoCart => \A p \in Goods : ours[p].qty = 0)
          BY DEF CartInv, CartTypes, NoLine, LineRow
    <3>2. call' = [call EXCEPT ![t] = m] /\ (latest # NoCart => ours = line[latest])
          BY <1>3 DEF StartMerge
    <3> HIDE DEF ours
    <3>3. Fitting(m)
          BY <1>1, <3>1 DEF Fitting, CartInv, CartTypes
    <3>4. m.at = "merge" /\ m.guest = token /\ m.mine = latest /\ m.theirs = line[token] /\ m.ours = ours
          OBVIOUS
    <3> HIDE DEF m
    <3> QED BY <3>1, <3>2, <3>3, <3>4
  <2>2. UNCHANGED <<cart, line, latest, token, asked, cleared, behind>>
        BY <1>3 DEF StartMerge
  <2>3. /\ Called' /\ call'[t] = m /\ \A s \in Tabs : s # t => call'[s] = call[s]
        /\ AddGoesOn(t) /\ MergeGoesOn(t) => TabsGoOn
        /\ \A p : WaitingTabs(p)' = WaitingTabs(p) \ {t}
        BY <2>1, OneCall DEF CartInv
  <2>4. TabsGoOn
        BY <2>1, <2>2, <2>3 DEF AddGoesOn, MergeGoesOn
  <2>5. CartTypes'
        BY <2>2, <2>3 DEF CartInv, CartTypes
  <2>6. Owned'
        BY <1>1, <2>1, <2>2, <2>3 DEF CartInv, Owned, Merging
  <2>7. \A p \in Goods : Waiting(p)' <= Waiting(p)
        BY <2>3, WaitingChanges
  <2>8. \A c \in Carts : cart'[c] = "guest" => cart[c] \in {"guest", "free"}
        BY <2>2
  <2> QED BY <2>2, <2>4, <2>5, <2>6, <2>7, <2>8, PeaksStayAll
<1> QED BY <1>2, <1>3

\* One line is written: the same row with copies in it before, or a newer row.
LEMMA OneLine ==
    ASSUME CartInv, NEW c \in Carts, NEW p \in Goods, NEW v \in LineRow, line' = [line EXCEPT ![c][p] = v],
           v.row > line[c][p].row \/ (v.row = line[c][p].row /\ line[c][p].qty > 0)
    PROVE  /\ line' \in [Carts -> [Goods -> LineRow]] /\ LinesGoOn /\ line'[c][p] = v
           /\ \A e \in Carts, q \in Goods : e # c \/ q # p => line'[e][q].qty <= line[e][q].qty
<1>1. \A e \in Carts, q \in Goods : line[e][q] \in LineRow
      BY DEF CartInv, CartTypes
<1>2. line' \in [Carts -> [Goods -> LineRow]] /\ line'[c][p] = v
      BY DEF CartInv, CartTypes
<1>3. \A e \in Carts, q \in Goods : e # c \/ q # p => line'[e][q] = line[e][q]
      BY DEF CartInv, CartTypes
<1>4. LinesGoOn
      BY <1>1, <1>2, <1>3 DEF LinesGoOn, LineRow
<1>5. \A e \in Carts, q \in Goods : e # c \/ q # p => line'[e][q].qty <= line[e][q].qty
      BY <1>1, <1>3 DEF LineRow
<1> QED BY <1>2, <1>4, <1>5

\* A cart's peak rises by as many copies as were asked for or are waited for no more.
LEMMA PeakRises ==
    ASSUME CartInv, CartTypes', LinesGoOn, TabsGoOn,
           NEW p \in Goods, NEW k \in [Carts -> Nat], Covered(p, k), NEW c \in Carts, NEW d \in Nat,
           line'[c][p].qty <= k[c] + d,
           \A e \in Carts : e # c => line'[e][p].qty <= line[e][p].qty,
           \A e \in Carts : cart'[e] = "guest" => cart[e] \in {"guest", "free"},
           Waiting(p)' + Spent(p)' + d <= Waiting(p) + Spent(p) + (asked'[p] - asked[p])
    PROVE  \E top \in [Carts -> Nat] : Covered(p, top)'
<1>1. PICK top \in [Carts -> Nat] : top = [k EXCEPT ![c] = k[c] + d]
  <2>1. k[c] + d \in Nat
        OBVIOUS
  <2>2. [k EXCEPT ![c] = k[c] + d] \in [Carts -> Nat]
        BY <2>1
  <2> QED BY <2>2
<1>2. top[c] = k[c] + d /\ \A e \in Carts : e # c => top[e] = k[e]
      BY <1>1
<1>3. \A e \in Carts : line'[e][p].qty <= top[e]
  <2> TAKE e \in Carts
  <2>1. CASE e = c
        BY <1>2, <2>1
  <2>2. CASE e # c
    <3>1. line'[e][p].qty <= line[e][p].qty /\ line[e][p].qty <= k[e] /\ top[e] = k[e]
          BY <1>2, <2>2 DEF Covered
    <3>2. line[e][p] \in LineRow /\ line'[e][p] \in LineRow /\ k[e] \in Nat
          BY DEF CartInv, CartTypes
    <3> QED BY <3>1, <3>2 DEF LineRow
  <2> QED BY <2>1, <2>2
<1>4. SumOf(top, Carts) + Waiting(p)' + Spent(p)' <= asked'[p]
  <2>1. IntsOn(k, Carts) /\ IntsOn(top, Carts)
        BY DEF IntsOn
  <2>2. top[c] = k[c] + d /\ \A e \in Carts \ {c} : top[e] = k[e]
        BY <1>2
  <2>3. SumOf(top, Carts) = SumOf(k, Carts) + d
    <3>1. IsFiniteSet(Carts) /\ d \in Int
          BY CartAssumption
    <3> QED BY <2>1, <2>2, <3>1, SumMore
  <2>4. SumOf(k, Carts) \in Int
        BY <2>1, SumType, CartAssumption
  <2>5. Waiting(p) \in Nat /\ Waiting(p)' \in Nat
        BY WaitingCounts
  <2>6. Spent(p) \in Int /\ Spent(p)' \in Int /\ asked[p] \in Nat /\ asked'[p] \in Nat /\ k[c] \in Nat
        BY SpentInt DEF CartInv
  <2>7. SumOf(k, Carts) + Waiting(p) + Spent(p) <= asked[p]
        BY DEF Covered
  <2> QED BY <1>2, <2>3, <2>4, <2>5, <2>6, <2>7
<1>5. \A e \in Carts : k[e] <= top[e]
  <2> TAKE e \in Carts
  <2>1. k[e] \in Nat
        OBVIOUS
  <2> QED BY <1>2, <2>1
<1>6. \A t \in Tabs : call'[t].at = "merge" /\ cart'[call'[t].guest] = "guest"
                            => call'[t].theirs[p].qty = 0 \/ k[call'[t].guest] <= top[call'[t].guest]
      BY <1>5 DEF CartTypes, Called, Fitting
<1>7. Covered(p, top)'
      BY <1>3, <1>4, <1>5, <1>6, CoverGoesOn DEF CartInv
<1> QED BY <1>7

\* No line holds more than is asked for it.
LEMMA CappedNat == ASSUME NEW n \in Nat PROVE Capped(n) \in Nat /\ Capped(n) <= n /\ (n > 0 => Capped(n) > 0)
BY CartAssumption DEF Capped

\* A tab's answer and what it does to one line, to the latest cart and to the token.
LEMMA LineAnswered ==
    ASSUME CartInv, NEW t \in Tabs, Answer(t), NEW c \in Carts, line' \in [Carts -> [Goods -> LineRow]],
           asked' \in [Goods -> Nat], latest' = latest \/ Touch(c), token' = token \/ Keep(c),
           UNCHANGED <<cart, cleared, behind>>
    PROVE  /\ CartTypes' /\ Owned' /\ TabsGoOn
           /\ \A p \in Goods : Waiting(p)' <= Waiting(p) /\ Spent(p)' = Spent(p) /\ Spent(p) \in Int
<1>1. Called' /\ TabsGoOn /\ \A p : WaitingTabs(p)' = WaitingTabs(p) \ {t}
      BY Answered DEF CartInv
<1>2. \A s \in Tabs : call'[s].at # "none" => s # t /\ call'[s] = call[s]
      BY Answered DEF CartInv
<1>3. /\ latest' = latest \/ (latest' = c /\ cart[c] = "customer")
      /\ token' = token \/ (token' = c /\ cart[c] = "guest")
      BY DEF Touch, Keep
<1>4. CartTypes'
      BY <1>1, <1>3 DEF CartInv, CartTypes
<1>5. Owned'
      BY <1>2, <1>3 DEF CartInv, Owned, Merging
<1>6. \A p \in Goods : Waiting(p)' <= Waiting(p) /\ Spent(p)' = Spent(p) /\ Spent(p) \in Int
      BY <1>1, WaitingChanges, SpentInt DEF CartInv, Spent
<1> QED BY <1>1, <1>4, <1>5, <1>6

\* The quantity of a line is set: what it rises by is asked for.
LEMMA WriteSetGood == ASSUME CartInv, NEW t \in Tabs, WriteSet(t) PROVE CartInv'
<1>1. PICK c \in Carts, p \in Goods, n \in Nat : c = call[t].cart /\ p = call[t].goods /\ n = call[t].to
      BY DEF WriteSet, CartInv, CartTypes, Called, Fitting
<1>2. Answer(t) /\ UNCHANGED <<cart, cleared, behind>>
      BY DEF WriteSet
<1>3. CASE ~Exists(c, p, call[t].row)
  <2>1. UNCHANGED <<line, asked, latest, token>>
        BY <1>1, <1>3 DEF WriteSet
  <2>2. /\ CartTypes' /\ Owned' /\ TabsGoOn
        /\ \A q \in Goods : Waiting(q)' <= Waiting(q)
        BY <1>2, <2>1, LineAnswered DEF CartInv, CartTypes
  <2>3. \A e \in Carts : cart'[e] = "guest" => cart[e] \in {"guest", "free"}
        BY <1>2
  <2> QED BY <1>2, <2>1, <2>2, <2>3, PeaksStayAll
<1>4. CASE Exists(c, p, call[t].row)
  <2>1. PICK now \in Nat : now = line[c][p].qty
        BY DEF CartInv, CartTypes, LineRow
  <2>2. /\ now > 0 /\ line' = [line EXCEPT ![c][p].qty = n]
        /\ asked' = [asked EXCEPT ![p] = IF n > now THEN @ + (n - now) ELSE @]
        /\ Touch(c) /\ (token' = token \/ Keep(c))
        BY <1>1, <1>4, <2>1 DEF WriteSet, Exists
  <2>3. PICK v \in LineRow : line' = [line EXCEPT ![c][p] = v] /\ v.qty = n /\ v.row = line[c][p].row
    <3>1. line[c][p] \in LineRow
          BY DEF CartInv, CartTypes
    <3> DEFINE v == [line[c][p] EXCEPT !.qty = n]
    <3>2. v \in LineRow /\ v.qty = n /\ v.row = line[c][p].row
          BY <3>1 DEF LineRow
    <3>3. line' = [line EXCEPT ![c][p] = v]
          BY <2>2
    <3> QED BY <3>2, <3>3
  <2>4. /\ line' \in [Carts -> [Goods -> LineRow]] /\ LinesGoOn /\ line'[c][p] = v
        /\ \A e \in Carts, q \in Goods : e # c \/ q # p => line'[e][q].qty <= line[e][q].qty
    <3>1. v.row = line[c][p].row /\ line[c][p].qty > 0
          BY <2>1, <2>2, <2>3
    <3> QED BY <2>3, <3>1, OneLine
  <2>5. PICK d \in Nat : d = IF n > now THEN n - now ELSE 0
    <3>1. (IF n > now THEN n - now ELSE 0) \in Nat
          OBVIOUS
    <3> QED BY <3>1
  <2>6. /\ asked' \in [Goods -> Nat] /\ asked'[p] = asked[p] + d
        /\ \A q \in Goods : q # p => asked'[q] = asked[q]
        BY <2>2, <2>5 DEF CartInv, CartTypes
  <2>7. /\ CartTypes' /\ Owned' /\ TabsGoOn
        /\ \A q \in Goods : Waiting(q)' <= Waiting(q) /\ Spent(q)' = Spent(q) /\ Spent(q) \in Int
        BY <1>2, <2>2, <2>4, <2>6, LineAnswered
  <2>8. ASSUME NEW q \in Goods, NEW k \in [Carts -> Nat], Covered(q, k)
        PROVE  \E top \in [Carts -> Nat] : Covered(q, top)'
    <3>1. Waiting(q) \in Nat /\ Waiting(q)' \in Nat /\ asked[q] \in Nat
          BY WaitingCounts DEF CartInv, CartTypes
    <3>2. \A e \in Carts : cart'[e] = "guest" => cart[e] \in {"guest", "free"}
          BY <1>2
    <3>3. CASE q = p
      <4>1. line'[c][p].qty <= k[c] + d
        <5>1. now <= k[c] /\ k[c] \in Nat
              BY <2>1, <2>8, <3>3 DEF Covered
        <5> QED BY <2>3, <2>4, <2>5, <5>1
      <4>2. Waiting(p)' + Spent(p)' + d <= Waiting(p) + Spent(p) + (asked'[p] - asked[p])
            BY <2>6, <2>7, <3>1, <3>3
      <4>3. \A e \in Carts : e # c => line'[e][p].qty <= line[e][p].qty
            BY <2>4
      <4>4. Covered(p, k)
            BY <2>8, <3>3
      <4>5. \E top \in [Carts -> Nat] : Covered(p, top)'
            BY <2>4, <2>7, <3>2, <4>1, <4>2, <4>3, <4>4, PeakRises
      <4> QED BY <3>3, <4>5
    <3>4. CASE q # p
      <4>1. \A e \in Carts : line'[e][q].qty <= line[e][q].qty
            BY <2>4, <3>4
      <4>2. Waiting(q)' + Spent(q)' <= Waiting(q) + Spent(q) + (asked'[q] - asked[q])
            BY <2>6, <2>7, <3>1, <3>4
      <4> QED BY <2>4, <2>7, <2>8, <3>2, <4>1, <4>2, PeaksStay
    <3> QED BY <3>3, <3>4
  <2> QED BY <2>4, <2>7, <2>8, CartGoesOn
<1> QED BY <1>3, <1>4

\* A request to add writes the line it has read, one copy more.
LEMMA WriteAddGood == ASSUME CartInv, NEW t \in Tabs, WriteAdd(t) PROVE CartInv'
<1>1. PICK c \in Carts, p \in Goods, seen \in LineRow :
         c = call[t].cart /\ p = call[t].goods /\ seen = call[t].seen
      BY DEF WriteAdd, CartInv, CartTypes, Called, Fitting
<1>2. call[t].at = "write" /\ Answer(t) /\ UNCHANGED <<cart, asked, cleared, behind>>
      BY DEF WriteAdd
<1>3. Waiting(p)' = Waiting(p) - 1
  <2>1. t \in WaitingTabs(p) /\ WaitingTabs(p)' = WaitingTabs(p) \ {t}
        BY <1>1, <1>2, Answered DEF WaitingTabs, CartInv
  <2> QED BY <2>1, WaitingChanges
<1>4. /\ seen.qty \in Nat /\ seen.row \in Nat /\ line[c][p] \in LineRow
      /\ line[c][p].qty \in Nat /\ line[c][p].row \in Nat
      BY DEF LineRow, CartInv, CartTypes
<1>5. CASE ~CanWrite(c, p, seen)
  <2>1. UNCHANGED <<line, latest, token>>
        BY <1>1, <1>5 DEF WriteAdd
  <2>2. /\ CartTypes' /\ Owned' /\ TabsGoOn
        /\ \A q \in Goods : Waiting(q)' <= Waiting(q)
        BY <1>2, <2>1, LineAnswered DEF CartInv, CartTypes
  <2>3. \A e \in Carts : cart'[e] = "guest" => cart[e] \in {"guest", "free"}
        BY <1>2
  <2> QED BY <1>2, <2>1, <2>2, <2>3, PeaksStayAll
<1>6. CASE CanWrite(c, p, seen)
  <2>1. line' = WriteLine(c, p, seen, 1) /\ Touch(c) /\ Keep(c)
        BY <1>1, <1>6 DEF WriteAdd
  <2>2. PICK v \in LineRow :
           /\ line' = [line EXCEPT ![c][p] = v]
           /\ v.row > line[c][p].row \/ (v.row = line[c][p].row /\ line[c][p].qty > 0)
           /\ v.qty <= 1 \/ (Current(c, p, seen) /\ v.qty <= seen.qty + 1)
    <3>1. CASE seen.qty > 0
      <4> DEFINE v == [qty |-> Capped(seen.qty + 1), row |-> seen.row]
      <4>1. line' = [line EXCEPT ![c][p] = v]
            BY <2>1, <3>1 DEF WriteLine
      <4>2. v \in LineRow /\ v.qty <= seen.qty + 1 /\ v.row = seen.row
        <5>1. seen.qty + 1 \in Nat
              BY <1>4
        <5> QED BY <1>4, <5>1, CappedNat DEF LineRow
      <4>3. line[c][p].qty > 0 /\ line[c][p].row = seen.row
            BY <1>6, <3>1 DEF CanWrite, Exists
      <4> HIDE DEF v
      <4>4. Current(c, p, seen)
            BY <3>1, <4>3 DEF Current
      <4> QED BY <4>1, <4>2, <4>3, <4>4
    <3>2. CASE ~(seen.qty > 0)
      <4> DEFINE v == [qty |-> Capped(1), row |-> line[c][p].row + 1]
      <4>1. line' = [line EXCEPT ![c][p] = v]
            BY <2>1, <3>2 DEF WriteLine
      <4>2. v \in LineRow /\ v.qty <= 1 /\ v.row > line[c][p].row
            BY <1>4, CappedNat DEF LineRow
      <4> HIDE DEF v
      <4> QED BY <4>1, <4>2
    <3> QED BY <3>1, <3>2
  <2>3. /\ line' \in [Carts -> [Goods -> LineRow]] /\ LinesGoOn /\ line'[c][p] = v
        /\ \A e \in Carts, q \in Goods : e # c \/ q # p => line'[e][q].qty <= line[e][q].qty
        BY <2>2, OneLine
  <2>4. /\ CartTypes' /\ Owned' /\ TabsGoOn
        /\ \A q \in Goods : Waiting(q)' <= Waiting(q) /\ Spent(q)' = Spent(q) /\ Spent(q) \in Int
        BY <1>2, <2>1, <2>3, LineAnswered DEF CartInv, CartTypes
  <2>5. \A e \in Carts : cart'[e] = "guest" => cart[e] \in {"guest", "free"}
        BY <1>2
  <2>6. ASSUME NEW q \in Goods, NEW k \in [Carts -> Nat], Covered(q, k)
        PROVE  \E top \in [Carts -> Nat] : Covered(q, top)'
    <3>1. CASE q = p
      <4>1. line'[c][p].qty <= k[c] + 1
        <5>1. Current(c, p, seen) => seen.qty <= k[c]
              BY <1>1, <1>2, <2>6, <3>1 DEF Covered, AddCovered
        <5>2. k[c] \in Nat /\ v.qty \in Nat
              BY DEF LineRow
        <5> QED BY <1>4, <2>2, <2>3, <5>1, <5>2
      <4>2. Waiting(p)' + Spent(p)' + 1 <= Waiting(p) + Spent(p) + (asked'[p] - asked[p])
        <5>1. asked'[p] = asked[p] /\ asked[p] \in Nat /\ Waiting(p) \in Nat
              BY <1>2, WaitingCounts DEF CartInv, CartTypes
        <5> QED BY <1>3, <2>4, <5>1
      <4>3. \A e \in Carts : e # c => line'[e][p].qty <= line[e][p].qty
            BY <2>3
      <4>4. Covered(p, k) /\ 1 \in Nat
            BY <2>6, <3>1
      <4>5. \E top \in [Carts -> Nat] : Covered(p, top)'
            BY <2>3, <2>4, <2>5, <4>1, <4>2, <4>3, <4>4, PeakRises
      <4> QED BY <3>1, <4>5
    <3>2. CASE q # p
      <4>1. \A e \in Carts : line'[e][q].qty <= line[e][q].qty
            BY <2>3, <3>2
      <4> QED BY <1>2, <2>3, <2>4, <2>5, <2>6, <4>1, PeaksStayQuiet
    <3> QED BY <3>1, <3>2
  <2> QED BY <2>3, <2>4, <2>6, CartGoesOn
<1> QED BY <1>5, <1>6

\* Copies in carts are a number, and add up over parts of the carts.
LEMMA CopiesAdd ==
    ASSUME CartTypes, NEW q \in Goods, NEW carts \in SUBSET Carts, NEW part \in SUBSET carts
    PROVE  /\ Copies(q, carts) \in Nat /\ Copies(q, part) \in Nat /\ Copies(q, carts \ part) \in Nat
           /\ Copies(q, carts) = Copies(q, part) + Copies(q, carts \ part)
<1> DEFINE h == [c \in Carts |-> line[c][q].qty]
           rest == carts \ part
<1>1. NatsOn(h, carts) /\ NatsOn(h, part) /\ NatsOn(h, rest) /\ IntsOn(h, carts)
      BY DEF NatsOn, IntsOn, CartTypes, LineRow
<1>2. IsFiniteSet(carts) /\ IsFiniteSet(part) /\ IsFiniteSet(rest)
      BY CartAssumption, FS_Subset
<1> HIDE DEF h
<1>3. SumOf(h, carts) \in Nat /\ SumOf(h, part) \in Nat /\ SumOf(h, rest) \in Nat
      BY <1>1, <1>2, SumNat
<1>4. SumOf(h, carts) = SumOf(h, part) + SumOf(h, rest)
      BY <1>1, <1>2, SumSplit
<1> QED BY <1>3, <1>4 DEF Copies, h

\* An order clears what the owner's carts hold: for good, but for what a merge has in hand.
LEMMA PlaceOrderGood == ASSUME CartInv, NEW t \in Tabs, PlaceOrder(t) PROVE CartInv'
<1> DEFINE InHand(q, carts) == {c \in carts : Moving(c, q)}
<1>1. PICK theirs \in SUBSET Carts :
         /\ line' = Emptied(theirs)
         /\ cleared' = [q \in Goods |-> cleared[q] + Copies(q, theirs)]
         /\ behind' = [q \in Goods |-> behind[q] + Copies(q, InHand(q, theirs))]
  <2> DEFINE theirs == {c \in Carts : IF call[t].customer THEN cart[c] = "customer" ELSE c = call[t].token /\ cart[c] = "guest"}
  <2>1. theirs \in SUBSET Carts
        OBVIOUS
  <2> QED BY <2>1 DEF PlaceOrder
<1>2. /\ line' \in [Carts -> [Goods -> LineRow]] /\ LinesGoOn
      /\ \A q \in Goods, c \in Carts : line'[c][q].qty <= line[c][q].qty /\ (c \in theirs => line'[c][q].qty = 0)
      BY <1>1, EmptiedLines
<1>3. call[t].at = "order" /\ Answer(t) /\ UNCHANGED <<cart, latest, token, asked>>
      BY DEF PlaceOrder
<1>4. \A q \in Goods : /\ InHand(q, theirs) \in SUBSET theirs
                       /\ Copies(q, theirs) \in Nat /\ Copies(q, InHand(q, theirs)) \in Nat
                       /\ Copies(q, theirs \ InHand(q, theirs)) \in Nat
                       /\ Copies(q, theirs) = Copies(q, InHand(q, theirs)) + Copies(q, theirs \ InHand(q, theirs))
  <2> TAKE q \in Goods
  <2>1. InHand(q, theirs) \in SUBSET theirs
        OBVIOUS
  <2> HIDE DEF InHand
  <2> QED BY <2>1, CopiesAdd DEF CartInv
<1>5. /\ Called' /\ TabsGoOn /\ \A q : WaitingTabs(q)' = WaitingTabs(q) \ {t}
      /\ \A s \in Tabs : call'[s].at # "none" => s # t /\ call'[s] = call[s]
      BY <1>3, Answered DEF CartInv
<1>6. CartTypes'
  <2>1. cleared' \in [Goods -> Nat] /\ behind' \in [Goods -> Nat]
    <3> HIDE DEF InHand
    <3>1. \A q \in Goods : cleared[q] + Copies(q, theirs) \in Nat /\ behind[q] + Copies(q, InHand(q, theirs)) \in Nat
      <4> TAKE q \in Goods
      <4>1. cleared[q] \in Nat /\ behind[q] \in Nat
            BY DEF CartInv, CartTypes
      <4>2. Copies(q, theirs) \in Nat /\ Copies(q, InHand(q, theirs)) \in Nat
            BY <1>4
      <4> QED BY <4>1, <4>2
    <3> QED BY <1>1, <3>1
  <2> QED BY <1>2, <1>3, <1>5, <2>1 DEF CartInv, CartTypes
<1>7. Owned'
      BY <1>3, <1>5 DEF CartInv, Owned, Merging
<1>8. ASSUME NEW q \in Goods, NEW k \in [Carts -> Nat], Covered(q, k)
      PROVE  \E top \in [Carts -> Nat] : Covered(q, top)'
  <2> DEFINE gone == theirs \ InHand(q, theirs)
  <2>1. gone \in SUBSET Carts /\ IsFiniteSet(Carts) /\ gone \subseteq theirs
        BY CartAssumption
  <2>2. \A s \in Tabs : call[s].at = "merge" /\ call[s].guest \in gone => call[s].theirs[q].qty = 0
    <3> TAKE s \in Tabs
    <3> HAVE call[s].at = "merge" /\ call[s].guest \in gone
    <3>1. ~(call[s].theirs[q].qty > 0)
          BY DEF Moving
    <3>2. call[s].theirs[q].qty \in Nat
          BY DEF CartInv, CartTypes, Called, Fitting, LineRow
    <3> QED BY <3>1, <3>2
  <2>3. Spent(q)' = Spent(q) + Copies(q, gone) /\ Copies(q, gone) \in Nat /\ Spent(q) \in Int
    <3>1. cleared[q] \in Nat /\ behind[q] \in Nat
          BY DEF CartInv, CartTypes
    <3> HIDE DEF InHand
    <3> QED BY <1>1, <1>4, <3>1 DEF Spent
  <2> HIDE DEF gone, InHand
  <2>4. PICK top \in [Carts -> Nat] : top = [c \in Carts |-> IF c \in gone THEN 0 ELSE k[c]]
    <3>1. [c \in Carts |-> IF c \in gone THEN 0 ELSE k[c]] \in [Carts -> Nat]
          OBVIOUS
    <3> QED BY <3>1
  <2>5. \A c \in Carts : /\ line[c][q].qty <= k[c] /\ line[c][q].qty \in Nat /\ k[c] \in Nat
                         /\ line'[c][q].qty \in Nat /\ line'[c][q].qty <= line[c][q].qty
                         /\ c \in gone => top[c] = 0 /\ line'[c][q].qty = 0
                         /\ c \notin gone => top[c] = k[c]
        BY <1>2, <1>6, <1>8, <2>1, <2>4 DEF Covered, CartInv, CartTypes, LineRow
  <2>6. SumOf(top, Carts) + Copies(q, gone) <= SumOf(k, Carts)
    <3> DEFINE h == [c \in Carts |-> line[c][q].qty]
    <3>1. IntsOn(k, Carts) /\ IntsOn(top, Carts) /\ IntsOn(h, gone) /\ (\A c \in gone : top[c] = 0 /\ h[c] <= k[c])
          /\ \A c \in Carts \ gone : top[c] = k[c]
          BY <2>1, <2>5 DEF IntsOn
    <3> HIDE DEF h
    <3>2. SumOf(top, Carts) + SumOf(h, gone) <= SumOf(k, Carts)
          BY <2>1, <3>1, SumDropped
    <3> QED BY <3>2 DEF Copies, h
  <2>7. SumOf(top, Carts) + Waiting(q)' + Spent(q)' <= asked'[q]
    <3>1. SumOf(k, Carts) \in Int /\ SumOf(top, Carts) \in Int
      <4>1. IntsOn(k, Carts) /\ IntsOn(top, Carts)
            BY DEF IntsOn
      <4> QED BY <4>1, <2>1, SumType
    <3>2. Waiting(q)' <= Waiting(q) /\ Waiting(q) \in Nat /\ Waiting(q)' \in Nat
          BY <1>5, WaitingChanges, WaitingCounts
    <3>3. asked'[q] = asked[q] /\ asked[q] \in Nat
          BY <1>3 DEF CartInv, CartTypes
    <3>4. SumOf(k, Carts) + Waiting(q) + Spent(q) <= asked[q]
          BY <1>8 DEF Covered
    <3> QED BY <2>3, <2>6, <3>1, <3>2, <3>3, <3>4
  <2>8. \A c \in Carts : line'[c][q].qty <= top[c] /\ (k[c] <= top[c] \/ line'[c][q].qty = 0)
    <3> TAKE c \in Carts
    <3>1. CASE c \in gone
          BY <2>5, <3>1
    <3>2. CASE c \notin gone
          BY <2>5, <3>2
    <3> QED BY <3>1, <3>2
  <2>9. \A s \in Tabs : call'[s].at = "merge" /\ cart'[call'[s].guest] = "guest"
                             => call'[s].theirs[q].qty = 0 \/ k[call'[s].guest] <= top[call'[s].guest]
    <3> TAKE s \in Tabs
    <3> HAVE call'[s].at = "merge" /\ cart'[call'[s].guest] = "guest"
    <3>1. call'[s] = call[s] /\ call[s].guest \in Carts
          BY <1>5 DEF CartInv, CartTypes, Called, Fitting
    <3>2. CASE call[s].guest \in gone
          BY <2>2, <3>1, <3>2
    <3>3. CASE call[s].guest \notin gone
          BY <2>5, <3>1, <3>3
    <3> QED BY <3>2, <3>3
  <2>10. \A c \in Carts : cart'[c] = "guest" => cart[c] \in {"guest", "free"}
         BY <1>3
  <2>11. Covered(q, top)'
         BY <1>2, <1>5, <1>6, <1>8, <2>7, <2>8, <2>9, <2>10, CoverGoesOn DEF CartInv
  <2> QED BY <2>11
<1> QED BY <1>2, <1>5, <1>6, <1>7, <1>8, CartGoesOn

\* The lines a merge writes: those of the guest's cart as it was read, into another
\* cart, where the customer's lines are still those that were read.
LEMMA MergedLines ==
    ASSUME CartInv, NEW m, m.at = "merge", Fitting(m), NEW into \in Carts, into # m.guest, line' = Merged(m, into),
           m.mine = NoCart => \A p \in Goods : m.ours[p].qty = 0,
           m.mine # NoCart => m.mine = into /\ \A p \in Goods : m.theirs[p].qty > 0 => CanWrite(into, p, m.ours[p])
    PROVE  /\ line' \in [Carts -> [Goods -> LineRow]] /\ LinesGoOn
           /\ \A p \in Goods :
                 /\ \/ line'[into][p].qty <= line[into][p].qty
                    \/ line'[into][p].qty <= m.theirs[p].qty
                    \/ /\ m.mine # NoCart /\ Current(into, p, m.ours[p])
                       /\ line'[into][p].qty <= m.ours[p].qty + m.theirs[p].qty
                 /\ line'[m.guest][p].qty = 0
                 /\ \A c \in Carts : c # into => line'[c][p].qty <= line[c][p].qty
<1>1. m.guest \in Carts /\ m.theirs \in [Goods -> LineRow] /\ m.ours \in [Goods -> LineRow]
      BY DEF Fitting
<1> DEFINE New(p) == IF m.theirs[p].qty = 0 THEN line[into][p]
                     ELSE WriteLine(into, p, m.ours[p], m.theirs[p].qty)[into][p]
           Old(p) == [line[m.guest][p] EXCEPT !.qty = 0]
<1>2. line' = [line EXCEPT ![into] = [p \in Goods |-> New(p)], ![m.guest] = [p \in Goods |-> Old(p)]]
      BY DEF Merged
<1>3. \A c \in Carts, p \in Goods : line[c][p] \in LineRow
      BY DEF CartInv, CartTypes
<1>4. \A p \in Goods : Old(p) \in LineRow /\ Old(p).qty = 0 /\ Old(p).row = line[m.guest][p].row
      BY <1>1, <1>3 DEF LineRow
<1>5. ASSUME NEW p \in Goods
      PROVE  /\ New(p) \in LineRow
             /\ \/ New(p).row > line[into][p].row
                \/ New(p).row = line[into][p].row /\ (New(p).qty > 0 => line[into][p].qty > 0)
             /\ \/ New(p).qty <= line[into][p].qty
                \/ New(p).qty <= m.theirs[p].qty
                \/ /\ m.mine # NoCart /\ Current(into, p, m.ours[p])
                   /\ New(p).qty <= m.ours[p].qty + m.theirs[p].qty
  <2>1. m.theirs[p].qty \in Nat /\ m.ours[p].qty \in Nat /\ m.ours[p].row \in Nat /\ line[into][p] \in LineRow
        BY <1>1, <1>3 DEF LineRow
  <2>2. CASE m.theirs[p].qty = 0
    <3>1. New(p) = line[into][p]
          BY <2>2
    <3> HIDE DEF New
    <3> QED BY <2>1, <3>1 DEF LineRow
  <2>3. CASE m.theirs[p].qty # 0 /\ m.ours[p].qty > 0
    <3>1. New(p) = [qty |-> Capped(m.ours[p].qty + m.theirs[p].qty), row |-> m.ours[p].row]
          BY <1>3, <2>3 DEF WriteLine, CartInv, CartTypes
    <3>2. m.mine # NoCart /\ CanWrite(into, p, m.ours[p])
          BY <2>1, <2>3
    <3>3. Current(into, p, m.ours[p]) /\ line[into][p].row = m.ours[p].row /\ line[into][p].qty > 0
          BY <2>3, <3>2 DEF CanWrite, Exists, Current
    <3>4. m.ours[p].qty + m.theirs[p].qty \in Nat
          BY <2>1
    <3> HIDE DEF New
    <3>5. New(p) \in LineRow /\ New(p).row = m.ours[p].row /\ New(p).qty <= m.ours[p].qty + m.theirs[p].qty
          BY <2>1, <3>1, <3>4, CappedNat DEF LineRow
    <3> QED BY <3>2, <3>3, <3>5
  <2>4. CASE m.theirs[p].qty # 0 /\ ~(m.ours[p].qty > 0)
    <3>1. New(p) = [qty |-> Capped(m.theirs[p].qty), row |-> line[into][p].row + 1]
          BY <1>3, <2>4 DEF WriteLine, CartInv, CartTypes
    <3> HIDE DEF New
    <3>2. New(p) \in LineRow /\ New(p).row > line[into][p].row /\ New(p).qty <= m.theirs[p].qty
          BY <2>1, <3>1, CappedNat DEF LineRow
    <3> QED BY <3>2
  <2> QED BY <2>2, <2>3, <2>4
<1> HIDE DEF New, Old
<1>6. /\ line' \in [Carts -> [Goods -> LineRow]]
      /\ \A p \in Goods : line'[into][p] = New(p) /\ line'[m.guest][p] = Old(p)
      /\ \A c \in Carts : c # into /\ c # m.guest => line'[c] = line[c]
  <2> DEFINE New1 == [p \in Goods |-> New(p)]
             Old1 == [p \in Goods |-> Old(p)]
  <2>1. New1 \in [Goods -> LineRow] /\ Old1 \in [Goods -> LineRow]
        BY <1>4, <1>5
  <2>2. \A p \in Goods : New1[p] = New(p) /\ Old1[p] = Old(p)
        OBVIOUS
  <2>3. line' = [line EXCEPT ![into] = New1, ![m.guest] = Old1]
        BY <1>2
  <2> HIDE DEF New1, Old1
  <2>4. line \in [Carts -> [Goods -> LineRow]] /\ m.guest \in Carts
        BY <1>1 DEF CartInv, CartTypes
  <2>5. line' \in [Carts -> [Goods -> LineRow]]
        BY <2>1, <2>3, <2>4
  <2>6. /\ line'[into] = New1 /\ line'[m.guest] = Old1
        /\ \A c \in Carts : c # into /\ c # m.guest => line'[c] = line[c]
        BY <2>3, <2>4
  <2> QED BY <2>2, <2>5, <2>6
<1>7. LinesGoOn
  <2> SUFFICES ASSUME NEW c \in Carts, NEW p \in Goods
               PROVE  \/ line'[c][p].row > line[c][p].row
                      \/ line'[c][p].row = line[c][p].row /\ (line'[c][p].qty > 0 => line[c][p].qty > 0)
      BY DEF LinesGoOn
  <2>1. CASE c = into
        BY <1>5, <1>6, <2>1
  <2>2. CASE c = m.guest
        BY <1>4, <1>6, <2>2
  <2>3. CASE c # into /\ c # m.guest
        BY <1>6, <2>3
  <2> QED BY <2>1, <2>2, <2>3
<1>8. \A p \in Goods : \A c \in Carts : c # into => line'[c][p].qty <= line[c][p].qty
  <2> TAKE p \in Goods
  <2> TAKE c \in Carts
  <2> HAVE c # into
  <2>1. line[c][p].qty \in Nat
        BY <1>3 DEF LineRow
  <2>2. CASE c = m.guest
        BY <1>4, <1>6, <2>1, <2>2
  <2>3. CASE c # m.guest
        BY <1>6, <2>1, <2>3
  <2> QED BY <2>2, <2>3
<1> QED BY <1>4, <1>5, <1>6, <1>7, <1>8

\* A merge moves what it read, or is rolled back.
LEMMA FinishMergeGood == ASSUME CartInv, NEW t \in Tabs, FinishMerge(t) PROVE CartInv'
<1>1. PICK m : m = call[t]
      OBVIOUS
<1>2. /\ m.at = "merge" /\ Fitting(m) /\ m.guest \in Carts /\ m.mine \in Carts \cup {NoCart}
      /\ m.theirs \in [Goods -> LineRow] /\ m.ours \in [Goods -> LineRow]
      BY <1>1 DEF FinishMerge, CartInv, CartTypes, Called, Fitting
<1>3. Answer(t) /\ token' = NoCart /\ UNCHANGED <<asked, cleared, behind>>
      BY DEF FinishMerge
<1>4. Called' /\ TabsGoOn /\ \A q : WaitingTabs(q)' = WaitingTabs(q) \ {t}
      BY <1>3, Answered DEF CartInv
<1>5. \A q : Waiting(q)' <= Waiting(q)
      BY <1>4, WaitingChanges
<1>6. \A s \in Tabs : call'[s].at = "merge" => s # t /\ call'[s] = call[s]
      BY <1>3, Answered DEF CartInv
<1>8. CASE UNCHANGED <<line, cart, latest>>
  <2>1. LinesGoOn /\ \A q \in Goods, d \in Carts : line'[d][q].qty <= line[d][q].qty
        BY <1>8, SameLines
  <2>2. CartTypes'
        BY <1>3, <1>4, <1>8 DEF CartInv, CartTypes
  <2>3. Owned'
        BY <1>3, <1>6, <1>8 DEF CartInv, Owned, Merging
  <2>4. \A c \in Carts : cart'[c] = "guest" => cart[c] \in {"guest", "free"}
        BY <1>8
  <2> QED BY <1>3, <1>4, <1>5, <1>8, <2>2, <2>3, <2>4, PeaksStayAll
<1>9. CASE ~UNCHANGED <<line, cart, latest>>
  <2>1. /\ cart[m.guest] = "guest"
        /\ \A p \in Goods : m.theirs[p].qty > 0 /\ m.mine # NoCart => CanWrite(m.mine, p, m.ours[p])
        /\ m.mine = NoCart => Free # {}
        BY <1>1, <1>9 DEF FinishMerge
  <2>2. PICK into \in Carts : /\ m.mine = NoCart => cart[into] = "free"
                              /\ m.mine # NoCart => into = m.mine /\ cart[into] = "customer"
                              /\ line' = Merged(m, into) /\ latest' = into
                              /\ cart' = [cart EXCEPT ![into] = "customer", ![m.guest] = "gone"]
    <3> DEFINE into == IF m.mine = NoCart THEN Min(Free) ELSE m.mine
    <3>1. /\ line' = Merged(m, into) /\ latest' = into
          /\ cart' = [cart EXCEPT ![into] = "customer", ![m.guest] = "gone"]
          BY <1>1, <1>9 DEF FinishMerge
    <3>2. CASE m.mine = NoCart
          BY <2>1, <3>1, <3>2, FreeCart
    <3>3. CASE m.mine # NoCart
          BY <1>1, <1>2, <3>1, <3>3 DEF CartInv, Owned, Merging
    <3> QED BY <3>2, <3>3
  <2>3. into # m.guest
        BY <2>1, <2>2
  <2>4. m.mine = NoCart => \A p \in Goods : m.ours[p].qty = 0
        BY <1>1, <1>2 DEF CartInv, Owned, Merging
  <2>5. m.mine # NoCart => m.mine = into /\ \A p \in Goods : m.theirs[p].qty > 0 => CanWrite(into, p, m.ours[p])
        BY <2>1, <2>2
  <2>6. /\ line' \in [Carts -> [Goods -> LineRow]] /\ LinesGoOn
        /\ \A p \in Goods :
              /\ \/ line'[into][p].qty <= line[into][p].qty
                 \/ line'[into][p].qty <= m.theirs[p].qty
                 \/ /\ m.mine # NoCart /\ Current(into, p, m.ours[p])
                    /\ line'[into][p].qty <= m.ours[p].qty + m.theirs[p].qty
              /\ line'[m.guest][p].qty = 0
              /\ \A c \in Carts : c # into => line'[c][p].qty <= line[c][p].qty
        BY <1>2, <2>2, <2>3, <2>4, <2>5, MergedLines
  <2>7. /\ cart' \in [Carts -> {"free", "guest", "customer", "gone"}]
        /\ cart'[into] = "customer" /\ cart'[m.guest] = "gone"
        /\ \A c \in Carts : c # into /\ c # m.guest => cart'[c] = cart[c]
        BY <1>2, <2>2, <2>3 DEF CartInv, CartTypes
  <2>8. CartTypes'
        BY <1>3, <1>4, <2>2, <2>6, <2>7 DEF CartInv, CartTypes
  <2>9. Owned'
    <3>1. latest' # NoCart => cart'[latest'] = "customer"
          BY <2>2, <2>7
    <3>2. ASSUME NEW s \in Tabs, call'[s].at = "merge"
          PROVE  /\ cart'[call'[s].guest] \in {"guest", "gone"}
                 /\ call'[s].mine # NoCart => cart'[call'[s].mine] = "customer"
                 /\ call'[s].mine = NoCart => \A p \in Goods : call'[s].ours[p].qty = 0
      <4>1. call'[s] = call[s] /\ call[s].at = "merge"
            BY <1>6, <3>2
      <4>2. call[s].guest \in Carts /\ call[s].mine \in Carts \cup {NoCart}
            BY <4>1 DEF CartInv, CartTypes, Called, Fitting
      <4>3. /\ cart[call[s].guest] \in {"guest", "gone"}
            /\ call[s].mine # NoCart => cart[call[s].mine] = "customer"
            /\ call[s].mine = NoCart => \A p \in Goods : call[s].ours[p].qty = 0
            BY <4>1 DEF CartInv, Owned, Merging
      <4>4. cart[into] \in {"free", "customer"}
            BY <2>2
      <4> QED BY <1>3, <2>1, <2>7, <4>1, <4>2, <4>3, <4>4
    <3> QED BY <1>3, <3>1, <3>2 DEF Owned, Merging
  <2>10. ASSUME NEW q \in Goods, NEW k \in [Carts -> Nat], Covered(q, k)
         PROVE  \E top \in [Carts -> Nat] : Covered(q, top)'
    <3>1. PICK top \in [Carts -> Nat] : /\ top[into] = k[into] + k[m.guest] /\ top[m.guest] = 0
                                        /\ \A c \in Carts : c # into /\ c # m.guest => top[c] = k[c]
      <4> DEFINE f == [c \in Carts |-> IF c = into THEN k[into] + k[m.guest] ELSE IF c = m.guest THEN 0 ELSE k[c]]
      <4>1. f \in [Carts -> Nat]
            BY <1>2
      <4> QED BY <1>2, <2>3, <4>1
    <3>2. SumOf(top, Carts) = SumOf(k, Carts)
      <4>1. IsFiniteSet(Carts)
            BY CartAssumption
      <4> QED BY <1>2, <2>3, <3>1, <4>1, SumMoved
    <3>3. \A c \in Carts : /\ line[c][q].qty \in Nat /\ line'[c][q].qty \in Nat /\ k[c] \in Nat /\ top[c] \in Nat
                           /\ line[c][q].qty <= k[c]
          BY <2>8, <2>10 DEF Covered, CartInv, CartTypes, LineRow
    <3>4. m.theirs[q].qty <= k[m.guest] /\ m.theirs[q].qty \in Nat /\ m.ours[q].qty \in Nat
          BY <1>1, <1>2, <2>1, <2>10 DEF Covered, MergeCovered, Merging, LineRow
    <3>5. m.mine # NoCart /\ Current(into, q, m.ours[q]) => m.ours[q].qty <= k[into]
          BY <1>1, <1>2, <2>2, <2>10 DEF Covered, MergeCovered, Merging
    <3>6. line'[into][q].qty <= top[into]
      <4>1. \/ line'[into][q].qty <= line[into][q].qty
            \/ line'[into][q].qty <= m.theirs[q].qty
            \/ /\ m.mine # NoCart /\ Current(into, q, m.ours[q])
               /\ line'[into][q].qty <= m.ours[q].qty + m.theirs[q].qty
            BY <2>6
      <4>2. k[m.guest] \in Nat
            BY <1>2
      <4> QED BY <3>1, <3>3, <3>4, <3>5, <4>1, <4>2
    <3>7. \A c \in Carts : line'[c][q].qty <= top[c] /\ (k[c] <= top[c] \/ line'[c][q].qty = 0)
      <4> TAKE c \in Carts
      <4>1. CASE c = into
        <5>1. k[m.guest] \in Nat /\ k[into] \in Nat
              BY <1>2
        <5> QED BY <3>1, <3>6, <4>1, <5>1
      <4>2. CASE c = m.guest
            BY <2>6, <3>1, <3>3, <4>2
      <4>3. CASE c # into /\ c # m.guest
        <5>1. line'[c][q].qty <= line[c][q].qty
              BY <2>6, <4>3
        <5>2. line[c][q].qty \in Nat /\ line'[c][q].qty \in Nat /\ k[c] \in Nat /\ line[c][q].qty <= k[c] /\ top[c] = k[c]
              BY <3>1, <3>3, <4>3
        <5> QED BY <5>1, <5>2
      <4> QED BY <4>1, <4>2, <4>3
    <3>8. \A s \in Tabs : call'[s].at = "merge" /\ cart'[call'[s].guest] = "guest"
                               => call'[s].theirs[q].qty = 0 \/ k[call'[s].guest] <= top[call'[s].guest]
      <4> TAKE s \in Tabs
      <4> HAVE call'[s].at = "merge" /\ cart'[call'[s].guest] = "guest"
      <4>1. call'[s].guest \in Carts
            BY <2>8 DEF CartTypes, Called, Fitting
      <4>2. call'[s].guest # into /\ call'[s].guest # m.guest
            BY <2>7
      <4> QED BY <3>1, <3>3, <4>1, <4>2
    <3>9. SumOf(top, Carts) + Waiting(q)' + Spent(q)' <= asked'[q]
      <4>1. Waiting(q)' <= Waiting(q) /\ Waiting(q) \in Nat /\ Waiting(q)' \in Nat
            BY <1>5, WaitingCounts
      <4>2. SumOf(k, Carts) + Waiting(q) + Spent(q) <= asked[q]
            BY <2>10 DEF Covered
      <4>3. Spent(q)' = Spent(q) /\ Spent(q) \in Int /\ asked'[q] = asked[q] /\ asked[q] \in Nat
            BY <1>3, SpentInt DEF Spent, CartInv
      <4>4. SumOf(k, Carts) \in Int
        <5>1. IntsOn(k, Carts)
              BY DEF IntsOn
        <5> QED BY <5>1, SumType, CartAssumption
      <4> QED BY <3>2, <4>1, <4>2, <4>3, <4>4
    <3>10. \A c \in Carts : cart'[c] = "guest" => cart[c] \in {"guest", "free"}
          BY <2>7
    <3>11. Covered(q, top)'
          BY <1>4, <2>6, <2>8, <2>10, <3>7, <3>8, <3>9, <3>10, CoverGoesOn DEF CartInv
    <3> QED BY <3>11
  <2> QED BY <1>4, <2>6, <2>8, <2>9, <2>10, CartGoesOn
<1> QED BY <1>8, <1>9

\* No carts, no requests.
LEMMA CartInitial == CartInit => CartInv
<1> SUFFICES ASSUME CartInit PROVE CartInv
    OBVIOUS
<1>1. NoLine \in LineRow /\ NoLine.qty = 0 /\ Fitting(Resting) /\ Resting.at = "none"
      BY DEF NoLine, LineRow, Fitting, Resting
<1>2. Called /\ \A t \in Tabs : call[t].at = "none"
      BY <1>1 DEF CartInit, Called
<1>3. CartTypes /\ Owned /\ Dated
      BY <1>1, <1>2 DEF CartInit, CartTypes, Owned, Dated, Merging
<1>4. ASSUME NEW p \in Goods PROVE \E k \in [Carts -> Nat] : Covered(p, k)
  <2>1. PICK k \in [Carts -> Nat] : \A c \in Carts : k[c] = 0
    <3>1. [c \in Carts |-> 0] \in [Carts -> Nat]
          OBVIOUS
    <3> QED BY <3>1
  <2>2. SumOf(k, Carts) = 0
        BY <2>1, SumZero, CartAssumption
  <2>3. WaitingTabs(p) = {}
        BY <1>2 DEF WaitingTabs
  <2>4. Waiting(p) = 0
        BY <2>3, FS_EmptySet DEF Waiting
  <2>5. \A c \in Carts : line[c][p].qty <= k[c]
        BY <1>1, <2>1 DEF CartInit
  <2>6. \A s \in Tabs : AddCovered(s, p, k) /\ MergeCovered(s, p, k)
        BY <1>2 DEF AddCovered, MergeCovered, Merging
  <2>7. Spent(p) = 0 /\ asked[p] = 0
        BY DEF CartInit, Spent
  <2>8. Covered(p, k)
        BY <2>2, <2>4, <2>5, <2>6, <2>7 DEF Covered
  <2> QED BY <2>8
<1> QED BY <1>3, <1>4 DEF CartInv

\* Every step of the tabs and of the purge keeps the invariant.
LEMMA CartStep == CartInv /\ [CartNext]_cartVars => CartInv'
<1> SUFFICES ASSUME CartInv, [CartNext]_cartVars PROVE CartInv'
    OBVIOUS
<1>1. ASSUME NEW t \in Tabs,
             \/ CreateCart(t) \/ WriteAdd(t) \/ WriteSet(t) \/ StartClear(t) \/ WriteClear(t)
             \/ StartOrder(t) \/ PlaceOrder(t) \/ RefuseOrder(t) \/ StartMerge(t) \/ FinishMerge(t)
      PROVE  CartInv'
      BY <1>1, CreateCartGood, WriteAddGood, WriteSetGood, StartClearGood, WriteClearGood,
         StartOrderGood, PlaceOrderGood, RefuseOrderGood, StartMergeGood, FinishMergeGood
<1>2. ASSUME NEW t \in Tabs, SignIn(t) \/ SignOut(t) PROVE CartInv'
      BY <1>2, SignInOut DEF SignIn, SignOut
<1>3. ASSUME NEW t \in Tabs, NEW p \in Goods, StartAdd(t, p) PROVE CartInv'
      BY <1>3, StartAddGood
<1>4. ASSUME NEW t \in Tabs, NEW p \in Goods, NEW n \in 0..MaxLineQty, StartSet(t, p, n) PROVE CartInv'
      BY <1>4, StartSetGood
<1>5. ASSUME NEW c \in Carts, Purge(c) PROVE CartInv'
      BY <1>5, PurgeGood
<1>6. CASE UNCHANGED cartVars
      BY <1>6, SignInOut DEF cartVars
<1> QED BY <1>1, <1>2, <1>3, <1>4, <1>5, <1>6 DEF CartNext

\* What the carts hold and what orders cleared for good is covered by the peaks, and so
\* asked for.
LEMMA CoveredCounts == CartInv => NothingMadeUp
<1> SUFFICES ASSUME CartInv, NEW p \in Goods PROVE Copies(p, Carts) + cleared[p] <= asked[p] + behind[p]
    BY DEF NothingMadeUp
<1>1. PICK k \in [Carts -> Nat] : Covered(p, k)
      BY DEF CartInv
<1> DEFINE h == [c \in Carts |-> line[c][p].qty]
<1>2. IntsOn(h, Carts) /\ IntsOn(k, Carts) /\ \A c \in Carts : h[c] <= k[c]
      BY <1>1 DEF IntsOn, Covered, CartInv, CartTypes, LineRow
<1> HIDE DEF h
<1>3. SumOf(h, Carts) <= SumOf(k, Carts) /\ SumOf(h, Carts) \in Int /\ SumOf(k, Carts) \in Int
      BY <1>2, SumLeq, SumType, CartAssumption
<1>4. SumOf(k, Carts) + Waiting(p) + Spent(p) <= asked[p]
      BY <1>1 DEF Covered
<1>5. Waiting(p) \in Nat /\ cleared[p] \in Nat /\ behind[p] \in Nat /\ asked[p] \in Nat
      BY WaitingCounts DEF CartInv, CartTypes
<1>6. SumOf(h, Carts) + cleared[p] <= asked[p] + behind[p]
      BY <1>3, <1>4, <1>5 DEF Spent
<1> QED BY <1>6 DEF Copies, h

\* However adds, merges, clears and orders of any number of guest and customer tabs
\* interleave over any number of carts (cart.service.ts reads a cart and writes it without
\* a lock), copies are never made up: what carts hold and orders cleared was asked for,
\* but for what an order cleared from under an open merge.
THEOREM NothingMadeUpCorrect == CartSpec => []NothingMadeUp
<1>1. CartSpec => []CartInv
      BY CartInitial, CartStep, PTL DEF CartSpec
<1> QED BY <1>1, CoveredCounts, PTL

-----------------------------------------------------------------------------
(* Every basket: the price calculation adds up, to the paisa.  What is     *)
(* left after rounding down is as many paisa as the remainders make up,    *)
(* and goes to as many lines, none of which had no remainder.              *)

\* In a strict total order of a finite set, r members have fewer than r ahead of them.
LEMMA FirstOnes ==
    ASSUME NEW D, IsFiniteSet(D), NEW ahead \in [D -> SUBSET D],
           \A i \in D : i \notin ahead[i],
           \A i, j \in D : j \in ahead[i] => ahead[j] \subseteq ahead[i],
           \A i, j \in D : i # j => i \in ahead[j] \/ j \in ahead[i],
           NEW n \in Nat, n <= Cardinality(D)
    PROVE  Cardinality({i \in D : Cardinality(ahead[i]) < n}) = n
<1> DEFINE Firsts(r) == {i \in D : Cardinality(ahead[i]) < r}
           Wrong == {r \in Nat : r <= Cardinality(D) /\ Cardinality(Firsts(r)) # r}
<1> SUFFICES ASSUME Wrong # {} PROVE FALSE
    OBVIOUS
<1>1. \A i \in D : IsFiniteSet(ahead[i]) /\ Cardinality(ahead[i]) \in Nat
      BY FS_Subset, FS_CardinalityType
<1>2. PICK s \in Wrong : \A r \in Wrong : s <= r
      BY SmallestNumber
<1>3. s # 0
  <2>1. Firsts(0) = {}
        BY <1>1
  <2>2. Cardinality(Firsts(0)) = 0
        BY <2>1, FS_EmptySet
  <2> QED BY <2>2
<1>4. Cardinality(D) \in Nat
      BY FS_CardinalityType
<1> DEFINE r == s - 1
<1>5. r \in Nat /\ r < s /\ s = r + 1 /\ r < Cardinality(D) /\ r <= Cardinality(D)
      BY <1>3, <1>4
<1> HIDE DEF r
<1>6. Cardinality(Firsts(r)) = r
  <2>1. r \notin Wrong
    <3> HIDE DEF Wrong
    <3>1. s \in Nat
          BY DEF Wrong
    <3> QED BY <1>2, <1>5, <3>1
  <2> QED BY <1>5, <2>1
<1> DEFINE Rest == D \ Firsts(r)
<1>7. IsFiniteSet(Firsts(r)) /\ Firsts(r) \subseteq D
      BY FS_Subset
<1>8. Rest # {}
      BY <1>5, <1>6
<1>9. PICK x \in Rest : \A y \in Rest : Cardinality(ahead[x]) <= Cardinality(ahead[y])
  <2> DEFINE Ranks == {Cardinality(ahead[y]) : y \in Rest}
  <2>1. Ranks \subseteq Nat /\ Ranks # {}
        BY <1>1, <1>8
  <2>2. PICK k \in Ranks : \A l \in Ranks : k <= l
    <3> HIDE DEF Ranks
    <3> QED BY <2>1, SmallestNumber
  <2> QED BY <2>2
<1>10. x \in D /\ x \notin Firsts(r)
      BY <1>9
<1>11. \A y \in Rest : y \notin ahead[x]
  <2> SUFFICES ASSUME NEW y \in Rest, y \in ahead[x] PROVE FALSE
      OBVIOUS
  <2>1. ahead[y] \subseteq ahead[x] /\ y \notin ahead[y] /\ y \in D
        BY <1>10
  <2>2. ahead[y] \subseteq ahead[x] \ {y}
        BY <2>1
  <2>3. Cardinality(ahead[x] \ {y}) = Cardinality(ahead[x]) - 1 /\ IsFiniteSet(ahead[x] \ {y})
        BY <1>1, <1>10, FS_RemoveElement
  <2>4. Cardinality(ahead[y]) <= Cardinality(ahead[x] \ {y})
        BY <2>2, <2>3, FS_Subset
  <2>5. Cardinality(ahead[x]) <= Cardinality(ahead[y])
        BY <1>9
  <2> QED BY <1>1, <1>10, <2>1, <2>3, <2>4, <2>5
<1>12. ahead[x] = Firsts(r)
  <2>1. ahead[x] \subseteq Firsts(r)
        BY <1>10, <1>11
  <2>2. ASSUME NEW i \in Firsts(r) PROVE i \in ahead[x]
    <3>1. i \in D /\ Cardinality(ahead[i]) < r /\ i # x
          BY <1>10
    <3>2. CASE x \in ahead[i]
      <4>1. ahead[x] \subseteq ahead[i]
            BY <1>10, <3>1, <3>2
      <4>2. Cardinality(ahead[x]) <= Cardinality(ahead[i])
            BY <1>1, <3>1, <4>1, FS_Subset
      <4>3. ~(Cardinality(ahead[x]) < r)
            BY <1>10
      <4> QED BY <1>1, <1>5, <1>10, <3>1, <4>2, <4>3
    <3> QED BY <1>10, <3>1, <3>2
  <2> QED BY <2>1, <2>2
<1>13. Firsts(s) = Firsts(r) \cup {x}
  <2>1. Cardinality(ahead[x]) = r
        BY <1>6, <1>12
  <2>2. ASSUME NEW y \in D, y \notin Firsts(r), y # x PROVE ~(Cardinality(ahead[y]) < s)
    <3>1. x \in ahead[y]
          BY <1>10, <1>11, <2>2
    <3>2. ahead[x] \cup {x} \subseteq ahead[y] /\ x \notin ahead[x]
          BY <1>10, <3>1
    <3>3. Cardinality(ahead[x] \cup {x}) = r + 1
          BY <1>1, <1>10, <2>1, <3>2, FS_AddElement
    <3>4. Cardinality(ahead[x] \cup {x}) <= Cardinality(ahead[y])
          BY <1>1, <3>2, FS_Subset
    <3> QED BY <1>1, <1>5, <3>3, <3>4
  <2>3. \A y \in Firsts(r) : y \in Firsts(s)
        BY <1>1, <1>5
  <2>4. x \in Firsts(s)
        BY <1>5, <1>10, <2>1
  <2> QED BY <2>2, <2>3, <2>4
<1>14. Cardinality(Firsts(s)) = s
  <2> HIDE DEF Firsts
  <2>1. Cardinality(Firsts(r) \cup {x}) = Cardinality(Firsts(r)) + 1
        BY <1>7, <1>10, FS_AddElement
  <2> QED BY <1>5, <1>6, <1>13, <2>1
<1> QED BY <1>14

\* What division leaves over.
LEMMA DivideNat ==
    ASSUME NEW n \in Nat, NEW d \in Nat \ {0}
    PROVE  n \div d \in Nat /\ n % d \in Nat /\ n % d < d /\ n = d * (n \div d) + (n % d)
OBVIOUS

\* A share in whole paisa, with or without one of those that are left, is nearer to its
\* proportion than one paisa.
LEMMA ShareNear ==
    ASSUME NEW sum \in Nat \ {0}, NEW part \in Nat, NEW down \in Nat, NEW frac \in Nat, frac < sum,
           part = sum * down + frac, NEW extra \in {0, 1}, extra = 1 => frac > 0
    PROVE  (down + extra) * sum - part < sum /\ -((down + extra) * sum - part) < sum
<1>1. (down + extra) * sum = sum * down + extra * sum
      OBVIOUS
<1>2. extra * sum \in {0, sum} /\ (extra = 0 => extra * sum = 0) /\ (extra = 1 => extra * sum = sum)
      OBVIOUS
<1>3. PICK a \in Nat : a = sum * down
      OBVIOUS
<1>4. (down + extra) * sum - part = extra * sum - frac
  <2>1. part = a + frac /\ (down + extra) * sum = a + extra * sum
        BY <1>1, <1>3
  <2> QED BY <1>2, <2>1
<1>5. CASE extra = 0
      BY <1>2, <1>4, <1>5
<1>6. CASE extra = 1
      BY <1>2, <1>4, <1>6
<1> QED BY <1>5, <1>6

\* Only so many paisa can be left over: no more than there are remainders.
LEMMA RestBounded ==
    ASSUME NEW sum \in Nat \ {0}, NEW rest \in Int, NEW fracs \in Nat, NEW n \in Nat,
           sum * rest = fracs, fracs <= sum * n
    PROVE  rest \in Nat /\ rest <= n
<1>1. rest >= 0
  <2> SUFFICES ASSUME rest < 0 PROVE FALSE
      OBVIOUS
  <2>1. sum * rest < 0
        OBVIOUS
  <2> QED BY <2>1
<1>2. rest <= n
  <2> SUFFICES ASSUME rest > n PROVE FALSE
      OBVIOUS
  <2>1. sum * rest >= sum * (n + 1)
        OBVIOUS
  <2>2. sum * (n + 1) = sum * n + sum
        OBVIOUS
  <2>3. sum * n \in Nat
        OBVIOUS
  <2> QED BY <2>1, <2>2, <2>3
<1> QED BY <1>1, <1>2

\* allocate (money.ts:48): the parts add up to the total, each is nearer to its proportion
\* than one paisa, none is below nothing.
LEMMA AllocateFair ==
    ASSUME NEW D, IsFiniteSet(D), D \subseteq Nat, NEW total \in Nat, NEW weight \in [D -> Nat], Total(weight) # 0
    PROVE  Allocate(total, weight) \in [D -> Nat] /\ FairSplit(Allocate(total, weight), total, weight)
<1> DEFINE sum == Total(weight)
           down == [i \in D |-> (total * weight[i]) \div sum]
           frac == [i \in D |-> (total * weight[i]) % sum]
           ahead == [i \in D |-> {j \in D : frac[j] > frac[i] \/ (frac[j] = frac[i] /\ j < i)}]
           rest == total - Total(down)
           extra == [i \in D |-> IF Cardinality(ahead[i]) < rest THEN 1 ELSE 0]
<1>0. DOMAIN weight = D /\ DOMAIN down = D /\ DOMAIN frac = D
      OBVIOUS
<1>1. sum \in Nat \ {0} /\ sum = SumOf(weight, D)
  <2>1. NatsOn(weight, D)
        BY DEF NatsOn
  <2> QED BY <2>1, SumNat DEF Total
<1>2. Allocate(total, weight) = [i \in D |-> down[i] + extra[i]]
  <2>1. \A i \in D : ahead[i] = {j \in D : frac[j] > frac[i] \/ (frac[j] = frac[i] /\ j < i)}
        OBVIOUS
  <2>2. sum # 0
        OBVIOUS
  <2>3. Allocate(total, weight) = [i \in D |-> down[i] + IF Cardinality({j \in D : frac[j] > frac[i] \/ (frac[j] = frac[i] /\ j < i)}) < rest THEN 1 ELSE 0]
        BY <1>0, <2>2 DEF Allocate
  <2> HIDE DEF sum, down, frac, rest
  <2> QED BY <2>1, <2>3
<1>3. \A i \in D : /\ down[i] \in Nat /\ frac[i] \in Nat /\ frac[i] < sum /\ total * weight[i] \in Nat
                   /\ total * weight[i] = sum * down[i] + frac[i]
  <2> TAKE i \in D
  <2>1. total * weight[i] \in Nat
        OBVIOUS
  <2>2. down[i] = (total * weight[i]) \div sum /\ frac[i] = (total * weight[i]) % sum
        OBVIOUS
  <2> HIDE DEF sum, down, frac
  <2> QED BY <1>1, <2>1, <2>2, DivideNat, SMTT(30)
<1>4. DOMAIN ahead = D /\ ahead \in [D -> SUBSET D]
      OBVIOUS
<1>5. \A i \in D : /\ ahead[i] = {j \in D : frac[j] > frac[i] \/ (frac[j] = frac[i] /\ j < i)}
                   /\ extra[i] = IF Cardinality(ahead[i]) < rest THEN 1 ELSE 0
      OBVIOUS
<1>6. rest = total - SumOf(down, D)
      BY <1>0 DEF Total
<1>7. \A g : DOMAIN g = D => Total(g) = SumOf(g, D)
      BY DEF Total
<1> HIDE DEF sum, down, frac, ahead, rest, extra
<1>8. SumOf(down, D) \in Nat /\ SumOf(frac, D) \in Nat /\ rest \in Int
  <2>1. NatsOn(down, D) /\ NatsOn(frac, D)
        BY <1>3 DEF NatsOn
  <2>2. SumOf(down, D) \in Nat /\ SumOf(frac, D) \in Nat
        BY <2>1, SumNat
  <2> QED BY <1>6, <2>2
<1>9. sum * rest = SumOf(frac, D)
  <2> DEFINE parts == [i \in D |-> total * weight[i]]
             wholes == [i \in D |-> sum * down[i]]
  <2>1. IntsOn(parts, D) /\ IntsOn(wholes, D) /\ IntsOn(frac, D) /\ IntsOn(weight, D) /\ IntsOn(down, D)
        BY <1>1, <1>3 DEF IntsOn
  <2>2. \A i \in D : parts[i] = total * weight[i] /\ wholes[i] = sum * down[i] /\ parts[i] = wholes[i] + frac[i]
        BY <1>3
  <2> HIDE DEF parts, wholes
  <2>0. Multiplied(parts, total, weight, D) /\ Multiplied(wholes, sum, down, D) /\ Added(parts, wholes, frac, D)
        BY <2>2 DEF Multiplied, Added
  <2>3. SumOf(parts, D) = total * sum
        BY <1>1, <2>0, <2>1, SumScale
  <2>4. SumOf(wholes, D) = sum * SumOf(down, D)
        BY <1>1, <2>0, <2>1, SumScale
  <2>5. SumOf(parts, D) = SumOf(wholes, D) + SumOf(frac, D)
        BY <2>0, <2>1, SumAdded
  <2>6. total * sum = sum * SumOf(down, D) + SumOf(frac, D)
        BY <2>3, <2>4, <2>5
  <2>7. \A d \in Nat : sum * (total - d) = total * sum - sum * d
        BY <1>1
  <2>8. sum * SumOf(down, D) \in Nat /\ total * sum \in Nat
        BY <1>1, <1>8
  <2> QED BY <1>6, <1>8, <2>6, <2>7, <2>8
<1> DEFINE Pos == {i \in D : frac[i] > 0}
<1>10. IsFiniteSet(Pos) /\ Cardinality(Pos) \in Nat /\ Cardinality(Pos) <= Cardinality(D)
      BY FS_Subset, FS_CardinalityType
<1>11. SumOf(frac, D) <= sum * Cardinality(Pos)
  <2> DEFINE ones == [i \in D |-> IF i \in Pos THEN 1 ELSE 0]
             most == [i \in D |-> sum * ones[i]]
  <2>1. IntsOn(ones, D) /\ IntsOn(frac, D)
        BY <1>3 DEF IntsOn
  <2>2. \A i \in D : frac[i] <= most[i] /\ most[i] = sum * ones[i] /\ most[i] \in Int
    <3> TAKE i \in D
    <3>1. most[i] = sum * ones[i]
          OBVIOUS
    <3>2. CASE i \in Pos
      <4>1. ones[i] = 1
            BY <3>2
      <4>2. most[i] = sum
            BY <1>1, <3>1, <4>1
      <4> QED BY <1>1, <1>3, <3>1, <4>2
    <3>3. CASE i \notin Pos
      <4>1. ones[i] = 0 /\ frac[i] = 0
            BY <1>3, <3>3
      <4>2. most[i] = 0
            BY <1>1, <3>1, <4>1
      <4> QED BY <3>1, <4>1, <4>2
    <3> QED BY <3>2, <3>3
  <2>3. \A i \in D : ones[i] = IF i \in Pos THEN 1 ELSE 0
        OBVIOUS
  <2>4. Pos \in SUBSET D
        OBVIOUS
  <2> HIDE DEF Pos, ones, most
  <2>5. SumOf(ones, D) = Cardinality(Pos)
        BY <2>3, <2>4, SumOnes
  <2>6. IntsOn(most, D)
        BY <2>2 DEF IntsOn
  <2>7. SumOf(most, D) = sum * SumOf(ones, D)
    <3>1. Multiplied(most, sum, ones, D)
          BY <2>2 DEF Multiplied
    <3> QED BY <1>1, <2>1, <3>1, SumScale
  <2>8. SumOf(frac, D) <= SumOf(most, D)
        BY <2>1, <2>2, <2>6, SumLeq
  <2> QED BY <2>5, <2>7, <2>8
<1>12. rest \in Nat /\ rest <= Cardinality(Pos) /\ rest <= Cardinality(D)
  <2>1. rest \in Nat /\ rest <= Cardinality(Pos)
    <3> HIDE DEF Pos
    <3> QED BY <1>1, <1>8, <1>9, <1>10, <1>11, RestBounded
  <2>2. Cardinality(D) \in Nat
        BY FS_CardinalityType
  <2> QED BY <1>10, <2>1, <2>2
<1> DEFINE First == {i \in D : Cardinality(ahead[i]) < rest}
<1>13. Cardinality(First) = rest
  <2>1. \A i \in D : i \notin ahead[i]
        BY <1>3, <1>5
  <2>2. \A i, j \in D : j \in ahead[i] => ahead[j] \subseteq ahead[i]
    <3> TAKE i, j \in D
    <3> SUFFICES ASSUME j \in ahead[i], NEW x \in ahead[j] PROVE x \in ahead[i]
        OBVIOUS
    <3>1. x \in D /\ (frac[x] > frac[j] \/ (frac[x] = frac[j] /\ x < j)) /\ (frac[j] > frac[i] \/ (frac[j] = frac[i] /\ j < i))
          BY <1>5
    <3>2. {frac[x], frac[j], frac[i], x, j, i} \subseteq Nat
          BY <1>3, <3>1
    <3>3. frac[x] > frac[i] \/ (frac[x] = frac[i] /\ x < i)
          BY <3>1, <3>2
    <3> QED BY <1>5, <3>1, <3>3
  <2>3. \A i, j \in D : i # j => i \in ahead[j] \/ j \in ahead[i]
    <3> TAKE i, j \in D
    <3>1. {frac[j], frac[i], j, i} \subseteq Nat
          BY <1>3
    <3> QED BY <1>5, <3>1
  <2> QED BY <1>4, <1>12, <2>1, <2>2, <2>3, FirstOnes
<1>14. \A i \in D : i \in First => frac[i] > 0
  <2> SUFFICES ASSUME NEW i \in D, i \in First, ~(frac[i] > 0) PROVE FALSE
      OBVIOUS
  <2>1. Pos \subseteq ahead[i] /\ IsFiniteSet(ahead[i])
        BY <1>3, <1>4, <1>5, FS_Subset
  <2>2. Cardinality(Pos) <= Cardinality(ahead[i]) /\ Cardinality(ahead[i]) \in Nat
        BY <2>1, FS_Subset, FS_CardinalityType
  <2> QED BY <1>10, <1>12, <2>2
<1>15. \A i \in D : extra[i] = IF i \in First THEN 1 ELSE 0
      BY <1>5
<1>16. SumOf(extra, D) = rest
  <2>1. First \in SUBSET D
        OBVIOUS
  <2> HIDE DEF First
  <2> QED BY <1>13, <1>15, <2>1, SumOnes
<1> DEFINE share == [i \in D |-> down[i] + extra[i]]
<1>17. \A i \in D : share[i] = down[i] + extra[i] /\ extra[i] \in {0, 1} /\ share[i] \in Nat
      BY <1>3, <1>15
<1>18. share \in [D -> Nat] /\ DOMAIN share = D
      BY <1>17
<1> HIDE DEF share
<1>19. Total(share) = total
  <2>1. IntsOn(down, D) /\ IntsOn(extra, D)
        BY <1>3, <1>17 DEF IntsOn
  <2>2. SumOf(share, D) = SumOf(down, D) + SumOf(extra, D)
    <3>1. Added(share, down, extra, D)
          BY <1>17 DEF Added
    <3> QED BY <2>1, <3>1, SumAdded
  <2> QED BY <1>6, <1>7, <1>8, <1>16, <1>18, <2>2
<1>20. \A i \in D : share[i] * sum - total * weight[i] < sum /\ -(share[i] * sum - total * weight[i]) < sum
  <2> TAKE i \in D
  <2>1. extra[i] = 1 => frac[i] > 0
        BY <1>14, <1>15
  <2>2. (down[i] + extra[i]) * sum - total * weight[i] < sum /\ -((down[i] + extra[i]) * sum - total * weight[i]) < sum
        BY <1>1, <1>3, <1>17, <2>1, ShareNear
  <2> QED BY <1>17, <2>2
<1>21. Allocate(total, weight) = share
      BY <1>2 DEF share
<1>22. FairSplit(share, total, weight)
      BY <1>0, <1>19, <1>20 DEF FairSplit, sum
<1> QED BY <1>18, <1>21, <1>22

\* Without weights the first part is the total.
LEMMA AllocateFirst ==
    ASSUME NEW n \in Nat \ {0}, NEW total \in Nat, NEW weight \in [1..n -> Nat], Total(weight) = 0
    PROVE  Allocate(total, weight) \in [1..n -> Nat] /\ FairSplit(Allocate(total, weight), total, weight)
<1> DEFINE D == 1..n
           share == [i \in D |-> IF i = 1 THEN total ELSE 0]
<1>1. Allocate(total, weight) = share
      BY DEF Allocate
<1>2. share \in [D -> Nat] /\ DOMAIN share = D /\ share[1] = total /\ 1 \in D /\ \A i \in D \ {1} : share[i] = 0
      OBVIOUS
<1>3. IsFiniteSet(D) /\ IntsOn(share, D)
      BY FS_Interval DEF IntsOn
<1> HIDE DEF share, D
<1>4. SumOf(share, D) = total
      BY <1>2, <1>3, SumOnly
<1>5. FairSplit(share, total, weight)
      BY <1>2, <1>4 DEF FairSplit, Total
<1> QED BY <1>1, <1>2, <1>5 DEF D

\* No part is more than its weight where the total is no more than all weights.
LEMMA PartWithin ==
    ASSUME NEW sum \in Nat \ {0}, NEW total \in Nat, total <= sum, NEW w \in Nat, NEW s \in Nat,
           s * sum - total * w < sum
    PROVE  s <= w
<1> SUFFICES ASSUME s > w PROVE FALSE
    OBVIOUS
<1>1. s * sum >= (w + 1) * sum
      OBVIOUS
<1>2. (w + 1) * sum = w * sum + sum
      OBVIOUS
<1>3. total * w <= w * sum
      OBVIOUS
<1>4. s * sum \in Nat /\ w * sum \in Nat /\ total * w \in Nat
      OBVIOUS
<1> QED BY <1>1, <1>2, <1>3, <1>4

\* The smallest of some natural numbers.
LEMMA MinNat == ASSUME NEW S, S \subseteq Nat, S # {} PROVE Min(S) \in S /\ \A x \in S : Min(S) <= x
<1>1. \E x \in S : \A y \in S : x <= y
      BY SmallestNumber
<1> QED BY <1>1 DEF Min

\* Rounding a natural number.
LEMMA HalfUpNat == ASSUME NEW n \in Nat, NEW d \in Nat \ {0} PROVE HalfUp(n, d) \in Nat
<1>1. 2 * n + d \in Nat /\ 2 * d \in Nat \ {0}
      OBVIOUS
<1>2. \A x \in Nat, y \in Nat \ {0} : x \div y \in Nat
      BY DivideNat
<1> QED BY <1>1, <1>2 DEF HalfUp

\* What a sequence holds.
LEMMA MemberOf == ASSUME NEW S, NEW s \in Seq(S), NEW i \in DOMAIN s PROVE s[i] \in S
OBVIOUS

\* The lines of a basket, what they cost and what of it a coupon covers.
LEMMA BasketTypes ==
    ASSUME NEW q \in QuoteInputs
    PROVE  /\ IsFiniteSet(DOMAIN q.lines) /\ DOMAIN q.lines \subseteq Nat
           /\ \A i \in DOMAIN q.lines : q.lines[i].item \in Titles \cup Bundles /\ q.lines[i].qty \in Nat
           /\ Gross(q) \in [DOMAIN q.lines -> Nat] /\ Eligible(q) \in [DOMAIN q.lines -> Nat]
           /\ \A i \in DOMAIN q.lines : Eligible(q)[i] <= Gross(q)[i]
<1>1. q.lines \in Seq([item : Titles \cup Bundles, qty : Nat \ {0}])
      BY QuoteAssumption
<1>2. DOMAIN q.lines = 1..Len(q.lines) /\ Len(q.lines) \in Nat
      BY <1>1
<1>3. IsFiniteSet(DOMAIN q.lines) /\ DOMAIN q.lines \subseteq Nat
      BY <1>2, FS_Interval
<1>4. \A i \in DOMAIN q.lines : q.lines[i].item \in Titles \cup Bundles /\ q.lines[i].qty \in Nat
  <2> TAKE i \in DOMAIN q.lines
  <2>1. q.lines[i] \in [item : Titles \cup Bundles, qty : Nat \ {0}]
        BY <1>1, MemberOf
  <2> QED BY <2>1
<1>5. \A i \in DOMAIN q.lines : Price[q.lines[i].item] * q.lines[i].qty \in Nat
  <2> TAKE i \in DOMAIN q.lines
  <2>1. Price[q.lines[i].item] \in Nat /\ q.lines[i].qty \in Nat
        BY <1>4, QuoteAssumption
  <2> QED BY <2>1
<1>6. Gross(q) \in [DOMAIN q.lines -> Nat]
      BY <1>5 DEF Gross
<1> HIDE DEF Gross
<1>7. Eligible(q) \in [DOMAIN q.lines -> Nat] /\ \A i \in DOMAIN q.lines : Eligible(q)[i] \in {0, Gross(q)[i]}
      BY <1>6 DEF Eligible
<1>8. \A i \in DOMAIN q.lines : Eligible(q)[i] <= Gross(q)[i]
  <2> TAKE i \in DOMAIN q.lines
  <2>1. Gross(q)[i] \in Nat /\ Eligible(q)[i] \in {0, Gross(q)[i]}
        BY <1>6, <1>7
  <2> QED BY <2>1
<1> QED BY <1>3, <1>4, <1>6, <1>7, <1>8

\* A coupon takes no more than what it covers.
LEMMA DiscountBounded ==
    ASSUME NEW q \in QuoteInputs
    PROVE  CouponDiscount(q) \in Nat /\ CouponDiscount(q) <= Total(Eligible(q)) /\ Total(Eligible(q)) \in Nat
<1> DEFINE base == Total(Eligible(q))
<1>1. base \in Nat
  <2>1. NatsOn(Eligible(q), DOMAIN q.lines) /\ DOMAIN Eligible(q) = DOMAIN q.lines
        BY BasketTypes DEF NatsOn
  <2> QED BY <2>1, BasketTypes, SumNat DEF Total
<1>2. q.coupon.value \in Nat /\ q.coupon.cap \subseteq Nat
      BY QuoteAssumption
<1> HIDE DEF base
<1>3. base * q.coupon.value \in Nat
      BY <1>1, <1>2
<1>4. 100 * HalfUp(base * q.coupon.value, 10000) \in Nat
  <2>1. HalfUp(base * q.coupon.value, 10000) \in Nat
        BY <1>3, HalfUpNat
  <2> QED BY <2>1
<1> DEFINE S == q.coupon.cap \cup {base, 100 * HalfUp(base * q.coupon.value, 10000)}
           T == {q.coupon.value, base}
<1>5. S \subseteq Nat /\ base \in S /\ T \subseteq Nat /\ base \in T
      BY <1>1, <1>2, <1>4
<1>6. CouponDiscount(q) \in {Min(S), Min(T), 0}
      BY DEF CouponDiscount, base
<1> HIDE DEF S, T
<1>7. Min(S) \in Nat /\ Min(S) <= base /\ Min(T) \in Nat /\ Min(T) <= base
      BY <1>5, MinNat
<1>8. CouponDiscount(q) \in Nat /\ CouponDiscount(q) <= base
      BY <1>1, <1>6, <1>7
<1> QED BY <1>1, <1>8 DEF base

\* The lines bear the discount, each its fair share and none more than the coupon covers.
LEMMA DiscountSpread ==
    ASSUME NEW q \in QuoteInputs
    PROVE  /\ LineDiscounts(q) \in [DOMAIN q.lines -> Nat]
           /\ CouponDiscount(q) > 0 => FairSplit(LineDiscounts(q), CouponDiscount(q), Eligible(q))
           /\ \A i \in DOMAIN q.lines : LineDiscounts(q)[i] <= Eligible(q)[i]
<1> DEFINE D == DOMAIN q.lines
           total == CouponDiscount(q)
           weight == Eligible(q)
           share == LineDiscounts(q)
<1>1. IsFiniteSet(D) /\ D \subseteq Nat /\ weight \in [D -> Nat] /\ \A i \in D : weight[i] \in Nat
      BY BasketTypes
<1>2. total \in Nat /\ total <= Total(weight) /\ Total(weight) \in Nat
      BY DiscountBounded
<1>3. CASE total = 0
  <2>1. share = [i \in D |-> 0]
        BY <1>3 DEF LineDiscounts
  <2> HIDE DEF D, total, weight, share
  <2>2. share \in [D -> Nat] /\ \A i \in D : share[i] <= weight[i]
        BY <1>1, <2>1
  <2> QED BY <1>3, <2>2 DEF D, total, weight, share
<1>4. CASE total # 0
  <2>1. share = Allocate(total, weight)
        BY <1>4 DEF LineDiscounts
  <2>2. \A i \in D : weight[i] \in Nat
        BY <1>1
  <2> HIDE DEF D, total, weight, share
  <2>3. Total(weight) # 0 /\ Total(weight) > 0 /\ Total(weight) \in Nat \ {0}
        BY <1>2, <1>4
  <2>4. share \in [D -> Nat] /\ FairSplit(share, total, weight)
        BY <1>1, <1>2, <2>1, <2>3, AllocateFair
  <2>5. \A i \in D : share[i] <= weight[i]
    <3> TAKE i \in D
    <3>1. DOMAIN weight = D /\ share[i] \in Nat /\ weight[i] \in Nat
          BY <1>1, <2>4
    <3>2. share[i] * Total(weight) - total * weight[i] < Total(weight)
          BY <2>3, <2>4, <3>1 DEF FairSplit
    <3> QED BY <1>2, <2>3, <3>1, <3>2, PartWithin
  <2> QED BY <2>4, <2>5 DEF D, total, weight, share
<1> QED BY <1>3, <1>4

\* What a line costs less its discount is not below nothing.
LEMMA NetNat ==
    ASSUME NEW q \in QuoteInputs
    PROVE  /\ Net(q) \in [DOMAIN q.lines -> Nat]
           /\ \A i \in DOMAIN q.lines : Net(q)[i] = Gross(q)[i] - LineDiscounts(q)[i]
<1>1. \A i \in DOMAIN q.lines : Gross(q)[i] - LineDiscounts(q)[i] \in Nat
  <2> TAKE i \in DOMAIN q.lines
  <2>1. Gross(q)[i] \in Nat /\ Eligible(q)[i] \in Nat /\ Eligible(q)[i] <= Gross(q)[i]
        BY BasketTypes
  <2>2. LineDiscounts(q)[i] \in Nat /\ LineDiscounts(q)[i] <= Eligible(q)[i]
        BY DiscountSpread
  <2> QED BY <2>1, <2>2
<1> QED BY <1>1 DEF Net

\* The books of a bundle bear all of what it is sold for.
LEMMA RevenuesSpread ==
    ASSUME NEW b \in Bundles, NEW net \in Nat
    PROVE  /\ Revenues(b, net) \in [DOMAIN Parts[b] -> Nat] /\ IsFiniteSet(DOMAIN Parts[b])
           /\ \A k \in DOMAIN Parts[b] : Parts[b][k].title \in Titles
           /\ FairSplit(Revenues(b, net), net,
                        [k \in DOMAIN Parts[b] |-> ListPrice[Parts[b][k].title] * Parts[b][k].copies])
<1> DEFINE n == Len(Parts[b])
           weight == [k \in DOMAIN Parts[b] |-> ListPrice[Parts[b][k].title] * Parts[b][k].copies]
<1>1. Parts[b] \in Seq([title : Titles, copies : Nat \ {0}]) /\ Parts[b] # <<>>
      BY QuoteAssumption
<1>2. n \in Nat \ {0} /\ DOMAIN Parts[b] = 1..n
      BY <1>1
<1>3. \A k \in DOMAIN Parts[b] : Parts[b][k].title \in Titles /\ Parts[b][k].copies \in Nat
  <2> TAKE k \in DOMAIN Parts[b]
  <2>1. Parts[b][k] \in [title : Titles, copies : Nat \ {0}]
        BY <1>1, MemberOf
  <2> QED BY <2>1
<1>4. weight \in [1..n -> Nat]
  <2>1. \A k \in DOMAIN Parts[b] : ListPrice[Parts[b][k].title] * Parts[b][k].copies \in Nat
    <3> TAKE k \in DOMAIN Parts[b]
    <3>1. ListPrice[Parts[b][k].title] \in Nat /\ Parts[b][k].copies \in Nat
          BY <1>3, QuoteAssumption
    <3> QED BY <3>1
  <2> QED BY <1>2, <2>1
<1>5. Revenues(b, net) = Allocate(net, weight)
      BY DEF Revenues
<1>6. IsFiniteSet(1..n) /\ 1..n \subseteq Nat
      BY <1>2, FS_Interval
<1> HIDE DEF n, weight
<1>7. Allocate(net, weight) \in [1..n -> Nat] /\ FairSplit(Allocate(net, weight), net, weight)
  <2>1. CASE Total(weight) = 0
        BY <1>2, <1>4, <2>1, AllocateFirst
  <2>2. CASE Total(weight) # 0
        BY <1>4, <1>6, <2>2, AllocateFair
  <2> QED BY <2>1, <2>2
<1> QED BY <1>2, <1>3, <1>5, <1>6, <1>7 DEF weight

\* Taxes are whole paisa.
LEMMA LineTaxNat == ASSUME NEW x \in Titles \cup Bundles, NEW net \in Nat PROVE LineTax(x, net) \in Nat
<1>1. \A m \in Nat, t \in Titles : HalfUp(m * TaxRate[t], 100) \in Nat
  <2> TAKE m \in Nat, t \in Titles
  <2>1. TaxRate[t] \in Nat
        BY QuoteAssumption
  <2>2. m * TaxRate[t] \in Nat
        BY <2>1
  <2> QED BY <2>2, HalfUpNat
<1>2. CASE x \in Titles
      BY <1>1, <1>2 DEF LineTax
<1>3. CASE x \notin Titles
  <2> DEFINE tax == [k \in DOMAIN Parts[x] |-> HalfUp(Revenues(x, net)[k] * TaxRate[Parts[x][k].title], 100)]
  <2>1. \A k \in DOMAIN Parts[x] : Revenues(x, net)[k] \in Nat /\ Parts[x][k].title \in Titles
        BY <1>3, RevenuesSpread
  <2>2. NatsOn(tax, DOMAIN Parts[x]) /\ IsFiniteSet(DOMAIN Parts[x]) /\ DOMAIN tax = DOMAIN Parts[x]
        BY <1>1, <1>3, <2>1, RevenuesSpread DEF NatsOn
  <2>3. LineTax(x, net) = Total(tax)
        BY <1>3 DEF LineTax
  <2> HIDE DEF tax
  <2> QED BY <2>2, <2>3, SumNat DEF Total
<1> QED BY <1>2, <1>3

\* The total is the sum of the lines' totals and the delivery.
LEMMA TotalsAdd ==
    ASSUME NEW q \in QuoteInputs
    PROVE  GrandTotal(q) = Total(LineTotals(q)) + ShippingFee(q)
<1> DEFINE D == DOMAIN q.lines
           gross == Gross(q)
           less == LineDiscounts(q)
           net == Net(q)
           tax == [i \in D |-> LineTax(q.lines[i].item, Net(q)[i])]
           totals == LineTotals(q)
<1>1. IsFiniteSet(D) /\ gross \in [D -> Nat] /\ less \in [D -> Nat] /\ net \in [D -> Nat]
      BY BasketTypes, DiscountSpread, NetNat
<1>2. \A i \in D : tax[i] \in Nat
      BY BasketTypes, NetNat, LineTaxNat
<1>3. DOMAIN tax = D /\ DOMAIN totals = D /\ \A i \in D : totals[i] = net[i] + tax[i]
      BY DEF LineTotals
<1>4. \A i \in D : gross[i] = net[i] + less[i]
  <2> TAKE i \in D
  <2>1. net[i] = gross[i] - less[i] /\ gross[i] \in Nat /\ less[i] \in Nat
        BY <1>1, NetNat
  <2> QED BY <2>1
<1>5. ShippingFee(q) \in Nat
  <2>1. q.zoneFee \subseteq Nat
        BY QuoteAssumption
  <2> QED BY <2>1, MinNat DEF ShippingFee
<1>6. GrandTotal(q) = Total(gross) - Total(less) + ShippingFee(q) + Total(tax)
      BY DEF GrandTotal
<1> HIDE DEF D, gross, less, net, tax, totals
<1>7. IntsOn(gross, D) /\ IntsOn(less, D) /\ IntsOn(net, D) /\ IntsOn(tax, D)
      BY <1>1, <1>2 DEF IntsOn
<1>8. Added(totals, net, tax, D) /\ Added(gross, net, less, D)
      BY <1>3, <1>4 DEF Added
<1>9. SumOf(totals, D) = SumOf(net, D) + SumOf(tax, D) /\ SumOf(gross, D) = SumOf(net, D) + SumOf(less, D)
      BY <1>1, <1>7, <1>8, SumAdded
<1>10. SumOf(net, D) \in Int /\ SumOf(tax, D) \in Int /\ SumOf(less, D) \in Int
      BY <1>1, <1>7, SumType
<1>11. Total(gross) = SumOf(gross, D) /\ Total(less) = SumOf(less, D) /\ Total(tax) = SumOf(tax, D)
       /\ Total(totals) = SumOf(totals, D)
      BY <1>1, <1>3 DEF Total
<1>12. GrandTotal(q) = Total(totals) + ShippingFee(q)
      BY <1>5, <1>6, <1>9, <1>10, <1>11
<1> QED BY <1>12 DEF totals

\* "The parts add up exactly" (money.ts:44) and "totals are sums of line amounts"
\* (quote-calculator.ts:116-118), for every basket of titles and bundles, every coupon,
\* price, tax rate and delivery rule: the lines bear all of the discount and the total,
\* a bundle's books all of its revenue, each its fair share to the paisa.
THEOREM QuoteAddsUpCorrect == quoted \subseteq QuoteInputs => QuoteAddsUp
<1> SUFFICES ASSUME quoted \subseteq QuoteInputs, NEW q \in quoted
             PROVE
      /\ CouponDiscount(q) > 0 => FairSplit(LineDiscounts(q), CouponDiscount(q), Eligible(q))
      /\ \A i \in DOMAIN q.lines : LineDiscounts(q)[i] \in 0..Eligible(q)[i]
      /\ \A i \in DOMAIN q.lines :
           LET b == q.lines[i].item IN
             b \in Bundles =>
               FairSplit(Revenues(b, Net(q)[i]), Net(q)[i],
                         [k \in DOMAIN Parts[b] |-> ListPrice[Parts[b][k].title] * Parts[b][k].copies])
      /\ GrandTotal(q) = Total(LineTotals(q)) + ShippingFee(q)
    BY DEF QuoteAddsUp
<1>1. q \in QuoteInputs
      OBVIOUS
<1>2. \A i \in DOMAIN q.lines : LineDiscounts(q)[i] \in 0..Eligible(q)[i]
  <2> TAKE i \in DOMAIN q.lines
  <2>1. LineDiscounts(q)[i] \in Nat /\ Eligible(q)[i] \in Nat /\ LineDiscounts(q)[i] <= Eligible(q)[i]
        BY <1>1, BasketTypes, DiscountSpread
  <2> QED BY <2>1
<1>3. \A i \in DOMAIN q.lines :
         LET b == q.lines[i].item IN
           b \in Bundles =>
             FairSplit(Revenues(b, Net(q)[i]), Net(q)[i],
                       [k \in DOMAIN Parts[b] |-> ListPrice[Parts[b][k].title] * Parts[b][k].copies])
      BY <1>1, NetNat, RevenuesSpread
<1> QED BY <1>1, <1>2, <1>3, DiscountSpread, TotalsAdd

=============================================================================
