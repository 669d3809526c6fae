-------------------------- MODULE PlacementRequests --------------------------
(***************************************************************************)
(* POST /orders as its callers see it: repeated submissions under one      *)
(* Idempotency-Key, the key row, the order counter, and the retries of the *)
(* SERIALIZABLE transaction that writes them together.                     *)
(*                                                                         *)
(* A transaction is cut where it waits or fails: it takes its snapshot,    *)
(* inserts the key (waiting for whoever inserted it first), updates the    *)
(* counter row (waiting for whoever holds it), writes the rest and         *)
(* commits.  A row changed since the snapshot ends it with P2034, and      *)
(* withRetry starts it again.  A key already there ends it with P2002, or  *)
(* with P2034 if the key came after the snapshot.                          *)
(* Abstracted: prices, address, SMS, cart; a body stands for the hash of   *)
(* scope, caller and body.  The desk's side of an order is OrderDesk!Place.*)
(***************************************************************************)
EXTENDS Naturals, FiniteSets

CONSTANTS
    Keys,          \* one per checkout page
    Bodies,
    Submissions,   \* requests sent in all, numbered in the order they are sent
    Attempts,      \* of withRetry
    MaxExpiries,   \* bound: keys older than a day
    MaxChanges     \* bound: commits elsewhere on rows a placement writes

ASSUME PlacementAssumption ==
    /\ Attempts \in Nat \ {0}
    /\ Submissions \subseteq Nat
    /\ {MaxExpiries, MaxChanges} \subseteq Nat

VARIABLES
    keyRow,      \* idempotency_keys
    placed,      \* committed orders
    nextNo,      \* document_counters, as committed
    request,
    told,        \* pages that were told their order
    expiries,    \* per key
    changes

placementVars == <<keyRow, placed, nextNo, request, told, expiries, changes>>

-----------------------------------------------------------------------------
NoKey == [no |-> 0, body |-> "none"]
Unsent == [key |-> "none", body |-> "none", at |-> "unsent", try |-> 0,
           sawNo |-> 0, sawChanges |-> 0, no |-> 0]

\* Rows in an open transaction: the key it inserted, the counter it updated.
Claimants(k) == {r \in Submissions : request[r].key = k /\ request[r].at \in {"number", "write"}}
CounterHolders == {r \in Submissions : request[r].at = "write"}
InTransaction(r) == request[r].at \in {"claim", "number", "write"}

Moved(r, at) == request' = [request EXCEPT ![r].at = at]
RolledBack(r, at) ==
    request' = [request EXCEPT ![r] = [@ EXCEPT !.at = at, !.no = 0, !.sawNo = 0, !.sawChanges = 0]]

\* The page keeps its key until it is told of an order.
Submit(r, k, b) ==
    /\ request[r].at = "unsent" /\ k \notin told
    /\ \A earlier \in 1..(r - 1) : request[earlier].at # "unsent"
    /\ request' = [request EXCEPT ![r] = [Unsent EXCEPT !.key = k, !.body = b, !.at = "lookup"]]
    /\ UNCHANGED <<keyRow, placed, nextNo, told, expiries, changes>>

\* Variant: the stored body is not compared.
LookupAnyBody(r) ==
    /\ request[r].at \in {"lookup", "collided"}
    /\ LET row == keyRow[request[r].key] IN
         IF row = NoKey
         THEN Moved(r, IF request[r].at = "lookup" THEN "begin" ELSE "failed")
         ELSE request' = [request EXCEPT ![r].at = "answered", ![r].no = row.no]
    /\ UNCHANGED <<keyRow, placed, nextNo, told, expiries, changes>>

\* An expired row counts as none; another body under the key is refused (422).
Lookup(r) ==
    /\ request[r].at \in {"lookup", "collided"}
    /\ LET row == keyRow[request[r].key] IN
         IF row = NoKey
         THEN Moved(r, IF request[r].at = "lookup" THEN "begin" ELSE "failed")
         ELSE IF row.body # request[r].body THEN Moved(r, "failed")
         ELSE request' = [request EXCEPT ![r].at = "answered", ![r].no = row.no]
    /\ UNCHANGED <<keyRow, placed, nextNo, told, expiries, changes>>

Begin(r) ==
    /\ request[r].at = "begin"
    /\ request' = [request EXCEPT ![r].at = "claim", ![r].try = @ + 1,
                                  ![r].sawNo = nextNo, ![r].sawChanges = changes]
    /\ UNCHANGED <<keyRow, placed, nextNo, told, expiries, changes>>

\* P2034: the transaction is tried again, up to Attempts times.
Conflict(r) == RolledBack(r, IF request[r].try < Attempts THEN "begin" ELSE "gave up")

\* Variant: whatever row the key has is deleted.
ClaimKeyAnyway(r) ==
    /\ request[r].at = "claim"
    /\ Claimants(request[r].key) = {}
    /\ Moved(r, "number")
    /\ UNCHANGED <<keyRow, placed, nextNo, told, expiries, changes>>

\* Variant: a key that is taken is waited for.
ClaimKeyPatiently(r) ==
    /\ request[r].at = "claim"
    /\ Claimants(request[r].key) = {}
    /\ keyRow[request[r].key] = NoKey
    /\ Moved(r, "number")
    /\ UNCHANGED <<keyRow, placed, nextNo, told, expiries, changes>>

\* DELETE of an expired row and INSERT, which waits for an open one.
ClaimKey(r) ==
    /\ request[r].at = "claim"
    /\ Claimants(request[r].key) = {}
    /\ LET row == keyRow[request[r].key] IN
         \/ row = NoKey /\ Moved(r, "number")
         \/ row # NoKey /\ RolledBack(r, "collided")
         \/ row # NoKey /\ row.no >= request[r].sawNo /\ Conflict(r)
    /\ UNCHANGED <<keyRow, placed, nextNo, told, expiries, changes>>

\* Variant: the number is taken outside the transaction.
TakeNumberForGood(r) ==
    /\ request[r].at = "number"
    /\ CounterHolders = {}
    /\ request' = [request EXCEPT ![r].at = "write", ![r].no = nextNo]
    /\ nextNo' = nextNo + 1
    /\ UNCHANGED <<keyRow, placed, told, expiries, changes>>

TakeNumber(r) ==
    /\ request[r].at = "number"
    /\ CounterHolders = {}
    /\ IF request[r].sawNo = nextNo
       THEN request' = [request EXCEPT ![r].at = "write", ![r].no = nextNo]
       ELSE Conflict(r)
    /\ UNCHANGED <<keyRow, placed, nextNo, told, expiries, changes>>

\* A product, coupon or customer row was changed by someone else.
WriteConflict(r) ==
    /\ InTransaction(r) /\ request[r].sawChanges < changes
    /\ Conflict(r)
    /\ UNCHANGED <<keyRow, placed, nextNo, told, expiries, changes>>

Commit(r) ==
    /\ request[r].at = "write"
    /\ LET q == request[r] IN
         /\ placed' = placed \cup {[no |-> q.no, key |-> q.key, body |-> q.body]}
         /\ keyRow' = [keyRow EXCEPT ![q.key] = [no |-> q.no, body |-> q.body]]
         /\ nextNo' = q.no + 1
         /\ request' = [request EXCEPT ![r] = [q EXCEPT !.at = "answered", !.sawNo = 0, !.sawChanges = 0]]
    /\ UNCHANGED <<told, expiries, changes>>

\* Out of stock, a rejected coupon, a timeout, a process that dies.
Refuse(r) ==
    /\ InTransaction(r)
    /\ RolledBack(r, "failed")
    /\ UNCHANGED <<keyRow, placed, nextNo, told, expiries, changes>>

\* The answer arrives, and the page renews its key on success, or is lost.
Deliver(r) ==
    /\ request[r].at \in {"answered", "failed", "gave up"}
    /\ request' = [request EXCEPT ![r] = [Unsent EXCEPT !.at = "done"]]
    /\ told' \in {told, IF request[r].at = "answered" THEN told \cup {request[r].key} ELSE told}
    /\ UNCHANGED <<keyRow, placed, nextNo, expiries, changes>>

\* A day is longer than any transaction.
Expire(k) ==
    /\ expiries[k] < MaxExpiries
    /\ keyRow[k] # NoKey
    /\ \A r \in Submissions : request[r].key = k => ~InTransaction(r)
    /\ keyRow' = [keyRow EXCEPT ![k] = NoKey]
    /\ expiries' = [expiries EXCEPT ![k] = @ + 1]
    /\ UNCHANGED <<placed, nextNo, request, told, changes>>

ChangeElsewhere ==
    /\ changes < MaxChanges
    /\ changes' = changes + 1
    /\ UNCHANGED <<keyRow, placed, nextNo, request, told, expiries>>

-----------------------------------------------------------------------------
PlacementInit ==
    /\ keyRow = [k \in Keys |-> NoKey]
    /\ placed = {}
    /\ nextNo = 1
    /\ request = [r \in Submissions |-> Unsent]
    /\ told = {}
    /\ expiries = [k \in Keys |-> 0]
    /\ changes = 0

Proceed(r) ==
    \/ Lookup(r) \/ Begin(r) \/ ClaimKey(r) \/ TakeNumber(r)
    \/ WriteConflict(r) \/ Commit(r) \/ Deliver(r)

PlacementNext ==
    \/ \E r \in Submissions : Proceed(r) \/ Refuse(r) \/ \E k \in Keys, b \in Bodies : Submit(r, k, b)
    \/ \E k \in Keys : Expire(k)
    \/ ChangeElsewhere

\* The server goes on with what it received; no timeout is counted on.
PlacementFairness == \A r \in Submissions : WF_placementVars(Proceed(r))

PlacementSpec == PlacementInit /\ [][PlacementNext]_placementVars /\ PlacementFairness

-----------------------------------------------------------------------------
Stages == {"unsent", "lookup", "begin", "claim", "number", "write", "collided",
           "answered", "failed", "gave up", "done"}

PlacementTypeOK ==
    /\ keyRow \in [Keys -> [no : Nat, body : Bodies \cup {"none"}]]
    /\ placed \subseteq [no : Nat, key : Keys, body : Bodies]
    /\ nextNo \in Nat \ {0}
    /\ request \in [Submissions -> [key : Keys \cup {"none"}, body : Bodies \cup {"none"}, at : Stages,
                                    try : 0..Attempts, sawNo : Nat, sawChanges : Nat, no : Nat]]
    /\ told \subseteq Keys

\* "Makes POST /orders safe to retry" (idempotency.service.ts:12): within its day a
\* key places one order, however the submissions under it overlap or fail.
OneOrderPerKey ==
    \A k \in Keys : Cardinality({o \in placed : o.key = k}) <= 1 + expiries[k]

\* "Gapless, race-free human numbers" (document-counter.service.ts:19): a rolled-back
\* placement burns no number, and no two orders share one.
NumbersGapless ==
    /\ {o.no : o \in placed} = 1..(nextNo - 1)
    /\ Cardinality(placed) = nextNo - 1

\* A page is only ever told an order that was placed for its key and its body, also
\* when the answer is a replay.
AnswersOwnOrder ==
    \A r \in Submissions :
        request[r].at = "answered" =>
            [no |-> request[r].no, key |-> request[r].key, body |-> request[r].body] \in placed

\* "A concurrent duplicate waits on the unique index and then reads the committed
\* response" (idempotency.service.ts:14): every submission is answered, no wait on a
\* key or on the counter is for ever.
EverySubmissionAnswered ==
    \A r \in Submissions : request[r].at = "lookup" ~> request[r].at = "done"
=============================================================================
