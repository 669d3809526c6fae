------------------------------- MODULE Outbox -------------------------------
(***************************************************************************)
(* The notification outbox: rows written with the business change, one     *)
(* worker per replica that claims due rows in batches, sends them through  *)
(* a provider and records the outcome, and staff who cancel or retry rows. *)
(*                                                                         *)
(* A claim is one statement (FOR UPDATE SKIP LOCKED) and sets a lease; a   *)
(* row is due again when its lease or its backoff is over.  The lease is   *)
(* ten minutes and a stalled process may outlive it, so a lease may end    *)
(* here at any time.                                                       *)
(* Abstracted: channels, templates, texts; the delays themselves.          *)
(***************************************************************************)
EXTENDS Naturals, FiniteSets

CONSTANTS
    Messages,      \* rows, one per dedupe key
    Workers,
    Staff,         \* requests in the ops view at the same time
    Batch,
    MaxAttempts,   \* OUTBOX_POLICY.maxAttempts
    MaxCrashes,    \* bound
    MaxRetries     \* bound: retries asked for by staff

ASSUME PolicyAssumption ==
    /\ {Batch, MaxAttempts} \subseteq Nat \ {0}
    /\ {MaxCrashes, MaxRetries} \subseteq Nat

VARIABLES
    row,        \* notification_outbox
    claimed,    \* per worker: the claimed rows and how their sending went
    staff,      \* per request: the row whose retry was allowed
    delivered,  \* messages that reached the customer (history)
    crashes,
    retries,
    twice       \* messages of which two retries were allowed at once (history)

outboxVars == <<row, claimed, staff, delivered, crashes, retries, twice>>

-----------------------------------------------------------------------------
Status == {"none", "PENDING", "SENDING", "SENT", "FAILED", "CANCELLED"}
NotMine == [attempt |-> 0, result |-> "none"]
Results == {"claimed", "ok", "retryable", "permanent"}
Nowhere == "nowhere"

\* A transaction adds the row; the key of a message already there adds nothing.
Enqueue(m) ==
    /\ row[m].status = "none"
    /\ row' = [row EXCEPT ![m] = [status |-> "PENDING", attempts |-> 0, due |-> TRUE]]
    /\ UNCHANGED <<claimed, staff, delivered, crashes, retries, twice>>

ComesDue(m) ==
    /\ row[m].status \in {"PENDING", "SENDING"} /\ ~row[m].due
    /\ row' = [row EXCEPT ![m].due = TRUE]
    /\ UNCHANGED <<claimed, staff, delivered, crashes, retries, twice>>

Busy(w) == \E m \in Messages : claimed[w][m] # NotMine

\* Variant: only PENDING rows are claimed.
ClaimablePendingOnly == {m \in Messages : row[m].status = "PENDING" /\ row[m].due}

\* A row that waits, or whose lease is over.
Claimable == {m \in Messages : row[m].status \in {"PENDING", "SENDING"} /\ row[m].due}

\* No overlap inside one process; LIMIT rows at most.
Claim(w) ==
    /\ ~Busy(w)
    /\ \E S \in SUBSET Claimable :
         /\ S # {} /\ Cardinality(S) <= Batch
         /\ S # Claimable => Cardinality(S) = Batch
         /\ row' = [m \in Messages |->
                      IF m \in S THEN [status |-> "SENDING", attempts |-> row[m].attempts + 1, due |-> FALSE]
                      ELSE row[m]]
         /\ claimed' = [claimed EXCEPT ![w] =
                          [m \in Messages |->
                             IF m \in S THEN [attempt |-> row[m].attempts + 1, result |-> "claimed"] ELSE NotMine]]
    /\ UNCHANGED <<staff, delivered, crashes, retries, twice>>

\* The provider is called; a timeout may hide a message that went out.
Send(w, m) ==
    /\ claimed[w][m].result = "claimed"
    /\ \E result \in {"ok", "retryable", "permanent"} :
         /\ claimed' = [claimed EXCEPT ![w][m].result = result]
         /\ \/ result # "permanent" /\ delivered' = delivered \cup {m}
            \/ result # "ok" /\ UNCHANGED delivered
    /\ UNCHANGED <<row, staff, crashes, retries, twice>>

AfterFailure(attempt, result) ==
    IF result = "permanent" \/ attempt >= MaxAttempts THEN "FAILED" ELSE "PENDING"

Outcome(c) == IF c.result = "ok" THEN "SENT" ELSE AfterFailure(c.attempt, c.result)

\* Variant: UPDATE ... WHERE id.
RecordAnyway(w, m) ==
    /\ claimed[w][m].result \in Results \ {"claimed"}
    /\ row' = [row EXCEPT ![m].status = Outcome(claimed[w][m]), ![m].due = FALSE]
    /\ claimed' = [claimed EXCEPT ![w][m] = NotMine]
    /\ UNCHANGED <<staff, delivered, crashes, retries, twice>>

\* UPDATE ... WHERE status = SENDING, the next attempt in the future.
Record(w, m) ==
    /\ claimed[w][m].result \in Results \ {"claimed"}
    /\ row' = IF row[m].status = "SENDING"
              THEN [row EXCEPT ![m].status = Outcome(claimed[w][m]), ![m].due = FALSE]
              ELSE row
    /\ claimed' = [claimed EXCEPT ![w][m] = NotMine]
    /\ UNCHANGED <<staff, delivered, crashes, retries, twice>>

\* Recording SENT fails: the message counts as a failure and goes out again.
RecordLost(w, m) ==
    /\ claimed[w][m].result = "ok"
    /\ claimed' = [claimed EXCEPT ![w][m].result = "retryable"]
    /\ UNCHANGED <<row, staff, delivered, crashes, retries, twice>>

Crash(w) ==
    /\ crashes < MaxCrashes
    /\ Busy(w)
    /\ crashes' = crashes + 1
    /\ claimed' = [claimed EXCEPT ![w] = [m \in Messages |-> NotMine]]
    /\ UNCHANGED <<row, staff, delivered, retries, twice>>

-----------------------------------------------------------------------------
(* The ops view.                                                           *)

ReadForRetry(s, m) ==
    /\ staff[s] = Nowhere
    /\ row[m].status \in {"FAILED", "CANCELLED"}
    /\ retries < MaxRetries
    /\ retries' = retries + 1
    /\ staff' = [staff EXCEPT ![s] = m]
    /\ twice' = IF \E other \in Staff : staff[other] = m THEN twice \cup {m} ELSE twice
    /\ UNCHANGED <<row, claimed, delivered, crashes>>

\* The update names the row only, whatever it has become since the check.
WriteRetry(s) ==
    /\ staff[s] # Nowhere
    /\ row' = [row EXCEPT ![staff[s]] = [status |-> "PENDING", attempts |-> 0, due |-> TRUE]]
    /\ staff' = [staff EXCEPT ![s] = Nowhere]
    /\ UNCHANGED <<claimed, delivered, crashes, retries, twice>>

Cancel(m) ==
    /\ row[m].status = "PENDING"
    /\ row' = [row EXCEPT ![m].status = "CANCELLED"]
    /\ UNCHANGED <<claimed, staff, delivered, crashes, retries, twice>>

-----------------------------------------------------------------------------
OutboxInit ==
    /\ row = [m \in Messages |-> [status |-> "none", attempts |-> 0, due |-> FALSE]]
    /\ claimed = [w \in Workers |-> [m \in Messages |-> NotMine]]
    /\ staff = [s \in Staff |-> Nowhere]
    /\ delivered = {}
    /\ crashes = 0
    /\ retries = 0
    /\ twice = {}

OutboxNext ==
    \/ \E m \in Messages : Enqueue(m) \/ ComesDue(m) \/ Cancel(m)
    \/ \E w \in Workers :
         \/ Claim(w) \/ Crash(w)
         \/ \E m \in Messages : Send(w, m) \/ Record(w, m) \/ RecordLost(w, m)
    \/ \E s \in Staff : WriteRetry(s) \/ \E m \in Messages : ReadForRetry(s, m)

\* The cron job fires, a batch goes on to its end, delays end.
OutboxFairness ==
    /\ \A m \in Messages : WF_outboxVars(ComesDue(m))
    /\ \A w \in Workers :
         /\ WF_outboxVars(Claim(w))
         /\ \A m \in Messages : WF_outboxVars(Send(w, m)) /\ WF_outboxVars(Record(w, m))
    /\ \A s \in Staff : WF_outboxVars(WriteRetry(s))

OutboxSpec == OutboxInit /\ [][OutboxNext]_outboxVars /\ OutboxFairness

-----------------------------------------------------------------------------
OutboxTypeOK ==
    /\ row \in [Messages -> [status : Status, attempts : Nat, due : BOOLEAN]]
    /\ claimed \in [Workers -> [Messages -> {NotMine} \cup [attempt : Nat \ {0}, result : Results]]]
    /\ staff \in [Staff -> Messages \cup {Nowhere}]
    /\ delivered \subseteq Messages /\ twice \subseteq Messages

\* Whatever stale worker still reports, a message on record SENT has reached the
\* provider, and no worker and no single retry queues it again once its text is
\* scrubbed.  The exception is two retries of one message allowed at once
\* (outbox-admin.service.ts:36-39): the later one's update does not look at the status.
SentForGood ==
    [][\A m \in Messages : /\ row[m].status = "SENT" /\ m \notin twice => row'[m].status = "SENT"
                           /\ row'[m].status = "SENT" => m \in delivered']_outboxVars

\* Only failed and cancelled messages may be sent again (outbox-admin.service.ts:38).
SentStays ==
    [][\A m \in Messages : row[m].status = "SENT" => row'[m].status = "SENT"]_outboxVars

\* "Order saved => SMS eventually sent" (outbox.service.ts:18), up to a permanent
\* failure or a cancellation: crashes and lost leases strand no message.
MessagesSettle ==
    \A m \in Messages :
        row[m].status \in {"PENDING", "SENDING"} ~> row[m].status \in {"SENT", "FAILED", "CANCELLED"}

\* "After MAX_ATTEMPTS the row is FAILED for good" (backoff.ts:4): no row is
\* claimed for more attempts than the policy has.
AttemptsBounded == \A m \in Messages : row[m].attempts <= MaxAttempts
=============================================================================
