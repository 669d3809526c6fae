--------------------------- MODULE ReconcilerLock ---------------------------
(***************************************************************************)
(* The advisory lock around the payment reconciler's cron job.             *)
(*                                                                         *)
(* pg_try_advisory_lock is taken and given back by two separate queries    *)
(* outside any transaction.  A session-level lock belongs to the connection*)
(* that took it, which may take it again, and each query runs on whichever *)
(* pooled connection is free.  The scheduler starts a run every ten minutes*)
(* whether or not the last one has ended.  A replica that stops closes its *)
(* connections.                                                            *)
(* Abstracted: what a run does between the two queries (OnlineCheckout).   *)
(***************************************************************************)
EXTENDS Naturals, FiniteSets

CONSTANTS
    Replicas,
    Connections,   \* a replica's pool
    Runs,          \* a replica's cron runs at the same time
    MaxHeld,       \* bound: times a connection holds the lock
    Nobody

ASSUME LockAssumption == MaxHeld \in Nat /\ Nobody \notin Replicas \X Connections

VARIABLES
    owner,    \* connection holding the lock
    held,     \* how many times it does
    run       \* where each cron run of each replica is

lockVars == <<owner, held, run>>

LockInit ==
    /\ owner = Nobody
    /\ held = 0
    /\ run = [r \in Replicas \X Runs |-> "idle"]

-----------------------------------------------------------------------------
Obtainable(conn) == owner \in {Nobody, conn}

\* pg_try_advisory_lock on a connection of the pool; a run that is refused returns.
Start(r, conn) ==
    /\ run[r] = "idle"
    /\ Obtainable(conn)
    /\ held < MaxHeld
    /\ owner' = conn
    /\ held' = held + 1
    /\ run' = [run EXCEPT ![r] = "running"]

\* Variant: unlocking frees the lock entirely.
FinishFreeing(r, conn) ==
    /\ run[r] = "running"
    /\ run' = [run EXCEPT ![r] = "idle"]
    /\ IF owner = conn THEN owner' = Nobody /\ held' = 0 ELSE UNCHANGED <<owner, held>>

\* pg_advisory_unlock on a connection of the pool; on one that does not hold the
\* lock it only warns.
Finish(r, conn) ==
    /\ run[r] = "running"
    /\ run' = [run EXCEPT ![r] = "idle"]
    /\ IF owner = conn
       THEN /\ held' = held - 1
            /\ owner' = IF held = 1 THEN Nobody ELSE owner
       ELSE UNCHANGED <<owner, held>>

Stop(replica) ==
    /\ run' = [r \in Replicas \X Runs |-> IF r[1] = replica THEN "idle" ELSE run[r]]
    /\ IF owner # Nobody /\ owner[1] = replica
       THEN owner' = Nobody /\ held' = 0
       ELSE UNCHANGED <<owner, held>>

LockNext ==
    \E replica \in Replicas :
        \/ Stop(replica)
        \/ \E n \in Runs, c \in Connections :
             Start(<<replica, n>>, <<replica, c>>) \/ Finish(<<replica, n>>, <<replica, c>>)

LockSpec == LockInit /\ [][LockNext]_lockVars

-----------------------------------------------------------------------------
Running(replica) == {n \in Runs : run[<<replica, n>>] = "running"}

\* "Keeps multiple API replicas from doing it twice" (payment-reconciler.service.ts:12):
\* runs under way are those of one replica, however its connections are drawn.
OneReplicaRuns ==
    \A a, b \in Replicas : Running(a) # {} /\ Running(b) # {} => a = b

\* The job runs "every 10 minutes" (payment-reconciler.service.ts:10): the lock
\* turns a run away only while another is under way.
LockMeansRunning == owner # Nobody => \E replica \in Replicas : Running(replica) # {}
=============================================================================
