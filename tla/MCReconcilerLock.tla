-------------------------- MODULE MCReconcilerLock --------------------------
(* Two replicas, each with a pool and overlapping runs. *)
EXTENDS ReconcilerLock, TLC

CONSTANTS x1, x2, c1, c2, n1, n2, n3

MCReplicas    == {x1, x2}
MCConnections == {c1, c2}
MCRuns        == {n1, n2, n3}
=============================================================================
