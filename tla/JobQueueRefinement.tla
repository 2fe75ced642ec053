------------------------- MODULE JobQueueRefinement -------------------------
(***************************************************************************)
(* JobQueue implements JobPool: queued and retry_wait are both waiting,    *)
(* and a job is charged from the moment its row succeeds, although the     *)
(* facade commits the quota in a later continuation.                       *)
(***************************************************************************)
EXTENDS JobQueue

PhaseOf(status) ==
    CASE status = "absent"                   -> "unknown"
      [] status \in {"queued", "retry_wait"} -> "waiting"
      [] status = "running"                  -> "held"
      [] OTHER                               -> status

Pool == INSTANCE JobPool WITH
    Jobs    <- JobIds,
    Holders <- Claimants,
    Nobody  <- None,
    phase   <- [j \in JobIds |-> PhaseOf(jobs[j].status)],
    holder  <- workers,
    charges <- [j \in JobIds |-> ledger[j].committed
                                   + Cardinality(Pending("success.stored", j))]

\* Every step of the queue is a step of the pool or leaves the pool alone: a
\* job passes from worker to worker only through the queue, ends at most once
\* and is charged exactly when it succeeds, whatever the interleaving.
ImplementsPool == Pool!PoolSpec
=============================================================================
