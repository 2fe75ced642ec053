------------------------------ MODULE JobPool ------------------------------
(***************************************************************************)
(* What the job queue promises, without its leases, retries, continuations *)
(* and bookkeeping: a pool of jobs, each held by at most one worker, and   *)
(* charged in the very step in which it succeeds.                          *)
(***************************************************************************)
EXTENDS Integers

CONSTANTS Jobs, Holders, Nobody

VARIABLES phase, holder, charges

poolVars == <<phase, holder, charges>>

Phases == {"unknown", "waiting", "held", "succeeded", "failed", "cancelled"}

\* Type invariant of the pool.
PoolTypeOK ==
    /\ phase \in [Jobs -> Phases]
    /\ holder \in [Jobs -> Holders \cup {Nobody}]
    /\ charges \in [Jobs -> Nat]

PoolInit ==
    /\ phase = [j \in Jobs |-> "unknown"]
    /\ holder = [j \in Jobs |-> Nobody]
    /\ charges = [j \in Jobs |-> 0]

Admit(j) ==
    /\ phase[j] = "unknown"
    /\ phase' = [phase EXCEPT ![j] = "waiting"]
    /\ UNCHANGED <<holder, charges>>

Take(j, w) ==
    /\ phase[j] = "waiting"
    /\ phase' = [phase EXCEPT ![j] = "held"]
    /\ holder' = [holder EXCEPT ![j] = w]
    /\ UNCHANGED charges

\* The holders of some jobs lose them, by retry or by reaping.
GiveBack(S) ==
    /\ \A j \in S : phase[j] = "held"
    /\ phase' = [j \in Jobs |-> IF j \in S THEN "waiting" ELSE phase[j]]
    /\ holder' = [j \in Jobs |-> IF j \in S THEN Nobody ELSE holder[j]]
    /\ UNCHANGED charges

Leave(j, outcome) ==
    /\ phase' = [phase EXCEPT ![j] = outcome]
    /\ holder' = [holder EXCEPT ![j] = Nobody]

Succeed(j) ==
    /\ phase[j] = "held"
    /\ Leave(j, "succeeded")
    /\ charges' = [charges EXCEPT ![j] = @ + 1]

Fail(j) ==
    /\ phase[j] = "held"
    /\ Leave(j, "failed")
    /\ UNCHANGED charges

Cancel(j) ==
    /\ phase[j] \in {"waiting", "held"}
    /\ Leave(j, "cancelled")
    /\ UNCHANGED charges

Reopen(j) ==
    /\ phase[j] = "failed"
    /\ phase' = [phase EXCEPT ![j] = "waiting"]
    /\ UNCHANGED <<holder, charges>>

PoolNext ==
    \/ \E j \in Jobs : \/ Admit(j)
                       \/ \E w \in Holders : Take(j, w)
                       \/ Succeed(j) \/ Fail(j) \/ Cancel(j) \/ Reopen(j)
    \/ \E S \in SUBSET Jobs : GiveBack(S)

PoolSpec == PoolInit /\ [][PoolNext]_poolVars
=============================================================================
