--------------------------- MODULE MCAuthSessions ---------------------------
(***************************************************************************)
(* Small instances of AuthSessions for TLC.                                *)
(***************************************************************************)
EXTENDS AuthSessions, TLC

\* The operations that give the account its next session version.
Bumping == Writers

\* Bound: where two calls have been saving one account at one time, the
\* properties of sessions say nothing of it any more; what is left to watch is a
\* token that no two recoveries came with, beside calls that save the account.
Watched ==
    \/ Users \cap overlapped = {}
    \/ /\ ~(Tokens \subseteq raced)
       /\ \A c \in Calls : Running(c) => calls[c].op \in Writers

Interchangeable ==
    Permutations(Calls) \cup Permutations(SessionIds)
=============================================================================
