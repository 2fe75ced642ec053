----------------------------- MODULE MCJobQueue -----------------------------
(***************************************************************************)
(* Small instances of JobQueue for TLC.                                    *)
(***************************************************************************)
EXTENDS JobQueueRefinement, TLC

\* The methods a worker process, its reaper and the HTTP routes call.
WorkerCalls == {"submit", "claim", "workOnce", "completeClaim", "heartbeat",
                "reapExpiredLeases", "requestCancel"}

AllCalls == WorkerCalls \cup
            {"failNextJobRetryable", "failNextJobTerminal", "releaseRetryWait",
             "manualRecover"}

\* Enough for the disagreement with the documents.
SubmitCalls == {"submit"}

\* Workers are interchangeable in every safety property.
WorkerSymmetry == Permutations(Workers)
=============================================================================
