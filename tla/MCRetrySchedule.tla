-------------------------- MODULE MCRetrySchedule --------------------------
(***************************************************************************)
(* RetrySchedule over all small options, with bases below, at and above    *)
(* the cap and caps that no power of two meets.                            *)
(***************************************************************************)
EXTENDS RetrySchedule

SmallBases == 1..5
SmallCaps == {1, 2, 5, 9, 16, 25, 40}
SmallAttemptCaps == 1..6
=============================================================================
