--------------------------- MODULE MCAuthEnrolment ---------------------------
(***************************************************************************)
(* Small instances of AuthEnrolment for TLC.                               *)
(***************************************************************************)
EXTENDS AuthEnrolment, TLC

EnrolmentSymmetry ==
    Permutations(Calls) \cup Permutations(Tokens) \cup Permutations(Personals)
=============================================================================
