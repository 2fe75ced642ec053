----------------------------- MODULE MCProductAi -----------------------------
(***************************************************************************)
(* A small instance of ProductAi for TLC: one run, as runs share nothing   *)
(* but the table they append to, under the ends of the range of the repair *)
(* cap, the values next to them, and the default.                          *)
(***************************************************************************)
EXTENDS ProductAi

CapsTried == {-1, 0, 2, 5, 6} \cup {None}
=============================================================================
