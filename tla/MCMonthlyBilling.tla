-------------------------- MODULE MCMonthlyBilling --------------------------
(* Small instances of MonthlyBilling for TLC. *)
EXTENDS MonthlyBilling, TLC

CONSTANTS r1, r2

\* Requests are interchangeable.
Symmetry == Permutations(Request)
=============================================================================
