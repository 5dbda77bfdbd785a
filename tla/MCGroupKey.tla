----------------------------- MODULE MCGroupKey -----------------------------
(* TLC instances of GroupKey: two interchangeable stations. *)
EXTENDS GroupKey, TLC

CONSTANTS s1, s2

MCSTA == {s1, s2}
MCSymmetry == Permutations(MCSTA)
=============================================================================
