------------------------------ MODULE MCTenure ------------------------------
(* Tenure for TLC: a drain d1 of a group of two tables, the bootstrap load c1 *)
(* that runs within it, and a replace s1 of one of the tables.                *)
EXTENDS Tenure, TLC

CONSTANTS d1, c1, s1, t1, t2

ThreeRuns == {d1, c1, s1}
OneDrain == (d1 :> "Cdc") @@ (c1 :> "Swap") @@ (s1 :> "Swap")
GroupOfTwo == (d1 :> {t1, t2}) @@ (c1 :> {t1}) @@ (s1 :> {t1})
Bootstrap == (d1 :> NoRun) @@ (c1 :> d1) @@ (s1 :> NoRun)
OneSource == [r \in Runs |-> 1]
=============================================================================
