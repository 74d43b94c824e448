---------------------------- MODULE MCPersistence ----------------------------
EXTENDS Persistence, TLC

CONSTANTS sales, costs, jan, feb, w1, w2, s1, s2

MCCubes   == {sales, costs}
MCMembers == {jan, feb}

(* A single cell in each cube.                                             *)
MCBatches == (w1 :> [cube |-> sales, members |-> <<jan>>]) @@
             (w2 :> [cube |-> costs, members |-> <<feb>>])

TwoSavers == {s1, s2}
Interchangeable == Permutations(TwoSavers)
===============================================================================
