---------------------------- MODULE MCSparseStore ----------------------------
EXTENDS SparseStore, TLC

(* One id on the first axis, any on the second, both on the third.         *)
MCFilters == {<<{x}, All, Ids>> : x \in Ids}
Symmetry == Permutations(Values) \cup Permutations(Ids)
==============================================================================
