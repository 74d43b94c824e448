---------------------------- MODULE MCVersionStore ----------------------------
(* VersionStore on two writers, two readers and two cache keys.            *)
EXTENDS VersionStore, TLC

Symmetry == Permutations(Writers) \cup Permutations(Readers) \cup Permutations(Keys)
===============================================================================
