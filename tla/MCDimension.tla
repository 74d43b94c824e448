---------------------------- MODULE MCDimension ----------------------------
EXTENDS Dimension, TLC

CONSTANTS a, b, c, time, fiscal, none

(* With MaxSize = 4: three names in the hierarchy the dimension is born    *)
(* with, or two names in two hierarchies.                                  *)
MCNames  == {a, b, c}
MCOthers == {fiscal}
Interchangeable == Permutations(MCNames)
=============================================================================
