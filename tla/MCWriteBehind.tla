---------------------------- MODULE MCWriteBehind ---------------------------
(* Values for TLC.  Handlers are interchangeable, and so are the ids when   *)
(* none of them is poison.                                                  *)
EXTENDS WriteBehind, TLC

CONSTANTS i1, i2, w1, w2

MCSymmetry == Permutations(Ids) \cup Permutations(Workers)
=============================================================================
