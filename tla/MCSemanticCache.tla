--------------------------- MODULE MCSemanticCache --------------------------
(* Values for TLC: contents of 3, 5 and 11 bytes against a budget of 10 (so *)
(* a target of 8), two goals that rank them in opposite orders.             *)
EXTENDS SemanticCache, TLC, FiniteSetsExt

CONSTANTS i1, i2, i3, small, big, huge, g1, g2

MCSizeOf == [c \in Contents |-> IF c = small THEN 3 ELSE IF c = big THEN 5 ELSE 11]

MCSimilarity ==
  [c \in Contents |-> [g \in Goals |-> IF (c = small) = (g = g1) THEN 90 ELSE 20]]

MCSymmetry == Permutations(Ids)

\* Bytes is the sum of the sizes: the reference definition.
ASSUME BytesIsASum ==
  \A t \in UNION {[S -> [size : 0 .. 3]] : S \in SUBSET (1 .. 3)} :
    \A V \in SUBSET DOMAIN t : Bytes(t, V) = MapThenSumSet(LAMBDA i : t[i].size, V)
=============================================================================
