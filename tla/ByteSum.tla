------------------------------ MODULE ByteSum -------------------------------
(***************************************************************************)
(* The sum of the sizes of some records.  It is written as the size of a   *)
(* set of cells, one for each byte, so that the theorems about finite sets *)
(* apply to it.                                                            *)
(***************************************************************************)
EXTENDS Integers, FiniteSets

Cells(t, V) == UNION {{i} \X (1 .. t[i].size) : i \in V}

\* SUM(size_bytes) of the rows V of t.
Bytes(t, V) == Cardinality(Cells(t, V))
=============================================================================
