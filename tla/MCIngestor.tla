----------------------------- MODULE MCIngestor -----------------------------
(* Values for TLC.  Requests, sessions and tasks are each interchangeable.  *)
EXTENDS Ingestor, TLC

CONSTANTS r1, r2, r3, s1, s2, t1, t2

MCSymmetry == Permutations(Requests) \cup Permutations(Sessions) \cup Permutations(Tasks)
=============================================================================
