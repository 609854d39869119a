-------------------------- MODULE SemanticController ------------------------
(***************************************************************************)
(* compact() of the controller (src/controller/SemanticController.ts): how *)
(* many rows one pass evicts, which rows it considers, and how it ranks    *)
(* them by Recency * Importance / (1 + Density).  It is the second         *)
(* eviction policy over the table whose first one is module Eviction.      *)
(***************************************************************************)
EXTENDS Eviction

CONSTANTS
  EvictPercent,      \* evictFraction, in hundredths
  PoolPercent,       \* candidatePoolFraction, in hundredths
  MinPool,           \* minCandidatePool
  Recency,           \* Recency[age]: exp(-age / recencyHalfLifeMs), scaled
  Importance,        \* Importance[c]: max(0.01, importance), in hundredths
  Alike              \* Alike[c][d]: cosine above densityThreshold

Greatest(S) == CHOOSE n \in S : \A m \in S : m <= n

\* Fault: no row is evicted from a table of few rows.
FloorOfCount(n) == (n * EvictPercent) \div 100

\* targetEvict: a fraction of the count, at least one row.
TargetEvict(n) == Greatest({1, (n * EvictPercent) \div 100})

PoolSize(n) == Greatest({MinPool, (n * PoolPercent) \div 100, 2 * TargetEvict(n)})

\* What list(poolSize) may return: the oldest rows.
Pools(t) == FirstRows(DOMAIN t, PoolSize(Cardinality(DOMAIN t)), AgeOrder(t))

\* The other candidates that say nearly the same as row i.
Density(t, P, i) == Cardinality({j \in P \ {i} : Alike[t[i].content][t[j].content]})

\* Utility without its denominator.
PolicyWorth(row, time) == Recency[time - row.at] * Importance[row.content]

\* Fault: density counts for a row, not against it.
DenseFirstOrder(t, P, time) ==
  LET U(i) == PolicyWorth(t[i], time) * (1 + Density(t, P, i))
  IN {p \in P \X P : U(p[1]) < U(p[2])}

\* scored.sort(): by utility, equal scores as list() left them.
PolicyOrder(t, P, time) ==
  LET Cross(i, j) == PolicyWorth(t[i], time) * (1 + Density(t, P, j))
  IN {p \in P \X P :
        \/ Cross(p[1], p[2]) < Cross(p[2], p[1])
        \/ /\ Cross(p[1], p[2]) = Cross(p[2], p[1])
           /\ t[p[1]].at < t[p[2]].at}

\* The rows one pass of compact() sets out to delete.
PolicyVictims(t, time) ==
  UNION {FirstRows(P, TargetEvict(Cardinality(DOMAIN t)), PolicyOrder(t, P, time)) :
           P \in Pools(t)}
=============================================================================
