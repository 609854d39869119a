------------------------------ MODULE Eviction ------------------------------
(***************************************************************************)
(* The pure part of the cache: a table of memories as a function from the  *)
(* ids it holds to their rows, the orders in which the SQL statements and  *)
(* the utility ranking read it, and the sets of rows that the two eviction *)
(* tiers may delete, in a whole pass or in one that is killed on the way.  *)
(*                                                                         *)
(* A row is [content, size, at, hits, synced]: `at' is last_accessed_at in *)
(* seconds (the resolution of the utility's age floor), `hits' is          *)
(* access_count.  SQL and Array.sort leave the order of equal keys to the  *)
(* engine, so every order here is a set of pairs (a strict weak order) and *)
(* the operators return every outcome some linear extension produces.      *)
(***************************************************************************)
EXTENDS ByteSum

CONSTANTS
  MaxBytes,          \* opts.maxBytes
  Ttl,               \* tier1TtlMs
  PruneBatch,        \* tier1PruneBatch: LIMIT of both statements of tier 1
  ScanRows,          \* tier2ScanRows: LIMIT of the scan of tier 2
  NoGoal,            \* currentGoal = null
  SizeOf,            \* SizeOf[c]: bytes of a row that holds content c
  Similarity         \* Similarity[c][g]: (cosine + 1) / 2, in hundredths

ASSUME EvictionAssumption ==
  /\ MaxBytes \in Nat /\ Ttl \in Nat
  /\ PruneBatch \in Nat \ {0} /\ ScanRows \in Nat \ {0}

\* maxBytes * tier1TargetRatio; totals are integers, so the floor decides.
Target == (85 * MaxBytes) \div 100

-----------------------------------------------------------------------------
Without(t, V) == [i \in DOMAIN t \ V |-> t[i]]

With(t, i, row) == [j \in DOMAIN t \cup {i} |-> IF j = i THEN row ELSE t[j]]

-----------------------------------------------------------------------------
\* ORDER BY last_accessed_at, access_count
ColdOrder(t) ==
  {p \in (DOMAIN t) \X (DOMAIN t) :
     \/ t[p[1]].at < t[p[2]].at
     \/ t[p[1]].at = t[p[2]].at /\ t[p[1]].hits < t[p[2]].hits}

\* ORDER BY last_accessed_at
AgeOrder(t) == {p \in (DOMAIN t) \X (DOMAIN t) : t[p[1]].at < t[p[2]].at}

\* utilityScore is similarity * count / age with a floor under each factor:
\* its numerator and its denominator.
Worth(row, goal) ==
  (IF goal = NoGoal \/ Similarity[row.content][goal] < 1
     THEN 1 ELSE Similarity[row.content][goal]) * (row.hits + 1)

Age(row, time) == IF time - row.at < 1 THEN 1 ELSE time - row.at

\* Fault: each utility multiplied by its age, not divided.
InverseAgeOrder(t, time, goal) ==
  {p \in (DOMAIN t) \X (DOMAIN t) :
     Worth(t[p[1]], goal) * Age(t[p[1]], time) < Worth(t[p[2]], goal) * Age(t[p[2]], time)}

\* The order of rankForEviction: by utility, equal scores as the scan left them.
UtilityOrder(t, time, goal) ==
  LET Cross(i, j) == Worth(t[i], goal) * Age(t[j], time)
  IN {p \in (DOMAIN t) \X (DOMAIN t) :
        \/ Cross(p[1], p[2]) < Cross(p[2], p[1])
        \/ /\ Cross(p[1], p[2]) = Cross(p[2], p[1])
           /\ t[p[1]].at < t[p[2]].at}

\* ORDER BY ... LIMIT n over the rows C.
FirstRows(C, n, order) ==
  {V \in SUBSET C :
     /\ Cardinality(V) = IF Cardinality(C) < n THEN Cardinality(C) ELSE n
     /\ \A v \in V, c \in C \ V : <<c, v>> \notin order}

\* What the loop "for (row of candidates) { if (total <= target) break;
\* delete }" deletes: a prefix of the candidates that ends as soon as the
\* total has come down to the target, or with the last candidate.
Drained(t, C, order, total) ==
  {V \in SUBSET C :
     /\ \A v \in V, c \in C \ V : <<c, v>> \notin order
     /\ V = C \/ total - Bytes(t, V) <= Target
     /\ V = {} \/ \E v \in V : /\ \A u \in V : <<v, u>> \notin order
                               /\ total - Bytes(t, V \ {v}) > Target}

-----------------------------------------------------------------------------
\* The rows the TTL statement of tier 1 deletes.
Expired(t, time) ==
  FirstRows({i \in DOMAIN t : t[i].at < time - Ttl}, PruneBatch, ColdOrder(t))

\* What the loop after it deletes once the rows X are gone: the coldest of the
\* rest while the total is above the target.
ColdVictims(t, X, total) ==
  UNION {Drained(t, C, ColdOrder(t), total - Bytes(t, X)) :
           C \in FirstRows(DOMAIN t \ X, PruneBatch, ColdOrder(t))}

\* Fault: tier 1 stops after the TTL statement.
TtlVictims(t, total, time) == Expired(t, time)

\* The rows tier 1 deletes from t.
PruneVictims(t, total, time) ==
  UNION {{X \cup W : W \in ColdVictims(t, X, total)} : X \in Expired(t, time)}

\* Tier 1 runs only when a write has crossed the budget.
Tier1Victims(t, total, time) ==
  IF total > MaxBytes THEN PruneVictims(t, total, time) ELSE {{}}

\* Fault: tier 2 waits until the budget itself is crossed.
LateTier2Victims(t, total, time, goal) ==
  IF total <= MaxBytes THEN {{}}
  ELSE UNION {Drained(t, C, UtilityOrder(t, time, goal), total) :
                C \in FirstRows(DOMAIN t, ScanRows, AgeOrder(t))}

\* The rows tier 2 deletes: the least useful of the oldest ScanRows rows.
Tier2Victims(t, total, time, goal) ==
  IF total <= Target THEN {{}}
  ELSE UNION {Drained(t, C, UtilityOrder(t, time, goal), total) :
                C \in FirstRows(DOMAIN t, ScanRows, AgeOrder(t))}

-----------------------------------------------------------------------------
\* What of V a loop that deletes row by row may have deleted when it is killed.
Begun(V, order) == {W \in SUBSET V : \A w \in W, v \in V \ W : <<v, w>> \notin order}

\* Each statement commits on its own: tier 1 is killed before its first one,
\* or in the loop after it.
BegunTier1(t, total, time) ==
  IF total <= MaxBytes THEN {{}}
  ELSE {{}} \cup UNION {{X \cup W : W \in UNION {Begun(V, ColdOrder(t)) :
                                      V \in ColdVictims(t, X, total)}} :
                          X \in Expired(t, time)}

BegunTier2(t, total, time, goal) ==
  UNION {Begun(V, UtilityOrder(t, time, goal)) : V \in Tier2Victims(t, total, time, goal)}

\* The rows search() can see, whatever the query: the oldest n.
Searched(t, n) == FirstRows(DOMAIN t, n, AgeOrder(t))
=============================================================================
