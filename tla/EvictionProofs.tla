--------------------------- MODULE EvictionProofs ---------------------------
(* Deleting rows takes their bytes off, and whatever a tier of eviction     *)
(* deletes are rows of the table.                                           *)
EXTENDS Eviction, ByteSumProofs

\* A total that is right for t stays right when V is deleted.
LEMMA BytesWithout ==
  ASSUME NEW t, Sized(t, DOMAIN t), NEW V \in SUBSET DOMAIN t
  PROVE  /\ DOMAIN Without(t, V) = DOMAIN t \ V
         /\ Bytes(t, V) \in Nat
         /\ Bytes(Without(t, V), DOMAIN t \ V) = Bytes(t, DOMAIN t) - Bytes(t, V)
<1>1. DOMAIN Without(t, V) = DOMAIN t \ V
  BY DEF Without
<1>2. \A i \in DOMAIN t \ V : Without(t, V)[i].size = t[i].size
  BY DEF Without
<1>3. Bytes(Without(t, V), DOMAIN t \ V) = Bytes(t, DOMAIN t \ V)
  BY <1>2, BytesCongruence
<1>4. Bytes(t, DOMAIN t) = Bytes(t, V) + Bytes(t, DOMAIN t \ V)
  BY BytesSplit
<1>5. Sized(t, V) /\ Sized(t, DOMAIN t \ V)
  BY FS_Subset, FS_Difference DEF Sized
<1>6. Bytes(t, V) \in Nat /\ Bytes(t, DOMAIN t \ V) \in Nat
  BY <1>5, BytesType
<1>7. QED
  BY <1>1, <1>3, <1>4, <1>6

\* An upsert changes the bytes by the difference of the two sizes.
LEMMA BytesWith ==
  ASSUME NEW t, Sized(t, DOMAIN t), NEW i, NEW row, row.size \in Nat
  PROVE  /\ DOMAIN With(t, i, row) = DOMAIN t \cup {i}
         /\ Bytes(With(t, i, row), DOMAIN t \cup {i}) =
              Bytes(t, DOMAIN t) + row.size - (IF i \in DOMAIN t THEN t[i].size ELSE 0)
<1> DEFINE u == With(t, i, row)
           rest == DOMAIN t \ {i}
           all == DOMAIN t \cup {i}
           old == IF i \in DOMAIN t THEN t[i].size ELSE 0
<1>1. DOMAIN u = all /\ u[i] = row /\ \A j \in rest : u[j] = t[j]
  BY DEF With
<1>2. Sized(u, all) /\ Sized(t, rest)
  <2>1. IsFiniteSet(all) /\ IsFiniteSet(rest)
    BY FS_AddElement, FS_RemoveElement DEF Sized
  <2>2. \A j \in all : u[j].size \in Nat
    BY <1>1 DEF Sized
  <2>3. QED
    BY <2>1, <2>2 DEF Sized
<1>3. Bytes(u, all) = row.size + Bytes(t, rest)
  <2>1. {i} \in SUBSET all /\ all \ {i} = rest
    OBVIOUS
  <2>2. Bytes(u, all) = Bytes(u, {i}) + Bytes(u, rest)
    BY <2>1, <1>2, BytesSplit
  <2>3. Bytes(u, {i}) = row.size
    BY <1>1, BytesOfOne
  <2>4. Bytes(u, rest) = Bytes(t, rest)
    BY <1>1, BytesCongruence
  <2>5. QED
    BY <2>2, <2>3, <2>4
<1>4. Bytes(t, rest) \in Nat
  BY <1>2, BytesType
<1>5. Bytes(t, DOMAIN t) = old + Bytes(t, rest)
  <2>1. CASE i \in DOMAIN t
    <3>1. Bytes(t, DOMAIN t) = Bytes(t, {i}) + Bytes(t, rest)
      BY <2>1, BytesSplit
    <3>2. Bytes(t, {i}) = old
      BY <2>1, BytesOfOne DEF Sized
    <3>3. QED
      BY <3>1, <3>2
  <2>2. CASE i \notin DOMAIN t
    <3>1. rest = DOMAIN t /\ old = 0
      BY <2>2
    <3>2. QED
      BY <3>1, <1>4
  <2>3. QED
    BY <2>1, <2>2
<1>6. old \in Nat
  BY DEF Sized
<1>7. QED
  BY <1>1, <1>3, <1>4, <1>5, <1>6

-----------------------------------------------------------------------------
\* Tier 1 deletes rows of the table, in either of its statements.
LEMMA PruneVictimsAreRows ==
  ASSUME NEW t, NEW total, NEW time, NEW X \in Expired(t, time), NEW W \in ColdVictims(t, X, total)
  PROVE  X \subseteq DOMAIN t /\ W \subseteq DOMAIN t \ X
<1>1. X \subseteq DOMAIN t
  BY DEF Expired, FirstRows
<1>2. PICK C \in FirstRows(DOMAIN t \ X, PruneBatch, ColdOrder(t)) :
        W \in Drained(t, C, ColdOrder(t), total - Bytes(t, X))
  BY DEF ColdVictims
<1>3. W \subseteq C /\ C \subseteq DOMAIN t \ X
  BY <1>2 DEF Drained, FirstRows
<1>4. QED
  BY <1>1, <1>3

LEMMA Tier1VictimsAreRows ==
  ASSUME NEW t, NEW total, NEW time, NEW V \in Tier1Victims(t, total, time)
  PROVE  V \subseteq DOMAIN t
<1>1. CASE ~(total > MaxBytes)
  BY <1>1 DEF Tier1Victims
<1>2. CASE total > MaxBytes
  <2>1. PICK X \in Expired(t, time) : \E W \in ColdVictims(t, X, total) : V = X \cup W
    BY <1>2 DEF Tier1Victims, PruneVictims
  <2>2. QED
    BY <2>1, PruneVictimsAreRows
<1>3. QED
  BY <1>1, <1>2

\* A tier 1 that is killed on its way has deleted rows of the table, too.
LEMMA BegunTier1AreRows ==
  ASSUME NEW t, NEW total, NEW time, NEW V \in BegunTier1(t, total, time)
  PROVE  V \subseteq DOMAIN t
<1>1. CASE V = {}
  BY <1>1
<1>2. CASE V # {}
  <2>1. PICK X \in Expired(t, time) :
          V \in {X \cup W : W \in UNION {Begun(U, ColdOrder(t)) : U \in ColdVictims(t, X, total)}}
    BY <1>2 DEF BegunTier1
  <2>2. PICK U \in ColdVictims(t, X, total) : \E W \in SUBSET U : V = X \cup W
    BY <2>1 DEF Begun
  <2>3. QED
    BY <2>2, PruneVictimsAreRows
<1>3. QED
  BY <1>1, <1>2

\* So does tier 2.
LEMMA Tier2VictimsAreRows ==
  ASSUME NEW t, NEW total, NEW time, NEW goal, NEW V \in Tier2Victims(t, total, time, goal)
  PROVE  V \subseteq DOMAIN t
<1>1. CASE total <= Target
  BY <1>1 DEF Tier2Victims
<1>2. CASE ~(total <= Target)
  <2>1. PICK C \in FirstRows(DOMAIN t, ScanRows, AgeOrder(t)) :
          V \in Drained(t, C, UtilityOrder(t, time, goal), total)
    BY <1>2 DEF Tier2Victims
  <2>2. QED
    BY <2>1 DEF Drained, FirstRows
<1>3. QED
  BY <1>1, <1>2

LEMMA BegunTier2AreRows ==
  ASSUME NEW t, NEW total, NEW time, NEW goal, NEW V \in BegunTier2(t, total, time, goal)
  PROVE  V \subseteq DOMAIN t
<1>1. PICK U \in Tier2Victims(t, total, time, goal) : V \subseteq U
  BY DEF BegunTier2, Begun
<1>2. QED
  BY <1>1, Tier2VictimsAreRows

-----------------------------------------------------------------------------
\* A limited or interrupted scan takes rows from the front of its order.
LEMMA FirstRowsComeFirst ==
  ASSUME NEW C, NEW n, NEW order, NEW V \in FirstRows(C, n, order), NEW v \in V,
         NEW s \in C, <<s, v>> \in order
  PROVE  s \in V
BY DEF FirstRows

LEMMA DrainedComeFirst ==
  ASSUME NEW t, NEW C, NEW order, NEW b, NEW V \in Drained(t, C, order, b), NEW v \in V,
         NEW s \in C, <<s, v>> \in order
  PROVE  s \in V
BY DEF Drained

\* Both statements of tier 1, one after the other, take the older row first.
LEMMA Tier1TakesOlderFirst ==
  ASSUME NEW t, \A i \in DOMAIN t : t[i].at \in Nat, NEW b, NEW time \in Nat,
         NEW V \in Tier1Victims(t, b, time), NEW v \in V,
         NEW s \in DOMAIN t, t[s].at < t[v].at
  PROVE  s \in V
<1>0. v \in DOMAIN t /\ <<s, v>> \in ColdOrder(t)
  BY Tier1VictimsAreRows DEF ColdOrder
<1>1. V \in PruneVictims(t, b, time)
  BY DEF Tier1Victims
<1>2. PICK X \in Expired(t, time) : \E W \in ColdVictims(t, X, b) : V = X \cup W
  BY <1>1 DEF PruneVictims
<1>3. PICK W \in ColdVictims(t, X, b) : V = X \cup W
  BY <1>2
<1>4. ASSUME v \in X PROVE s \in X
  <2> DEFINE old == {i \in DOMAIN t : t[i].at < time - Ttl}
  <2>1. X \in FirstRows(old, PruneBatch, ColdOrder(t))
    BY DEF Expired
  <2>2. v \in old
    BY <1>4, <2>1 DEF FirstRows
  <2>3. s \in old
    BY <1>0, <2>2, EvictionAssumption
  <2>4. QED
    BY <1>0, <1>4, <2>1, <2>3, FirstRowsComeFirst
<1>5. CASE v \in X \/ s \in X
  BY <1>3, <1>4, <1>5
<1>6. CASE v \notin X /\ s \notin X
  <2>1. PICK C \in FirstRows(DOMAIN t \ X, PruneBatch, ColdOrder(t)) :
          W \in Drained(t, C, ColdOrder(t), b - Bytes(t, X))
    BY DEF ColdVictims
  <2>2. v \in W /\ W \subseteq C
    BY <1>3, <1>6, <2>1 DEF Drained
  <2>3. s \in C
    BY <1>0, <1>6, <2>1, <2>2, FirstRowsComeFirst
  <2>4. s \in W
    BY <1>0, <2>1, <2>2, <2>3, DrainedComeFirst
  <2>5. QED
    BY <1>3, <2>4
<1>7. QED
  BY <1>5, <1>6

\* The factors of the utilities: products of no smaller factors are no smaller.
LEMMA ProductGrows ==
  ASSUME NEW a \in Nat, NEW b \in Nat, NEW c \in Nat, NEW d \in Nat, a <= c, b <= d
  PROVE  a * b \in Nat /\ c * d \in Nat /\ a * b <= c * d
<1>1. c * b <= c * d /\ c * d \in Nat /\ c * b \in Nat
  <2>1. c * (d - b) >= 0 /\ c * (d - b) = c * d - c * b
    OBVIOUS
  <2>2. QED
    BY <2>1
<1>2. a * b <= c * b /\ a * b \in Nat
  <2>1. (c - a) * b >= 0 /\ (c - a) * b = c * b - a * b
    OBVIOUS
  <2>2. QED
    BY <2>1
<1>3. QED
  BY <1>1, <1>2
=============================================================================
