--------------------------- MODULE ByteSumProofs ----------------------------
(* Bytes is a number, additive, and depends on the sizes only.              *)
EXTENDS ByteSum, FiniteSetTheorems, TLAPS

Sized(t, V) == IsFiniteSet(V) /\ \A i \in V : t[i].size \in Nat

\* The cells of one row.
LEMMA CellsOfOne ==
  ASSUME NEW i, NEW n \in Nat
  PROVE  IsFiniteSet({i} \X (1 .. n)) /\ Cardinality({i} \X (1 .. n)) = n
<1>1. 1 \in Int /\ n \in Int
  OBVIOUS
<1>2. IsFiniteSet(1 .. n) /\ Cardinality(1 .. n) = IF 1 > n THEN 0 ELSE n - 1 + 1
  BY <1>1, FS_Interval
<1>3. Cardinality(1 .. n) = n
  BY <1>2
<1>4. IsFiniteSet({i}) /\ Cardinality({i}) = 1
  BY FS_Singleton
<1>5. /\ IsFiniteSet({i} \X (1 .. n))
      /\ Cardinality({i} \X (1 .. n)) = Cardinality({i}) * Cardinality(1 .. n)
  BY <1>2, <1>4, FS_Product
<1>6. QED
  BY <1>3, <1>4, <1>5

\* The cells of finitely many rows are finitely many, so Bytes is a number.
LEMMA BytesType ==
  ASSUME NEW t, NEW V, Sized(t, V)
  PROVE  IsFiniteSet(Cells(t, V)) /\ Bytes(t, V) \in Nat
<1> DEFINE row == [i \in V |-> {i} \X (1 .. t[i].size)]
           rows == {{i} \X (1 .. t[i].size) : i \in V}
<1>1. row \in Surjection(V, rows)
  BY DEF Surjection
<1>2. IsFiniteSet(rows)
  BY <1>1, FS_Surjection DEF Sized
<1>3. ASSUME NEW i \in V PROVE IsFiniteSet({i} \X (1 .. t[i].size))
  BY CellsOfOne DEF Sized
<1>4. \A T \in rows : IsFiniteSet(T)
  BY <1>3
<1>5. IsFiniteSet(UNION rows)
  BY <1>2, <1>4, FS_UNION
<1>6. IsFiniteSet(Cells(t, V))
  BY <1>5 DEF Cells
<1>7. QED
  BY <1>6, FS_CardinalityType DEF Bytes

\* The bytes of one row are its size.
LEMMA BytesOfOne ==
  ASSUME NEW t, NEW i, t[i].size \in Nat
  PROVE  Bytes(t, {i}) = t[i].size
<1>1. Cells(t, {i}) = {i} \X (1 .. t[i].size)
  BY DEF Cells
<1>2. Cardinality({i} \X (1 .. t[i].size)) = t[i].size
  BY CellsOfOne
<1>3. QED
  BY <1>1, <1>2 DEF Bytes

\* Rows taken out of a set take their bytes with them.
LEMMA BytesSplit ==
  ASSUME NEW t, NEW S, Sized(t, S), NEW V \in SUBSET S
  PROVE  Bytes(t, S) = Bytes(t, V) + Bytes(t, S \ V)
<1>1. Sized(t, V) /\ Sized(t, S \ V)
  BY FS_Subset, FS_Difference DEF Sized
<1>2. /\ IsFiniteSet(Cells(t, V)) /\ IsFiniteSet(Cells(t, S \ V))
      /\ Bytes(t, V) \in Nat /\ Bytes(t, S \ V) \in Nat
  BY <1>1, BytesType
<1>3. Cells(t, S) = Cells(t, V) \cup Cells(t, S \ V)
  BY DEF Cells
<1>4. Cells(t, V) \cap Cells(t, S \ V) = {}
  <2>1. SUFFICES ASSUME NEW c \in Cells(t, V), c \in Cells(t, S \ V) PROVE FALSE
    OBVIOUS
  <2>2. PICK i \in V : c \in {i} \X (1 .. t[i].size)
    BY <2>1 DEF Cells
  <2>3. PICK j \in S \ V : c \in {j} \X (1 .. t[j].size)
    BY <2>1 DEF Cells
  <2>4. QED
    BY <2>2, <2>3
<1>5. Cardinality(Cells(t, V) \cap Cells(t, S \ V)) = 0
  BY <1>4, FS_EmptySet
<1>6. Cardinality(Cells(t, V) \cup Cells(t, S \ V)) =
        Cardinality(Cells(t, V)) + Cardinality(Cells(t, S \ V))
          - Cardinality(Cells(t, V) \cap Cells(t, S \ V))
  BY <1>2, FS_Union
<1>7. Bytes(t, S) = Cardinality(Cells(t, V) \cup Cells(t, S \ V))
  BY <1>3 DEF Bytes
<1>8. /\ Bytes(t, V) = Cardinality(Cells(t, V))
      /\ Bytes(t, S \ V) = Cardinality(Cells(t, S \ V))
  BY DEF Bytes
<1>9. QED
  BY <1>2, <1>5, <1>6, <1>7, <1>8

\* Bytes looks at the sizes only.
LEMMA BytesCongruence ==
  ASSUME NEW t, NEW u, NEW V, \A i \in V : t[i].size = u[i].size
  PROVE  Bytes(t, V) = Bytes(u, V)
<1>1. {{i} \X (1 .. t[i].size) : i \in V} = {{i} \X (1 .. u[i].size) : i \in V}
  OBVIOUS
<1>2. QED
  BY <1>1 DEF Bytes, Cells
=============================================================================
