------------------------ MODULE SemanticCacheProofs -------------------------
(* Type correctness, byte accounting and what may overshoot, for every      *)
(* set of ids and contents, every budget and every batch size.              *)
EXTENDS SemanticCache, EvictionProofs

\* The rows of a well-typed table are finitely many and have sizes.
LEMMA TableIsSized ==
  ASSUME NEW t, DOMAIN t \subseteq Ids, \A i \in DOMAIN t : t[i] \in Row
  PROVE  Sized(t, DOMAIN t)
<1>1. IsFiniteSet(DOMAIN t)
  BY CacheAssumption, FS_Subset
<1>2. QED
  BY <1>1 DEF Sized, Row

\* Typed(t): t is a table of rows; Counted(t, b): and b is its size.
Typed(t) == DOMAIN t \subseteq Ids /\ \A i \in DOMAIN t : t[i] \in Row
Counted(t, b) == Typed(t) /\ b = Bytes(t, DOMAIN t)

\* Every action that deletes rows does so by Evict, which keeps the count.
LEMMA EvictCounts ==
  ASSUME NEW t, NEW b, Counted(t, b), NEW Victims, Victims \subseteq SUBSET DOMAIN t,
         Evict(t, b, Victims)
  PROVE  Typed(table)' /\ Counted(table, totalBytes)' /\ totalBytes' \in Nat
<1>1. PICK V \in Victims : table' = Without(t, V) /\ totalBytes' = b - Bytes(t, V)
  BY DEF Evict
<1>2. Sized(t, DOMAIN t) /\ V \in SUBSET DOMAIN t
  BY TableIsSized DEF Counted, Typed
<1>3. /\ DOMAIN table' = DOMAIN t \ V
      /\ Bytes(table', DOMAIN t \ V) = Bytes(t, DOMAIN t) - Bytes(t, V)
  BY <1>1, <1>2, BytesWithout
<1>4. Typed(table)'
  BY <1>1, <1>3 DEF Counted, Typed, Without
<1>5. Sized(table', DOMAIN table')
  BY <1>4, TableIsSized DEF Typed
<1>6. totalBytes' = Bytes(table', DOMAIN table')
  BY <1>1, <1>3 DEF Counted
<1>7. totalBytes' \in Nat
  BY <1>5, <1>6, BytesType
<1>8. QED
  BY <1>4, <1>6, <1>7 DEF Counted

\* The upsert of a row changes the count by the difference of the two sizes.
LEMMA UpsertCounts ==
  ASSUME NEW t, NEW b, Counted(t, b), NEW i \in Ids, NEW row \in Row
  PROVE  Counted(With(t, i, row),
                 b + row.size - (IF i \in DOMAIN t THEN t[i].size ELSE 0))
<1> DEFINE u == With(t, i, row)
<1>1. Sized(t, DOMAIN t) /\ row.size \in Nat
  BY TableIsSized DEF Counted, Typed, Row
<1>2. /\ DOMAIN u = DOMAIN t \cup {i}
      /\ Bytes(u, DOMAIN t \cup {i}) =
           Bytes(t, DOMAIN t) + row.size - (IF i \in DOMAIN t THEN t[i].size ELSE 0)
  BY <1>1, BytesWith
<1>3. Typed(u)
  BY <1>2 DEF Counted, Typed, With
<1>4. QED
  BY <1>2, <1>3 DEF Counted

-----------------------------------------------------------------------------
\* Tier 1 ends within the budget, or has deleted as many rows as it may.
LEMMA Tier1SpendsBatch ==
  ASSUME NEW t, NEW b, Counted(t, b), NEW time, NEW V \in Tier1Victims(t, b, time)
  PROVE  b - Bytes(t, V) <= MaxBytes \/ Cardinality(V) >= PruneBatch
<1> DEFINE rows == DOMAIN t
<1>1. Sized(t, rows) /\ b \in Nat /\ b = Bytes(t, rows)
  BY TableIsSized, BytesType DEF Counted, Typed
<1>2. MaxBytes \in Nat /\ Target \in Int /\ Target <= MaxBytes
  BY EvictionAssumption DEF Target
<1>3. V \in SUBSET rows /\ IsFiniteSet(V) /\ Bytes(t, V) \in Nat
  BY <1>1, Tier1VictimsAreRows, BytesWithout, FS_Subset DEF Sized
<1>4. CASE ~(b > MaxBytes)
  BY <1>1, <1>2, <1>3, <1>4
<1>5. CASE b > MaxBytes
  <2>1. PICK X \in Expired(t, time) : \E W \in ColdVictims(t, X, b) : V = X \cup W
    BY <1>5 DEF Tier1Victims, PruneVictims
  <2>2. PICK W \in ColdVictims(t, X, b) : V = X \cup W
    BY <2>1
  <2>3. PICK C \in FirstRows(rows \ X, PruneBatch, ColdOrder(t)) :
          W \in Drained(t, C, ColdOrder(t), b - Bytes(t, X))
    BY DEF ColdVictims
  <2>4. /\ W \subseteq C /\ C \subseteq rows \ X
        /\ W = C \/ b - Bytes(t, X) - Bytes(t, W) <= Target
    BY <2>3 DEF Drained, FirstRows
  <2>5. CASE b - Bytes(t, X) - Bytes(t, W) <= Target
    <3>1. Sized(t, V) /\ V \ X = W /\ X \in SUBSET V
      BY <1>1, <1>3, <2>2, <2>4 DEF Sized
    <3>2. Bytes(t, V) = Bytes(t, X) + Bytes(t, W)
      BY <3>1, BytesSplit
    <3>3. Bytes(t, X) \in Nat /\ Bytes(t, W) \in Nat
      <4>1. Sized(t, X) /\ Sized(t, W)
        BY <3>1, <2>2, FS_Subset DEF Sized
      <4>2. QED
        BY <4>1, BytesType
    <3>4. QED
      BY <1>1, <1>2, <2>5, <3>2, <3>3
  <2>6. CASE W = C
    <3>1. IsFiniteSet(rows \ X) /\ Cardinality(rows \ X) \in Nat
      BY <1>1, FS_Difference, FS_CardinalityType DEF Sized
    <3>2. Cardinality(C) = IF Cardinality(rows \ X) < PruneBatch THEN Cardinality(rows \ X)
                           ELSE PruneBatch
      BY <2>3 DEF FirstRows
    <3>3. CASE Cardinality(rows \ X) < PruneBatch
      <4>1. C = rows \ X
        BY <2>4, <3>1, <3>2, <3>3, FS_Subset
      <4>2. V = rows
        BY <2>2, <2>6, <4>1, <1>3
      <4>3. QED
        BY <1>1, <1>2, <4>2
    <3>4. CASE ~(Cardinality(rows \ X) < PruneBatch)
      <4>1. Cardinality(C) = PruneBatch /\ C \in SUBSET V
        BY <2>2, <2>6, <3>2, <3>4
      <4>2. Cardinality(C) <= Cardinality(V)
        BY <1>3, <4>1, FS_Subset
      <4>3. Cardinality(V) \in Nat
        BY <1>3, FS_CardinalityType
      <4>4. QED
        BY <4>1, <4>2, <4>3, EvictionAssumption
    <3>5. QED
      BY <3>3, <3>4
  <2>7. QED
    BY <2>4, <2>5, <2>6
<1>6. QED
  BY <1>4, <1>5

-----------------------------------------------------------------------------
\* The inductive invariant: while no process runs there is no counter.
IInv == TypeOK /\ ByteAccounting

LEMMA InitIInv == Init => IInv
<1> SUFFICES ASSUME Init PROVE IInv
  OBVIOUS
<1>1. DOMAIN table = {}
  BY DEF Init
<1>2. TypeOK
  BY <1>1 DEF Init, TypeOK
<1>3. Bytes(table, DOMAIN table) = 0
  <2>1. Cells(table, DOMAIN table) = {}
    BY <1>1 DEF Cells
  <2>2. QED
    BY <2>1, FS_EmptySet DEF Bytes
<1>4. QED
  BY <1>2, <1>3, EvictionAssumption DEF Init, IInv, ByteAccounting

\* What the steps that delete rows have in common.
LEMMA EvictKeepsIInv ==
  ASSUME IInv, NEW t, NEW b, Counted(t, b), NEW Victims, Victims \subseteq SUBSET DOMAIN t,
         Evict(t, b, Victims),
         now' = now, phase' = phase, goal' \in Goals \cup {NoGoal}, fetches' \in Nat
  PROVE  IInv'
<1>1. Typed(table)' /\ Counted(table, totalBytes)' /\ totalBytes' \in Nat
  BY EvictCounts
<1>2. QED
  BY <1>1 DEF IInv, TypeOK, ByteAccounting, Typed, Counted

\* A process that dies leaves whatever table the file holds.
LEMMA DeathKeepsIInv ==
  ASSUME IInv, Typed(table)', Die
  PROVE  IInv'
BY DEF IInv, TypeOK, ByteAccounting, Typed, Die

\* Steps that change no size and no id leave the bytes as they are.
LEMMA SameSizesKeepIInv ==
  ASSUME IInv, Typed(table)', DOMAIN table' = DOMAIN table,
         \A i \in DOMAIN table : table'[i].size = table[i].size,
         now' \in Nat, goal' \in Goals \cup {NoGoal}, fetches' \in Nat,
         phase' \in {"open", "closing", "closed", "down"},
         totalBytes' \in Nat,
         phase' # "down" => totalBytes' = Bytes(table, DOMAIN table)
  PROVE  IInv'
<1>1. Bytes(table, DOMAIN table) = Bytes(table', DOMAIN table')
  BY BytesCongruence
<1>2. QED
  BY <1>1 DEF IInv, TypeOK, ByteAccounting, Typed

\* What set() and a landing prune is a table and its count.
LEMMA SetCounts ==
  ASSUME IInv, DbOpen, NEW i \in Ids, NEW c \in Contents
  PROVE  Counted(With(table, i, Written(i, c)), totalBytes + SizeChange(i, c))
<1>1. TypeOK /\ Counted(table, totalBytes)
  BY DEF IInv, TypeOK, ByteAccounting, DbOpen, Typed, Counted
<1>2. Written(i, c) \in Row /\ Written(i, c).size = SizeOf[c]
  BY <1>1, CacheAssumption DEF Written, Row, TypeOK
<1>3. Counted(With(table, i, Written(i, c)),
              totalBytes + Written(i, c).size - (IF i \in DOMAIN table THEN table[i].size ELSE 0))
  BY <1>1, <1>2, UpsertCounts
<1>4. totalBytes + SizeChange(i, c) =
        totalBytes + Written(i, c).size - (IF i \in DOMAIN table THEN table[i].size ELSE 0)
  BY <1>1, <1>2, CacheAssumption DEF SizeChange, TypeOK, Row
<1>5. QED
  BY <1>3, <1>4

LEMMA LandingCounts ==
  ASSUME IInv, DbOpen, NEW resp \in Responses
  PROVE  Counted(Prefetched(resp), totalBytes + Bytes(Prefetched(resp), Absent(resp)))
<1> DEFINE new == Prefetched(resp)
<1>1. TypeOK /\ Counted(table, totalBytes)
  BY DEF IInv, TypeOK, ByteAccounting, DbOpen, Typed, Counted
<1>2. Absent(resp) \subseteq Ids /\ \A i \in Absent(resp) : resp[i] \in Contents
  BY DEF Absent, Responses
<1>3. Typed(new)
  BY <1>1, <1>2, CacheAssumption DEF Prefetched, Typed, Row, TypeOK
<1>4. Sized(new, DOMAIN new) /\ Sized(table, DOMAIN table)
  BY <1>1, <1>3, TableIsSized DEF Typed, Counted
<1>5. /\ Absent(resp) \in SUBSET DOMAIN new
      /\ DOMAIN new \ Absent(resp) = DOMAIN table
      /\ \A i \in DOMAIN table : new[i].size = table[i].size
  BY DEF Prefetched, Absent
<1>6. Bytes(new, DOMAIN new) = Bytes(new, Absent(resp)) + Bytes(new, DOMAIN table)
  BY <1>4, <1>5, BytesSplit
<1>7. Bytes(new, DOMAIN table) = Bytes(table, DOMAIN table)
  BY <1>5, BytesCongruence
<1>8. Bytes(table, DOMAIN table) \in Nat /\ Bytes(new, Absent(resp)) \in Nat
  BY <1>4, <1>5, BytesType, BytesWithout
<1>9. QED
  BY <1>1, <1>3, <1>6, <1>7, <1>8 DEF Counted

LEMMA StepIInv == IInv /\ [Next]_vars => IInv'
<1> SUFFICES ASSUME IInv, [Next]_vars PROVE IInv'
  OBVIOUS
<1> USE CacheAssumption
<1>1. TypeOK /\ Typed(table) /\ (DbOpen => Counted(table, totalBytes))
  BY DEF IInv, TypeOK, ByteAccounting, DbOpen, Typed, Counted
<1>2. CASE Tick
  BY <1>1, <1>2, SameSizesKeepIInv DEF Tick, TypeOK, IInv, ByteAccounting
<1>3. ASSUME NEW i \in Ids, NEW c \in Contents, Set(i, c) PROVE IInv'
  <2> DEFINE new == With(table, i, Written(i, c))
             total == totalBytes + SizeChange(i, c)
  <2>1. Counted(new, total)
    BY <1>3, SetCounts DEF Set
  <2>2. Tier1Victims(new, total, now) \subseteq SUBSET DOMAIN new
    BY Tier1VictimsAreRows
  <2>3. Evict(new, total, Tier1Victims(new, total, now)) /\ UNCHANGED <<now, goal, fetches, phase>>
    BY <1>3 DEF Set
  <2> HIDE DEF new, total
  <2>4. QED
    BY <1>1, <2>1, <2>2, <2>3, EvictKeepsIInv DEF TypeOK
<1>4. ASSUME NEW i \in Ids, Get(i) PROVE IInv'
  <2>1. /\ DOMAIN table' = DOMAIN table
        /\ \A j \in DOMAIN table : table'[j] \in Row /\ table'[j].size = table[j].size
    BY <1>1, <1>4 DEF Get, TypeOK, Row
  <2>2. Typed(table)'
    BY <2>1, <1>1 DEF Typed
  <2>3. QED
    BY <2>1, <2>2, <1>1, <1>4, SameSizesKeepIInv DEF Get, TypeOK, IInv, ByteAccounting
<1>5. ASSUME NEW i \in Ids, Delete(i) PROVE IInv'
  BY <1>1, <1>5, EvictKeepsIInv DEF Delete, TypeOK
<1>6. CASE Compact \/ Tier2Tick
  <2>1. DbOpen /\ Compress
    BY <1>6 DEF Compact, Tier2Tick, DbOpen
  <2>2. Tier2Victims(table, totalBytes, now, goal) \subseteq SUBSET DOMAIN table
    BY Tier2VictimsAreRows
  <2>3. QED
    BY <1>1, <2>1, <2>2, EvictKeepsIInv DEF Compress, TypeOK
<1>7. ASSUME NEW g \in Goals, SetGoal(g) PROVE IInv'
  BY <1>1, <1>7, SameSizesKeepIInv DEF SetGoal, TypeOK, IInv, ByteAccounting
<1>8. ASSUME NEW resp \in Responses, RefreshAhead(resp) PROVE IInv'
  <2> DEFINE new == Prefetched(resp)
             total == totalBytes + Bytes(new, Absent(resp))
  <2>1. Counted(new, total)
    BY <1>8, LandingCounts DEF RefreshAhead
  <2>2. Tier1Victims(new, total, now) \subseteq SUBSET DOMAIN new
    BY Tier1VictimsAreRows
  <2>3. /\ Evict(new, total, Tier1Victims(new, total, now)) /\ UNCHANGED <<now, goal, phase>>
        /\ fetches' \in Nat
    BY <1>1, <1>8 DEF RefreshAhead, TypeOK
  <2> HIDE DEF new, total
  <2>4. QED
    BY <1>1, <2>1, <2>2, <2>3, EvictKeepsIInv DEF TypeOK
<1>9. CASE FetchFails
  BY <1>1, <1>9, SameSizesKeepIInv DEF FetchFails, TypeOK, IInv, ByteAccounting
<1>10. ASSUME NEW S \in SUBSET Ids, MarkSynced(S) PROVE IInv'
  <2>1. /\ DOMAIN table' = DOMAIN table
        /\ \A j \in DOMAIN table : table'[j] \in Row /\ table'[j].size = table[j].size
    BY <1>1, <1>10 DEF MarkSynced, TypeOK, Row
  <2>2. Typed(table)'
    BY <2>1, <1>1 DEF Typed
  <2>3. QED
    BY <2>1, <2>2, <1>1, <1>10, SameSizesKeepIInv DEF MarkSynced, TypeOK, IInv, ByteAccounting
<1>11. CASE Close \/ CloseDb
  BY <1>1, <1>11, SameSizesKeepIInv DEF Close, CloseDb, TypeOK, IInv, ByteAccounting
<1>12. CASE Crash \/ CrashInCompress
  <2>1. CASE Crash
    BY <1>1, <2>1, DeathKeepsIInv DEF Crash, Typed
  <2>2. CASE CrashInCompress
    <3>1. PICK V \in BegunTier2(table, totalBytes, now, goal) : table' = Without(table, V)
      BY <2>2 DEF CrashInCompress
    <3>2. Typed(table)'
      BY <1>1, <3>1 DEF Without, Typed
    <3>3. QED
      BY <2>2, <3>2, DeathKeepsIInv DEF CrashInCompress
  <2>3. QED
    BY <1>12, <2>1, <2>2
<1>13. CASE Reopen
  <2>1. Bytes(table, DOMAIN table) \in Nat
    BY <1>1, TableIsSized, BytesType DEF Typed
  <2>2. QED
    BY <2>1, <1>1, <1>13, SameSizesKeepIInv DEF Reopen, TypeOK
<1>14. CASE UNCHANGED vars
  BY <1>1, <1>14, SameSizesKeepIInv DEF vars, TypeOK, IInv, ByteAccounting
<1>15. ASSUME NEW i \in Ids, NEW c \in Contents, CrashInSet(i, c) PROVE IInv'
  <2> DEFINE new == With(table, i, Written(i, c))
  <2>1. PICK V : table' = Without(new, V)
    BY <1>15 DEF CrashInSet
  <2>2. Typed(new)
    BY <1>15, SetCounts DEF CrashInSet, Counted
  <2>3. Typed(table)'
    BY <2>1, <2>2 DEF Without, Typed
  <2>4. QED
    BY <1>15, <2>3, DeathKeepsIInv DEF CrashInSet
<1>16. ASSUME NEW resp \in Responses, CrashInLanding(resp) PROVE IInv'
  <2> DEFINE new == Prefetched(resp)
  <2>1. Typed(new)
    BY <1>16, LandingCounts DEF CrashInLanding, Counted
  <2>2. CASE \E d \in Absent(resp) : table' = [new EXCEPT ![d].synced = FALSE]
    <3>1. PICK d \in Absent(resp) : table' = [new EXCEPT ![d].synced = FALSE]
      BY <2>2
    <3>2. /\ DOMAIN table' = DOMAIN new
          /\ \A j \in DOMAIN new : table'[j] = IF j = d THEN [new[d] EXCEPT !.synced = FALSE] ELSE new[j]
      BY <3>1 DEF Prefetched
    <3>3. d \in DOMAIN new
      BY DEF Prefetched
    <3> HIDE DEF new
    <3>4. Typed(table)'
      BY <2>1, <3>2, <3>3 DEF Typed, Row
    <3>5. QED
      BY <1>16, <3>4, DeathKeepsIInv DEF CrashInLanding
  <2>3. CASE \E V : table' = Without(new, V)
    <3>1. Typed(table)'
      BY <2>1, <2>3 DEF Without, Typed
    <3>2. QED
      BY <1>16, <3>1, DeathKeepsIInv DEF CrashInLanding
  <2>4. QED
    BY <1>16, <2>2, <2>3 DEF CrashInLanding
<1>17. QED
  BY <1>2, <1>3, <1>4, <1>5, <1>6, <1>7, <1>8, <1>9, <1>10, <1>11, <1>12, <1>13, <1>14,
     <1>15, <1>16 DEF Next

-----------------------------------------------------------------------------
LEMMA SpecIInv == Spec => []IInv
BY InitIInv, StepIInv, PTL DEF Spec

\* The variables keep their types in every behaviour.
THEOREM TypeCorrect == Spec => []TypeOK
<1>1. IInv => TypeOK
  BY DEF IInv
<1>2. QED
  BY <1>1, SpecIInv, PTL

\* `upsert with byte-accurate size tracking': totalBytes is the size of the
\* table after every call, timer, landed prefetch and restart.
THEOREM AccountingCorrect == Spec => []ByteAccounting
<1>1. IInv => ByteAccounting
  BY DEF IInv
<1>2. QED
  BY <1>1, SpecIInv, PTL

\* A call of set() or a landed prefetch ends above the budget only after it has
\* evicted as many rows as one statement may, whatever crashes have left behind.
THEOREM OvershootCorrect == Spec => OvershootSpendsBatch
<1> DEFINE A == totalBytes' > MaxBytes =>
                  /\ \A i \in Ids : SpendsBatch({i}) \/ \A c \in Contents : ~Set(i, c)
                  /\ \A resp \in Responses : SpendsBatch(DOMAIN resp) \/ ~RefreshAhead(resp)
<1>1. IInv => [A]_vars
  <2> SUFFICES ASSUME IInv, totalBytes' > MaxBytes PROVE A
    OBVIOUS
  <2>1. ASSUME NEW t, NEW b, Counted(t, b), Evict(t, b, Tier1Victims(t, b, now))
        PROVE  Cardinality(DOMAIN t \ DOMAIN table') >= PruneBatch
    <3>1. PICK V \in Tier1Victims(t, b, now) :
            table' = Without(t, V) /\ totalBytes' = b - Bytes(t, V)
      BY <2>1 DEF Evict
    <3>2. V \subseteq DOMAIN t /\ DOMAIN table' = DOMAIN t \ V
      BY <3>1, Tier1VictimsAreRows DEF Without
    <3>3. DOMAIN t \ DOMAIN table' = V
      BY <3>2
    <3>4. totalBytes' \in Nat /\ MaxBytes \in Nat
      BY <2>1, Tier1VictimsAreRows, EvictCounts, EvictionAssumption
    <3>5. ~(b - Bytes(t, V) <= MaxBytes)
      BY <3>1, <3>4
    <3>6. QED
      BY <2>1, <3>3, <3>5, Tier1SpendsBatch
  <2>2. ASSUME NEW i \in Ids, NEW c \in Contents, Set(i, c) PROVE SpendsBatch({i})
    <3>1. DOMAIN With(table, i, Written(i, c)) = DOMAIN table \cup {i}
      BY DEF With
    <3>2. QED
      BY <2>1, <2>2, <3>1, SetCounts DEF Set, SpendsBatch
  <2>3. ASSUME NEW resp \in Responses, RefreshAhead(resp) PROVE SpendsBatch(DOMAIN resp)
    <3>1. DOMAIN Prefetched(resp) = DOMAIN table \cup DOMAIN resp
      BY DEF Prefetched, Absent
    <3>2. QED
      BY <2>1, <2>3, <3>1, LandingCounts DEF RefreshAhead, SpendsBatch
  <2>4. QED
    BY <2>2, <2>3
<1>2. QED
  BY <1>1, SpecIInv, PTL DEF Spec, OvershootSpendsBatch

-----------------------------------------------------------------------------
\* What clients see of a table: the refinement mapping of `Table'.
View(t) == [i \in DOMAIN t |-> [content |-> t[i].content, synced |-> t[i].synced]]

\* Whatever a call, or a call that is killed, evicts, clients see a table with
\* fewer rows.
LEMMA FewerRowsSeen ==
  ASSUME NEW t, NEW V
  PROVE  View(Without(t, V)) \in Table!MemSubset(View(t))
<1>1. View(Without(t, V)) = Table!Keep(View(t), DOMAIN t \ V)
  BY DEF View, Without, Table!Keep
<1>2. DOMAIN t \ V \in SUBSET DOMAIN View(t)
  BY DEF View
<1>3. QED
  BY <1>1, <1>2 DEF Table!MemSubset

LEMMA EvictForgets ==
  ASSUME NEW t, NEW b, NEW Victims, Evict(t, b, Victims)
  PROVE  View(table') \in Table!MemSubset(View(t))
BY FewerRowsSeen DEF Evict

LEMMA SetIsAWrite ==
  ASSUME NEW i \in Ids, NEW c \in Contents, Set(i, c) \/ CrashInSet(i, c)
  PROVE  Table!Next
<1> DEFINE new == With(table, i, Written(i, c))
           m == View(table)
<1>1. View(new) = [j \in DOMAIN m \cup {i} |->
                     IF j = i THEN [content |-> c, synced |-> FALSE] ELSE m[j]]
  BY DEF View, With, Written
<1>2. View(table') \in Table!MemSubset(View(new))
  BY EvictForgets, FewerRowsSeen DEF Set, CrashInSet
<1>3. Table!Write(i, c)
  BY <1>1, <1>2 DEF View, Table!Write
<1>4. QED
  BY <1>3 DEF Table!Next

\* What is in when a landing is killed: the rows of resp, those of D unmarked.
LEMMA LandingIsAPrefetch ==
  ASSUME NEW resp \in Responses, RefreshAhead(resp) \/ CrashInLanding(resp)
  PROVE  Table!Next
<1> DEFINE new == Prefetched(resp)
           m == View(table)
           Seen(D) == [j \in DOMAIN m \cup DOMAIN resp |->
                         IF j \in DOMAIN m THEN m[j]
                         ELSE [content |-> resp[j], synced |-> j \notin D]]
<1>1. PICK S \in SUBSET Ids : resp \in [S -> Contents]
  BY DEF Responses
<1>2. \E D \in SUBSET DOMAIN resp :
        (\A i, j \in D : i = j) /\ View(table') \in Table!MemSubset(Seen(D))
  <2>1. CASE View(table') \in Table!MemSubset(View(new))
    <3>1. View(new) = Seen({})
      BY DEF View, Prefetched, Absent
    <3>2. View(table') \in Table!MemSubset(Seen({}))
      BY <2>1, <3>1
    <3> HIDE DEF m, Seen
    <3>3. {} \in SUBSET DOMAIN resp /\ \A i, j \in {} : i = j
      OBVIOUS
    <3>4. QED
      BY <3>2, <3>3
  <2>2. CASE \E d \in Absent(resp) : table' = [new EXCEPT ![d].synced = FALSE]
    <3>1. PICK d \in Absent(resp) : table' = [new EXCEPT ![d].synced = FALSE]
      BY <2>2
    <3>2. d \in DOMAIN resp /\ d \notin DOMAIN table
      BY DEF Absent
    <3>3. View(table') = Seen({d})
      <4>1. /\ DOMAIN table' = DOMAIN table \cup DOMAIN resp
            /\ \A j \in DOMAIN table : table'[j] = table[j]
            /\ \A j \in DOMAIN resp \ DOMAIN table :
                 table'[j].content = resp[j] /\ table'[j].synced = (j # d)
        BY <3>1, <3>2 DEF Prefetched, Absent
      <4>2. QED
        BY <4>1 DEF View
    <3>4. View(table') \in Table!MemSubset(View(table'))
      BY DEF Table!MemSubset, Table!Keep, View
    <3>5. QED
      BY <3>2, <3>3, <3>4
  <2>3. QED
    BY <2>1, <2>2, EvictForgets, FewerRowsSeen DEF RefreshAhead, CrashInLanding
<1>3. Table!Prefetch(resp)
  BY <1>2 DEF View, Table!Prefetch
<1>4. QED
  BY <1>1, <1>3 DEF Table!Next

\* A step of the cache is a step of the table, or changes nothing of it that
\* clients see.
LEMMA StepTable == TypeOK /\ [Next]_vars => [Table!Next]_(View(table))
<1> SUFFICES ASSUME TypeOK, [Next]_vars
             PROVE  Table!Next \/ View(table') = View(table)
  OBVIOUS
<1>1. ASSUME NEW i \in Ids, Delete(i) PROVE Table!Next
  BY <1>1, EvictForgets DEF Delete, View, Table!Forget, Table!Next
<1>2. CASE Compact \/ Tier2Tick \/ CrashInCompress
  <2>1. View(table') \in Table!MemSubset(View(table))
    BY <1>2, EvictForgets, FewerRowsSeen DEF Compact, Tier2Tick, Compress, CrashInCompress
  <2>2. QED
    BY <2>1 DEF View, Table!Forget, Table!Next
<1>3. ASSUME NEW i \in Ids, Get(i) PROVE View(table') = View(table)
  <2>1. /\ DOMAIN table' = DOMAIN table
        /\ \A j \in DOMAIN table : /\ table'[j].content = table[j].content
                                   /\ table'[j].synced = table[j].synced
    BY <1>3 DEF Get, TypeOK, Row
  <2>2. QED
    BY <2>1 DEF View
<1>4. ASSUME NEW S \in SUBSET Ids, MarkSynced(S) PROVE Table!Next
  <2>1. View(table') = [j \in DOMAIN View(table) |->
                          IF j \in S THEN [View(table)[j] EXCEPT !.synced = TRUE]
                          ELSE View(table)[j]]
    <3>1. /\ DOMAIN table' = DOMAIN table
          /\ \A j \in DOMAIN table :
               /\ table'[j].content = table[j].content
               /\ table'[j].synced = IF j \in S THEN TRUE ELSE table[j].synced
      BY <1>4 DEF MarkSynced, TypeOK, Row
    <3>2. QED
      BY <3>1 DEF View
  <2>2. Table!Acknowledge(S)
    BY <2>1 DEF View, Table!Acknowledge
  <2>3. QED
    BY <2>2 DEF Table!Next
<1>5. QED
  BY <1>1, <1>2, <1>3, <1>4, SetIsAWrite, LandingIsAPrefetch
     DEF Next, Tick, FetchFails, Close, CloseDb, Crash, Reopen, SetGoal, vars

\* To its clients the cache is a table of memories: whatever its tiers, timers,
\* prefetches and restarts do, a content is what was written last, stays dirty
\* until it is acknowledged, and is never replaced by a fetched one.
THEOREM CacheIsATable == Spec => ImplementsTable
<1>1. Init => Table!Init
  BY DEF Init, Table!Init, Table!MemSubset, Table!Keep
<1>2. IInv => TypeOK
  BY DEF IInv
<1>3. QED
  BY <1>1, <1>2, SpecIInv, StepTable, PTL DEF Spec, ImplementsTable, Table!Spec, View
-----------------------------------------------------------------------------
\* Rows were accessed at some time until now.
Past == \A i \in DOMAIN table : table[i].at <= now

LEMMA InitPast == Init => Past
BY DEF Init, Past

\* An eviction from a table of rows accessed until now leaves one.
LEMMA EvictKeepsPast ==
  ASSUME NEW t, \A i \in DOMAIN t : t[i].at <= now, NEW b, NEW Victims,
         Evict(t, b, Victims), now' = now
  PROVE  Past'
BY DEF Evict, Without, Past

LEMMA StepPast == TypeOK /\ Past /\ [Next]_vars => Past'
<1> SUFFICES ASSUME TypeOK, Past, [Next]_vars PROVE Past'
  OBVIOUS
<1>0. now \in Nat /\ \A i \in DOMAIN table : table[i].at \in Nat
  BY DEF TypeOK, Row
<1>1. CASE Tick
  BY <1>0, <1>1 DEF Tick, Past
<1>2. ASSUME NEW i \in Ids, NEW c \in Contents, Set(i, c) PROVE Past'
  <2> DEFINE new == With(table, i, Written(i, c))
  <2>1. \A j \in DOMAIN new : new[j].at <= now
    BY <1>0 DEF With, Written, Past
  <2>2. QED
    BY <1>2, <2>1, EvictKeepsPast DEF Set
<1>3. ASSUME NEW i \in Ids, Get(i) PROVE Past'
  <2>1. /\ DOMAIN table' = DOMAIN table /\ now' = now
        /\ \A j \in DOMAIN table : table'[j].at \in {now, table[j].at}
    BY <1>3 DEF Get, TypeOK, Row
  <2>2. QED
    BY <1>0, <2>1 DEF Past
<1>4. ASSUME NEW i \in Ids, Delete(i) PROVE Past'
  BY <1>4, EvictKeepsPast DEF Delete, Past
<1>5. CASE Compact \/ Tier2Tick
  BY <1>5, EvictKeepsPast DEF Compact, Tier2Tick, Compress, Past
<1>6. ASSUME NEW resp \in Responses, RefreshAhead(resp) PROVE Past'
  <2>1. \A j \in DOMAIN Prefetched(resp) : Prefetched(resp)[j].at <= now
    BY <1>0 DEF Prefetched, Past
  <2>2. QED
    BY <1>6, <2>1, EvictKeepsPast DEF RefreshAhead
<1>7. ASSUME NEW S \in SUBSET Ids, MarkSynced(S) PROVE Past'
  <2>1. /\ DOMAIN table' = DOMAIN table /\ now' = now
        /\ \A j \in DOMAIN table : table'[j].at = table[j].at
    BY <1>7 DEF MarkSynced, TypeOK, Row
  <2>2. QED
    BY <2>1 DEF Past
<1>8. CASE UNCHANGED <<table, now>>
  BY <1>8 DEF Past
<1>9. ASSUME NEW i \in Ids, NEW c \in Contents, CrashInSet(i, c) PROVE Past'
  BY <1>0, <1>9 DEF CrashInSet, Die, Without, With, Written, Past
<1>10. ASSUME NEW resp \in Responses, CrashInLanding(resp) PROVE Past'
  <2> DEFINE new == Prefetched(resp)
  <2>1. \A j \in DOMAIN new : new[j].at <= now
    BY <1>0 DEF Prefetched, Past
  <2>2. now' = now
    BY <1>10 DEF CrashInLanding, Die
  <2>3. CASE \E d \in Absent(resp) : table' = [new EXCEPT ![d].synced = FALSE]
    <3>1. DOMAIN table' = DOMAIN new /\ \A j \in DOMAIN new : table'[j].at = new[j].at
      BY <2>3 DEF Prefetched
    <3>2. QED
      BY <2>1, <2>2, <3>1 DEF Past
  <2>4. CASE \E V : table' = Without(new, V)
    BY <2>1, <2>2, <2>4 DEF Without, Past
  <2>5. QED
    BY <1>10, <2>3, <2>4 DEF CrashInLanding
<1>11. CASE CrashInCompress
  BY <1>11 DEF CrashInCompress, Die, Without, Past
<1>12. QED
  BY <1>1, <1>2, <1>3, <1>4, <1>5, <1>6, <1>7, <1>8, <1>9, <1>10, <1>11
     DEF Next, FetchFails, Close, CloseDb, Crash, Die, Reopen, SetGoal, vars

\* The utility ranking puts a dominated row first: no factor of it is greater.
LEMMA DominatedRanksFirst ==
  ASSUME TypeOK, Past, NEW v \in DOMAIN table, NEW s \in DOMAIN table, Dominates(v, s)
  PROVE  <<s, v>> \in UtilityOrder(table, now, goal)
<1> DEFINE near(i) == IF goal = NoGoal \/ Similarity[table[i].content][goal] < 1
                        THEN 1 ELSE Similarity[table[i].content][goal]
           nearS == near(s)
           nearV == near(v)
           hitsS == table[s].hits
           hitsV == table[v].hits
           worthS == Worth(table[s], goal)
           worthV == Worth(table[v], goal)
           ageS == Age(table[s], now)
           ageV == Age(table[v], now)
<1>1. /\ table[s] \in Row /\ table[v] \in Row
      /\ hitsS \in Nat /\ hitsV \in Nat /\ hitsS <= hitsV
  BY DEF TypeOK, Row, Dominates
<1>2. nearS \in Nat /\ nearV \in Nat
  BY <1>1, CacheAssumption DEF TypeOK, Row
<1>3. nearS <= nearV
  <2>1. /\ [table[s] EXCEPT !.hits = 0].content = table[s].content
        /\ [table[s] EXCEPT !.hits = 0].hits = 0
        /\ [table[v] EXCEPT !.hits = 0].content = table[v].content
        /\ [table[v] EXCEPT !.hits = 0].hits = 0
    BY <1>1 DEF Row
  <2>2. nearS * (0 + 1) <= nearV * (0 + 1)
    BY <2>1 DEF Dominates, Worth
  <2> HIDE DEF nearS, nearV
  <2>3. QED
    BY <1>2, <2>2
<1>4. worthS = nearS * (hitsS + 1) /\ worthV = nearV * (hitsV + 1)
  BY DEF Worth
<1>5. ageS \in Nat /\ ageV \in Nat /\ ageV <= ageS
  <2> DEFINE a == table[s].at
             b == table[v].at
  <2>1. a \in Nat /\ b \in Nat /\ a < b /\ b <= now /\ now \in Nat
    BY <1>1 DEF Row, Dominates, Past, TypeOK
  <2>2. ageS = (IF now - a < 1 THEN 1 ELSE now - a) /\ ageV = (IF now - b < 1 THEN 1 ELSE now - b)
    BY DEF Age
  <2> HIDE DEF a, b, ageS, ageV
  <2>3. QED
    BY <2>1, <2>2
<1> HIDE DEF near, nearS, nearV, hitsS, hitsV, worthS, worthV, ageS, ageV
<1>6. worthS \in Nat /\ worthV \in Nat /\ worthS <= worthV
  <2>1. hitsS + 1 \in Nat /\ hitsV + 1 \in Nat /\ hitsS + 1 <= hitsV + 1
    BY <1>1
  <2>2. QED
    BY <1>2, <1>3, <1>4, <2>1, ProductGrows
<1>7. worthS * ageV \in Nat /\ worthV * ageS \in Nat /\ worthS * ageV <= worthV * ageS
  BY <1>5, <1>6, ProductGrows
<1>8. \/ Worth(table[s], goal) * Age(table[v], now) < Worth(table[v], goal) * Age(table[s], now)
      \/ Worth(table[s], goal) * Age(table[v], now) = Worth(table[v], goal) * Age(table[s], now)
  <2>1. worthS * ageV < worthV * ageS \/ worthS * ageV = worthV * ageS
    BY <1>7
  <2>2. QED
    BY <2>1 DEF worthS, worthV, ageS, ageV
<1>9. QED
  BY <1>8 DEF UtilityOrder, Dominates

\* What tier 2 and tier 1 take along with a row of the table.
LEMMA CompressTakesDominated ==
  ASSUME TypeOK, Past, Compress, NEW v \in DOMAIN table \ DOMAIN table',
         NEW s \in DOMAIN table, Dominates(v, s)
  PROVE  s \notin DOMAIN table'
<1>1. PICK V \in Tier2Victims(table, totalBytes, now, goal) : table' = Without(table, V)
  BY DEF Compress, Evict
<1>2. DOMAIN table' = DOMAIN table \ V /\ v \in V
  BY <1>1 DEF Without
<1>3. PICK C \in FirstRows(DOMAIN table, ScanRows, AgeOrder(table)) :
        V \in Drained(table, C, UtilityOrder(table, now, goal), totalBytes)
  BY <1>2 DEF Tier2Victims
<1>4. v \in C
  BY <1>2, <1>3 DEF Drained
<1>5. <<s, v>> \in AgeOrder(table)
  BY DEF AgeOrder, Dominates, TypeOK, Row
<1>6. s \in C
  BY <1>3, <1>4, <1>5, FirstRowsComeFirst
<1>7. <<s, v>> \in UtilityOrder(table, now, goal)
  BY DominatedRanksFirst
<1>8. s \in V
  BY <1>2, <1>3, <1>6, <1>7, DrainedComeFirst
<1>9. QED
  BY <1>2, <1>8

LEMMA PruneTakesDominated ==
  ASSUME TypeOK, NEW t, \A i \in DOMAIN t : t[i].at \in Nat, NEW b,
         Evict(t, b, Tier1Victims(t, b, now)),
         NEW v \in DOMAIN t \ DOMAIN table', NEW s \in DOMAIN t, t[s].at < t[v].at
  PROVE  s \notin DOMAIN table'
<1>1. PICK V \in Tier1Victims(t, b, now) : table' = Without(t, V)
  BY DEF Evict
<1>2. DOMAIN table' = DOMAIN t \ V /\ v \in V
  BY <1>1 DEF Without
<1>3. s \in V
  BY <1>2, Tier1TakesOlderFirst DEF TypeOK
<1>4. QED
  BY <1>2, <1>3

\* A fresher, no less used and no less relevant memory outlives a dominated one:
\* both tiers go by their orders, the floors of the utility reverse none, and
\* neither limit of a scan lets a dominated row escape it.
THEOREM BetterRowsOutliveWorse == Spec => DominatedGoFirst
<1>1. TypeOK /\ Past => [SparesNoWorse]_vars
  <2> SUFFICES ASSUME TypeOK, Past, NEW v \in DOMAIN table \ DOMAIN table',
                      NEW s \in DOMAIN table \cap DOMAIN table',
                      table'[s] = table[s], Dominates(v, s), Evicting
               PROVE  FALSE
    BY DEF SparesNoWorse
  <2>0. /\ now \in Nat /\ table[v].at <= now
        /\ \A i \in DOMAIN table : table[i].at \in Nat
        /\ table[s].at < table[v].at
    BY DEF TypeOK, Row, Past, Dominates
  <2>1. CASE Compress
    BY <2>1, CompressTakesDominated
  <2>2. ASSUME NEW i \in Ids, NEW c \in Contents, Set(i, c) PROVE FALSE
    <3> DEFINE new == With(table, i, Written(i, c))
               total == totalBytes + SizeChange(i, c)
    <3>1. Evict(new, total, Tier1Victims(new, total, now))
      BY <2>2 DEF Set
    <3>2. \A j \in DOMAIN new : new[j].at \in Nat
      BY <2>0 DEF With, Written
    <3>3. new[s] = table[s] /\ s \in DOMAIN new
      BY <3>1 DEF Evict, Without, With
    <3>4. v \in DOMAIN new /\ new[v].at \in {table[v].at, now}
      BY DEF With, Written
    <3>5. new[s].at < new[v].at
      BY <2>0, <3>3, <3>4
    <3> HIDE DEF new, total
    <3>6. QED
      BY <3>1, <3>2, <3>3, <3>4, <3>5, PruneTakesDominated
  <2>3. ASSUME NEW resp \in Responses, RefreshAhead(resp) PROVE FALSE
    <3> DEFINE new == Prefetched(resp)
               total == totalBytes + Bytes(new, Absent(resp))
    <3>1. Evict(new, total, Tier1Victims(new, total, now))
      BY <2>3 DEF RefreshAhead
    <3>2. \A j \in DOMAIN new : new[j].at \in Nat
      BY <2>0 DEF Prefetched
    <3>3. \A j \in DOMAIN table : j \in DOMAIN new /\ new[j] = table[j]
      BY DEF Prefetched, Absent
    <3> HIDE DEF new, total
    <3>4. new[s].at < new[v].at
      BY <2>0, <3>3
    <3>5. QED
      BY <3>1, <3>2, <3>3, <3>4, PruneTakesDominated
  <2>4. QED
    BY <2>1, <2>2, <2>3 DEF Evicting
<1>2. IInv => TypeOK
  BY DEF IInv
<1>3. QED
  BY <1>1, <1>2, InitPast, StepPast, SpecIInv, PTL DEF Spec, DominatedGoFirst
-----------------------------------------------------------------------------
\* Above the target tier 2 deletes something, and stops short of it only when it
\* has deleted all the rows it may scan.
LEMMA Tier2Recedes ==
  ASSUME NEW t, NEW b, Counted(t, b), b > Target, NEW time, NEW g,
         NEW V \in Tier2Victims(t, b, time, g)
  PROVE  /\ Bytes(t, V) > 0
         /\ b - Bytes(t, V) <= Target \/ Cardinality(V) >= ScanRows
<1> DEFINE rows == DOMAIN t
<1>1. Sized(t, rows) /\ b \in Nat /\ b = Bytes(t, rows)
  BY TableIsSized, BytesType DEF Counted, Typed
<1>2. Target \in Nat
  BY EvictionAssumption DEF Target
<1>3. V \in SUBSET rows /\ Bytes(t, V) \in Nat
  BY <1>1, Tier2VictimsAreRows, BytesWithout
<1>4. ~(b <= Target)
  BY <1>1, <1>2
<1>5. PICK C \in FirstRows(rows, ScanRows, AgeOrder(t)) :
        V \in Drained(t, C, UtilityOrder(t, time, g), b)
  BY <1>4 DEF Tier2Victims
<1>6. V \subseteq C /\ C \subseteq rows /\ (V = C \/ b - Bytes(t, V) <= Target)
  BY <1>5 DEF Drained, FirstRows
<1>7. Bytes(t, {}) = 0
  BY FS_EmptySet DEF Bytes, Cells
<1>8. IsFiniteSet(rows) /\ IsFiniteSet(C) /\ Cardinality(rows) \in Nat
  BY <1>1, <1>6, FS_Subset, FS_CardinalityType DEF Sized
<1>9. Cardinality(C) = IF Cardinality(rows) < ScanRows THEN Cardinality(rows) ELSE ScanRows
  BY <1>5 DEF FirstRows
<1>10. V # {}
  <2> SUFFICES ASSUME V = {} PROVE FALSE
    OBVIOUS
  <2>1. ~(b - Bytes(t, V) <= Target)
    BY <1>1, <1>4, <1>7
  <2>2. C = {}
    BY <1>6, <2>1
  <2>3. Cardinality(C) = 0
    BY <2>2, FS_EmptySet
  <2>4. Cardinality(rows) = 0
    BY <1>8, <1>9, <2>3, EvictionAssumption
  <2>5. rows = {}
    BY <1>8, <2>4, FS_EmptySet
  <2>6. QED
    BY <1>1, <1>2, <1>4, <1>7, <2>5
<1>11. Bytes(t, V) > 0
  <2>1. PICK v \in V : TRUE
    BY <1>10
  <2>2. Sized(t, V)
    BY <1>1, <1>3, FS_Subset DEF Sized
  <2>3. Bytes(t, V) = Bytes(t, {v}) + Bytes(t, V \ {v})
    BY <2>2, BytesSplit
  <2>4. Bytes(t, {v}) = t[v].size /\ t[v].size \in Nat \ {0}
    BY <1>3, BytesOfOne DEF Counted, Typed, Row
  <2>5. Bytes(t, V \ {v}) \in Nat
    BY <1>1, <1>3, BytesWithout
  <2>6. QED
    BY <2>3, <2>4, <2>5
<1>12. ASSUME ~(b - Bytes(t, V) <= Target) PROVE Cardinality(V) >= ScanRows
  <2>1. V = C
    BY <1>6, <1>12
  <2>2. CASE Cardinality(rows) < ScanRows
    <3>1. C = rows
      BY <1>6, <1>8, <1>9, <2>2, FS_Subset
    <3>2. QED
      BY <1>1, <1>2, <1>12, <2>1, <3>1
  <2>3. CASE ~(Cardinality(rows) < ScanRows)
    BY <1>9, <2>1, <2>3, EvictionAssumption
  <2>4. QED
    BY <2>2, <2>3
<1>13. QED
  BY <1>1, <1>3, <1>11, <1>12

\* The ranking argument of recovery: whatever the goal, the hits and the ages,
\* each pass of tier 2 above the target gives bytes back, and reaches the target
\* unless it has deleted all of the rows that it may scan.
THEOREM PassesGiveBytesBack == Spec => []PassesRecede
<1>1. IInv => PassesRecede
  <2> SUFFICES ASSUME IInv, DbOpen, totalBytes > Target,
                      NEW V \in Tier2Victims(table, totalBytes, now, goal)
               PROVE  /\ Bytes(table, V) > 0
                      /\ totalBytes - Bytes(table, V) <= Target \/ Cardinality(V) >= ScanRows
    BY DEF PassesRecede
  <2>1. Counted(table, totalBytes)
    BY DEF IInv, TypeOK, ByteAccounting, DbOpen, Typed, Counted
  <2>2. QED
    BY <2>1, Tier2Recedes
<1>2. QED
  BY <1>1, SpecIInv, PTL
=============================================================================
