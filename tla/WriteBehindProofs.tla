------------------------- MODULE WriteBehindProofs --------------------------
(* The write path for any number of ids and handlers, any batch size,       *)
(* failures, crashes and prefetches: its types, that a row marked as synced *)
(* is stored centrally, and the only ways in which a write is lost and in   *)
(* which the central table goes back.                                       *)
EXTENDS WriteBehind, FiniteSetTheorems, SequenceTheorems, TLAPS

\* A list of different rows, and the rows of it.
Listing(s) ==
  /\ \E n \in Nat : DOMAIN s = 1 .. n
  /\ \A j, k \in DOMAIN s : s[j] = s[k] => j = k

Listed(s) == {s[k] : k \in DOMAIN s}

\* The order of the rows stays a total one when some of them are accessed, come
\* in or go.
LEMMA TouchedRanks ==
  ASSUME NEW o, NEW D, Ranks(o, D), NEW E, NEW s, Listing(s), E \subseteq D \cup Listed(s)
  PROVE  Ranks(Touched(o, E, s), E)
<1>0. PICK n \in Nat : DOMAIN s = 1 .. n
  BY DEF Listing
<1> DEFINE new == {s[k] : k \in DOMAIN s}
           Later(i, j) == \E k, l \in DOMAIN s : k < l /\ s[k] = i /\ s[l] = j
           u == Touched(o, E, s)
<1>1. u \subseteq E \X E
  BY DEF Touched
<1>2. \A i, j \in E : <<i, j>> \in u <=> IF j \in new THEN i \notin new \/ Later(i, j)
                                        ELSE i \notin new /\ <<i, j>> \in o
  BY DEF Touched
<1>3. \A i, j \in new : Later(i, j) <=> i # j /\ ~Later(j, i)
  <2> SUFFICES ASSUME NEW a \in DOMAIN s, NEW b \in DOMAIN s
               PROVE  Later(s[a], s[b]) <=> s[a] # s[b] /\ ~Later(s[b], s[a])
    OBVIOUS
  <2>1. \A c, d \in DOMAIN s : Later(s[c], s[d]) <=> c < d
    BY DEF Listing
  <2>2. a \in Int /\ b \in Int /\ (s[a] = s[b] <=> a = b)
    BY <1>0 DEF Listing
  <2> HIDE DEF Later
  <2>3. QED
    BY <2>1, <2>2
<1>4. \A i, j, k \in new : Later(i, j) /\ Later(j, k) => Later(i, k)
  <2> SUFFICES ASSUME NEW a \in DOMAIN s, NEW b \in DOMAIN s, NEW c \in DOMAIN s,
                      Later(s[a], s[b]), Later(s[b], s[c])
               PROVE  Later(s[a], s[c])
    OBVIOUS
  <2>1. \A d, e \in DOMAIN s : Later(s[d], s[e]) <=> d < e
    BY DEF Listing
  <2>2. a \in Int /\ b \in Int /\ c \in Int
    BY <1>0
  <2> HIDE DEF Later
  <2>3. QED
    BY <2>1, <2>2
<1>5. \A i \in E : i \in new \/ i \in D
  BY DEF Listed
<1> HIDE DEF new, Later, u
<1>6. \A i, j \in E : <<i, j>> \in u <=> i # j /\ <<j, i>> \notin u
  BY <1>2, <1>3, <1>5 DEF Ranks
<1>7. \A i, j, k \in E : <<i, j>> \in u /\ <<j, k>> \in u => <<i, k>> \in u
  BY <1>2, <1>4, <1>5 DEF Ranks
<1>8. QED
  BY <1>1, <1>6, <1>7 DEF Ranks, u

LEMMA InsertionsList == ASSUME NEW s \in Insertions PROVE Listing(s)
<1>1. PICK n \in 0 .. RefreshK : s \in [1 .. n -> Ids]
  BY DEF Insertions
<1>2. QED
  BY <1>1, WriteBehindAssumption DEF Insertions, Listing

-----------------------------------------------------------------------------
\* The parts of the type invariant.
MemOK ==
  /\ DOMAIN mem \subseteq Ids
  /\ \A i \in DOMAIN mem : mem[i] \in [content : Versions, synced : BOOLEAN]
  /\ Ranks(older, DOMAIN mem)

JobsOK ==
  /\ queue \in Seq(Job)
  /\ DOMAIN slot = Workers
  /\ \A w \in Workers :
       \/ slot[w] = Idle
       \/ /\ slot[w].pc \in {"writing", "committed"}
          /\ slot[w].job \in Job
          /\ IsSnapshot(slot[w].snap)

StoresOK == IsSnapshot(remote) /\ IsSnapshot(fetch)

CountsOK ==
  /\ last \in 0 .. MaxWrites
  /\ failures \in Nat /\ crashes \in Nat
  /\ up \in BOOLEAN
  /\ stale \subseteq Versions

CrossedOK == crossed \in [Workers -> SUBSET Ids]

LEMMA TypeParts == TypeOK <=> MemOK /\ JobsOK /\ StoresOK /\ CountsOK /\ CrossedOK
BY DEF TypeOK, MemOK, JobsOK, StoresOK, CountsOK, CrossedOK

LEMMA InitTypeOK == Init => TypeOK
<1> SUFFICES ASSUME Init PROVE TypeOK
  OBVIOUS
<1>1. MemOK
  BY DEF Init, MemOK, Empty, Ranks
<1>2. JobsOK
  BY DEF Init, JobsOK
<1>3. StoresOK /\ CountsOK /\ CrossedOK
  BY WriteBehindAssumption DEF Init, StoresOK, CountsOK, CrossedOK, IsSnapshot, Empty
<1>4. QED
  BY <1>1, <1>2, <1>3, TypeParts

\* One row is accessed, and some may go.
LEMMA OneTouched ==
  ASSUME NEW o, NEW D, Ranks(o, D), NEW i, NEW E, E \subseteq D \cup {i}
  PROVE  Ranks(Touched(o, E, <<i>>), E)
<1>1. Listing(<<i>>) /\ Listed(<<i>>) = {i}
  BY DEF Listing, Listed
<1>2. QED
  BY <1>1, TouchedRanks

\* Rows go, and none is accessed.
LEMMA NoneTouched ==
  ASSUME NEW o, NEW D, Ranks(o, D), NEW E \in SUBSET D
  PROVE  Ranks(Touched(o, E, <<>>), E)
<1>1. Listing(<<>>) /\ Listed(<<>>) = {}
  BY DEF Listing, Listed
<1>2. QED
  BY <1>1, TouchedRanks

\* What the cache keeps of well-formed rows is well-formed.
LEMMA KeepTyped ==
  ASSUME NEW m, NEW V, DOMAIN m \subseteq Ids,
         \A i \in DOMAIN m : m[i] \in [content : Versions, synced : BOOLEAN]
  PROVE  /\ DOMAIN Keep(m, V) = DOMAIN m \ V
         /\ DOMAIN Keep(m, V) \subseteq Ids
         /\ \A i \in DOMAIN Keep(m, V) :
              Keep(m, V)[i] \in [content : Versions, synced : BOOLEAN]
BY DEF Keep

LEMMA StepMemOK == TypeOK /\ [Next]_vars => MemOK'
<1> SUFFICES ASSUME TypeOK, [Next]_vars PROVE MemOK'
  OBVIOUS
<1>0. MemOK /\ IsSnapshot(fetch)
  BY TypeParts DEF StoresOK
<1>1. ASSUME NEW i \in Ids, NEW V \in SUBSET Ids, Set(i, V) PROVE MemOK'
  <2> DEFINE m == [j \in DOMAIN mem \cup {i} |->
                     IF j = i THEN [content |-> last + 1, synced |-> FALSE] ELSE mem[j]]
  <2>1. last + 1 \in Versions
    BY <1>1, WriteBehindAssumption DEF Set, TypeOK, Versions
  <2>2. /\ DOMAIN m = DOMAIN mem \cup {i} /\ DOMAIN m \subseteq Ids
        /\ \A j \in DOMAIN m : m[j] \in [content : Versions, synced : BOOLEAN]
    BY <1>0, <2>1 DEF MemOK
  <2>3. mem' = Keep(m, V) /\ older' = Touched(older, DOMAIN mem', <<i>>)
    BY <1>1 DEF Set
  <2> HIDE DEF m
  <2>4. /\ DOMAIN mem' = DOMAIN m \ V /\ DOMAIN mem' \subseteq Ids
        /\ \A j \in DOMAIN mem' : mem'[j] \in [content : Versions, synced : BOOLEAN]
    BY <2>2, <2>3, KeepTyped
  <2>5. Ranks(older', DOMAIN mem')
    BY <1>0, <2>2, <2>3, <2>4, OneTouched DEF MemOK
  <2>6. QED
    BY <2>4, <2>5 DEF MemOK
<1>2. ASSUME NEW i \in Ids, Get(i) PROVE MemOK'
  BY <1>0, <1>2, OneTouched DEF Get, MemOK
<1>3. ASSUME NEW V \in SUBSET Ids, Forget(V) PROVE MemOK'
  <2>1. mem' = Keep(mem, V) /\ older' = Touched(older, DOMAIN mem', <<>>)
    BY <1>3 DEF Forget
  <2>2. /\ DOMAIN mem' = DOMAIN mem \ V /\ DOMAIN mem' \subseteq Ids
        /\ \A j \in DOMAIN mem' : mem'[j] \in [content : Versions, synced : BOOLEAN]
    BY <1>0, <2>1, KeepTyped DEF MemOK
  <2>3. QED
    BY <1>0, <2>1, <2>2, NoneTouched DEF MemOK
<1>4. ASSUME NEW s \in Insertions, NEW V \in SUBSET Ids, FinishFetch(s, V) PROVE MemOK'
  <2>1. /\ DOMAIN Landed = DOMAIN mem \cup DOMAIN fetch /\ DOMAIN Landed \subseteq Ids
        /\ \A i \in DOMAIN Landed : Landed[i] \in [content : Versions, synced : BOOLEAN]
    BY <1>0 DEF Landed, MemOK, IsSnapshot
  <2>2. /\ mem' = Keep(Landed, V) /\ older' = Touched(older, DOMAIN mem', s)
        /\ {s[k] : k \in DOMAIN s} = DOMAIN fetch \ DOMAIN mem
    BY <1>4 DEF FinishFetch
  <2>3. /\ DOMAIN mem' = DOMAIN Landed \ V /\ DOMAIN mem' \subseteq Ids
        /\ \A j \in DOMAIN mem' : mem'[j] \in [content : Versions, synced : BOOLEAN]
    BY <2>1, <2>2, KeepTyped
  <2>4. ASSUME NEW E, E = DOMAIN mem' PROVE Ranks(Touched(older, E, s), E)
    <3>1. E \subseteq DOMAIN mem \cup Listed(s)
      BY <2>1, <2>2, <2>3, <2>4 DEF Listed
    <3>2. Ranks(older, DOMAIN mem)
      BY <1>0 DEF MemOK
    <3>3. QED
      BY <3>1, <3>2, InsertionsList, TouchedRanks
  <2>5. QED
    BY <2>2, <2>3, <2>4 DEF MemOK
<1>5. ASSUME NEW s \in Insertions, CrashLanding(s) PROVE MemOK'
  <2> DEFINE I == {s[k] : k \in DOMAIN s}
  <2>1. I \subseteq DOMAIN fetch /\ older' = Touched(older, DOMAIN mem', s)
    BY <1>5 DEF CrashLanding
  <2>2. PICK D : mem' = LandedPart(I, D)
    BY <1>5, Zenon DEF CrashLanding
  <2>3. /\ DOMAIN mem' = DOMAIN mem \cup I /\ DOMAIN mem' \subseteq Ids
        /\ \A i \in DOMAIN mem' : mem'[i] \in [content : Versions, synced : BOOLEAN]
    BY <1>0, <2>1, <2>2 DEF LandedPart, MemOK, IsSnapshot
  <2>4. ASSUME NEW E, E = DOMAIN mem' PROVE Ranks(Touched(older, E, s), E)
    <3>1. E \subseteq DOMAIN mem \cup Listed(s)
      BY <2>3, <2>4 DEF Listed
    <3>2. Ranks(older, DOMAIN mem)
      BY <1>0 DEF MemOK
    <3>3. QED
      BY <3>1, <3>2, InsertionsList, TouchedRanks
  <2>5. QED
    BY <2>1, <2>3, <2>4 DEF MemOK
<1>6. ASSUME NEW w \in Workers, Mark(w) PROVE MemOK'
  <2>1. DOMAIN mem' = DOMAIN mem /\ older' = older
    BY <1>6 DEF Mark
  <2>2. \A i \in DOMAIN mem' : mem'[i] \in [content : Versions, synced : BOOLEAN]
    BY <1>0, <1>6 DEF Mark, MemOK
  <2>3. QED
    BY <1>0, <2>1, <2>2 DEF MemOK
<1>7. CASE UNCHANGED <<mem, older>>
  BY <1>0, <1>7 DEF MemOK
<1>8. QED
  BY <1>1, <1>2, <1>3, <1>4, <1>5, <1>6, <1>7
     DEF Next, Work, vars, Poll, FetchFails, Stop, Restart, StartFetch, Begin, Commit,
         WriteFails, WorkerCrash

\* Jobs are made of ids of rows, and handlers hold what they have read of them.
LEMMA StepJobsOK == TypeOK /\ [Next]_vars => JobsOK'
<1> SUFFICES ASSUME TypeOK, [Next]_vars PROVE JobsOK'
  OBVIOUS
<1>0. JobsOK /\ MemOK
  BY TypeParts
<1>1. CASE Poll
  <2>1. [ids |-> DirtyBatch, tries |-> 0] \in Job
    BY <1>0 DEF DirtyBatch, Oldest, MemOK, Job
  <2>2. queue' \in Seq(Job)
    BY <1>0, <1>1, <2>1, AppendProperties DEF Poll, JobsOK
  <2>3. QED
    BY <1>0, <1>1, <2>2 DEF Poll, JobsOK, IsSnapshot
<1>2. ASSUME NEW w \in Workers, Begin(w) PROVE JobsOK'
  <2> DEFINE job == Head(queue)
             rows == ReadRows(job.ids)
  <2>1. job \in Job /\ queue' \in Seq(Job)
    BY <1>0, <1>2, HeadTailProperties DEF Begin, JobsOK
  <2>2. IsSnapshot(rows)
    BY <1>0 DEF ReadRows, IsSnapshot, MemOK
  <2>3. slot' = slot \/ slot' = [slot EXCEPT ![w] = [pc |-> "writing", job |-> job, snap |-> rows]]
    BY <1>2 DEF Begin
  <2> HIDE DEF job, rows
  <2>4. QED
    BY <1>0, <2>1, <2>2, <2>3 DEF JobsOK, IsSnapshot, Idle
<1>3. ASSUME NEW w \in Workers, Commit(w) PROVE JobsOK'
  BY <1>0, <1>3 DEF Commit, JobsOK, IsSnapshot, Idle
<1>4. ASSUME NEW w \in Workers, slot[w].pc # "idle" PROVE slot[w].job \in Job
  BY <1>0, <1>4 DEF JobsOK, Idle
<1>5. ASSUME NEW w \in Workers, WriteFails(w) PROVE JobsOK'
  <2> DEFINE job == slot[w].job
  <2>1. job \in Job
    BY <1>4, <1>5 DEF WriteFails
  <2>2. [job EXCEPT !.tries = @ + 1] \in Job
    BY <2>1 DEF Job
  <2>3. Requeued(job) \in Seq(Job)
    BY <1>0, <2>1, <2>2, AppendProperties DEF Requeued, JobsOK
  <2>4. queue' = Requeued(job) /\ slot' = [slot EXCEPT ![w] = Idle]
    BY <1>5 DEF WriteFails
  <2> HIDE DEF job
  <2>5. QED
    BY <1>0, <2>3, <2>4 DEF JobsOK, IsSnapshot
<1>6. ASSUME NEW w \in Workers, Mark(w) PROVE JobsOK'
  BY <1>0, <1>6 DEF Mark, JobsOK, IsSnapshot
<1>7. ASSUME NEW w \in Workers, WorkerCrash(w) PROVE JobsOK'
  <2>1. queue' \in Seq(Job)
    BY <1>0, <1>4, <1>7, AppendProperties DEF WorkerCrash, JobsOK
  <2>2. QED
    BY <1>0, <1>7, <2>1 DEF WorkerCrash, JobsOK, IsSnapshot
<1>8. CASE UNCHANGED <<queue, slot>>
  BY <1>0, <1>8 DEF JobsOK, IsSnapshot
<1>9. QED
  BY <1>1, <1>2, <1>3, <1>5, <1>6, <1>7, <1>8
     DEF Next, Work, vars, FetchFails, Stop, Restart, Get, Set, Forget, StartFetch,
         FinishFetch, CrashLanding

LEMMA StepStoresOK == TypeOK /\ [Next]_vars => StoresOK'
<1> SUFFICES ASSUME TypeOK, [Next]_vars PROVE StoresOK'
  OBVIOUS
<1>0. StoresOK /\ JobsOK
  BY TypeParts
<1>1. ASSUME NEW w \in Workers, Commit(w) \/ WriteFails(w) PROVE StoresOK'
  <2>1. IsSnapshot(slot[w].snap)
    BY <1>0, <1>1 DEF Commit, WriteFails, JobsOK, Idle
  <2>2. IsSnapshot(Upserted(w))
    BY <1>0, <2>1 DEF Upserted, IsSnapshot, StoresOK
  <2>3. (remote' = remote \/ remote' = Upserted(w)) /\ fetch' = fetch
    BY <1>1 DEF Commit, WriteFails
  <2>4. QED
    BY <1>0, <2>2, <2>3 DEF StoresOK, IsSnapshot
<1>2. ASSUME NEW S \in SUBSET Ids, StartFetch(S) PROVE StoresOK'
  BY <1>0, <1>2 DEF StartFetch, StoresOK, IsSnapshot
<1>3. CASE remote' = remote /\ fetch' \in {fetch, Empty}
  BY <1>0, <1>3 DEF StoresOK, IsSnapshot, Empty
<1>4. QED
  BY <1>1, <1>2, <1>3
     DEF Next, Work, vars, Poll, FetchFails, Stop, Restart, Get, Set, Forget, FinishFetch,
         CrashLanding, Begin, Mark, WorkerCrash

\* What a fetch brings are versions somebody wrote, overtaken or not.
LEMMA StepCountsOK == TypeOK /\ [Next]_vars => CountsOK'
<1> SUFFICES ASSUME TypeOK, [Next]_vars PROVE CountsOK'
  OBVIOUS
<1>0. CountsOK /\ StoresOK
  BY TypeParts
<1>1. ASSUME NEW I, I \subseteq DOMAIN fetch PROVE Overtaken(I) \subseteq Versions
  BY <1>0, <1>1 DEF Overtaken, StoresOK, IsSnapshot
<1>2. ASSUME NEW i \in Ids, NEW V \in SUBSET Ids, Set(i, V) PROVE CountsOK'
  BY <1>0, <1>2, WriteBehindAssumption DEF Set, CountsOK
<1>3. ASSUME NEW s, NEW V, FinishFetch(s, V) PROVE CountsOK'
  <2> DEFINE I == {s[k] : k \in DOMAIN s}
  <2>1. Overtaken(I) \subseteq Versions
    BY <1>1, <1>3 DEF FinishFetch
  <2>2. stale' = stale \cup Overtaken(I) /\ UNCHANGED <<last, failures, crashes, up>>
    BY <1>3 DEF FinishFetch
  <2>3. stale' \subseteq Versions
    BY <1>0, <2>1, <2>2, Zenon DEF CountsOK
  <2>4. QED
    BY <1>0, <2>2, <2>3 DEF CountsOK
<1>4. ASSUME NEW s, CrashLanding(s) PROVE CountsOK'
  <2> DEFINE I == {s[k] : k \in DOMAIN s}
  <2>1. Overtaken(I) \subseteq Versions
    BY <1>1, <1>4 DEF CrashLanding
  <2>2. /\ stale' = stale \cup Overtaken(I) /\ UNCHANGED <<last, failures>>
        /\ crashes' = crashes + 1
    BY <1>4 DEF CrashLanding
  <2>3. stale' \subseteq Versions /\ up' \in BOOLEAN
    BY <1>0, <1>4, <2>1, <2>2, Zenon DEF CrashLanding, CountsOK
  <2>4. QED
    BY <1>0, <2>2, <2>3 DEF CountsOK
<1>5. ASSUME NEW w \in Workers, WriteFails(w) PROVE CountsOK'
  BY <1>0, <1>5 DEF WriteFails, CountsOK
<1>6. ASSUME NEW w \in Workers, WorkerCrash(w) PROVE CountsOK'
  BY <1>0, <1>6 DEF WorkerCrash, CountsOK
<1>7. CASE Stop \/ Restart
  <2>1. up' \in BOOLEAN
    BY <1>7, Zenon DEF Stop, Restart
  <2>2. UNCHANGED <<last, failures, stale>> /\ crashes' \in {crashes, crashes + 1}
    BY <1>7 DEF Stop, Restart
  <2>3. QED
    BY <1>0, <2>1, <2>2 DEF CountsOK
<1>8. CASE UNCHANGED <<last, failures, crashes, up, stale>>
  BY <1>0, <1>8 DEF CountsOK
<1>9. QED
  BY <1>2, <1>3, <1>4, <1>5, <1>6, <1>7, <1>8
     DEF Next, Work, vars, Poll, FetchFails, Get, Forget, StartFetch, Begin, Commit, Mark

\* The rows of a handler that others have stored over are rows.
LEMMA StepCrossedOK == TypeOK /\ [Next]_vars => CrossedOK'
<1> SUFFICES ASSUME TypeOK, [Next]_vars PROVE CrossedOK'
  OBVIOUS
<1>0. CrossedOK /\ JobsOK
  BY TypeParts
<1>1. ASSUME NEW w \in Workers, slot[w].pc = "writing" PROVE Crossing(w) \in [Workers -> SUBSET Ids]
  <2>1. DOMAIN slot[w].snap \subseteq Ids
    BY <1>0, <1>1 DEF JobsOK, Idle, IsSnapshot
  <2>2. QED
    BY <1>0, <2>1 DEF Crossing, CrossedOK
<1>2. ASSUME NEW w \in Workers, Commit(w) \/ WriteFails(w) PROVE CrossedOK'
  <2>1. crossed' = Crossing(w) \/ crossed' = [crossed EXCEPT ![w] = {}]
    BY <1>2 DEF Commit, WriteFails
  <2>2. slot[w].pc = "writing"
    BY <1>2 DEF Commit, WriteFails
  <2>3. QED
    BY <1>0, <1>1, <2>1, <2>2 DEF CrossedOK
<1>3. ASSUME NEW w \in Workers, Begin(w) \/ Mark(w) \/ WorkerCrash(w) PROVE CrossedOK'
  BY <1>0, <1>3 DEF Begin, Mark, WorkerCrash, CrossedOK
<1>4. CASE crossed' = crossed
  BY <1>0, <1>4 DEF CrossedOK
<1>5. QED
  BY <1>2, <1>3, <1>4
     DEF Next, Work, vars, Poll, FetchFails, Stop, Restart, Get, Set, Forget, StartFetch,
         FinishFetch, CrashLanding

\* The types: above all, that the recency of the rows ranks each two of them
\* after any accesses, evictions and landings, on which the batches rest, and
\* that snapshots, fetches and tables hold versions that were written.
THEOREM TypeCorrect == Spec => []TypeOK
<1>1. TypeOK /\ [Next]_vars => TypeOK'
  BY StepMemOK, StepJobsOK, StepStoresOK, StepCountsOK, StepCrossedOK, TypeParts
     DEF TypeOK, MemOK, JobsOK, StoresOK, CountsOK, CrossedOK
<1>2. QED
  BY <1>1, InitTypeOK, PTL DEF Spec
-----------------------------------------------------------------------------
\* LIMIT: of rows that are ranked, Oldest takes BatchSize, or all if there are
\* not so many.
LEMMA OldestHasSize ==
  ASSUME NEW D, Ranks(older, D), NEW I \in SUBSET D, IsFiniteSet(I)
  PROVE  Cardinality(Oldest(I)) = IF Cardinality(I) < BatchSize THEN Cardinality(I) ELSE BatchSize
<1> DEFINE Below(i) == {j \in I : <<j, i>> \in older}
           n == Cardinality(I)
           m == IF n < BatchSize THEN n ELSE BatchSize
           rank == [i \in I |-> Cardinality(Below(i))]
           O == Oldest(I)
           cut == [i \in O |-> rank[i]]
<1>1. n \in Nat /\ BatchSize \in Nat /\ m \in Nat /\ m <= n
  BY FS_CardinalityType, WriteBehindAssumption
<1>2. ASSUME NEW i \in I PROVE IsFiniteSet(Below(i)) /\ rank[i] \in Nat /\ rank[i] < n
  <2>1. i \notin Below(i)
    BY DEF Ranks
  <2>2. IsFiniteSet(Below(i)) /\ Cardinality(Below(i)) \in Nat
    BY FS_Subset, FS_CardinalityType
  <2>3. Cardinality(Below(i) \cup {i}) = Cardinality(Below(i)) + 1
    BY <2>1, <2>2, FS_AddElement
  <2>4. Cardinality(Below(i) \cup {i}) <= n
    BY Below(i) \cup {i} \in SUBSET I, FS_Subset
  <2>5. rank[i] = Cardinality(Below(i))
    OBVIOUS
  <2> HIDE DEF Below, n, rank
  <2>6. QED
    BY <1>1, <2>2, <2>3, <2>4, <2>5
<1>3. ASSUME NEW i \in I, NEW j \in I, <<i, j>> \in older PROVE rank[i] < rank[j]
  <2>1. Below(i) \cup {i} \in SUBSET Below(j) /\ i \notin Below(i)
    BY <1>3 DEF Ranks
  <2>2. Cardinality(Below(i) \cup {i}) = Cardinality(Below(i)) + 1
    BY <1>2, <2>1, FS_AddElement
  <2>3. Cardinality(Below(i) \cup {i}) <= Cardinality(Below(j))
    BY <1>2, <2>1, FS_Subset
  <2>4. /\ rank[i] = Cardinality(Below(i)) /\ rank[j] = Cardinality(Below(j))
        /\ rank[i] \in Nat /\ rank[j] \in Nat
    BY <1>2
  <2> HIDE DEF Below, rank
  <2>5. QED
    BY <2>2, <2>3, <2>4
<1>4. \A i, j \in I : rank[i] = rank[j] => i = j
  <2> SUFFICES ASSUME NEW i \in I, NEW j \in I, rank[i] = rank[j], i # j PROVE FALSE
    OBVIOUS
  <2>1. <<i, j>> \in older \/ <<j, i>> \in older
    BY DEF Ranks
  <2>2. rank[i] \in Nat /\ rank[j] \in Nat
    BY <1>2
  <2> HIDE DEF rank
  <2>3. QED
    BY <1>3, <2>1, <2>2
<1>5. \A k \in 0 .. n - 1 : \E i \in I : rank[i] = k
  <2>1. ASSUME NEW i \in I PROVE rank[i] \in 0 .. n - 1
    <3>1. rank[i] \in Nat /\ rank[i] < n
      BY <1>2
    <3> HIDE DEF rank, n
    <3>2. QED
      BY <1>1, <3>1
  <2>2. rank \in Injection(I, 0 .. n - 1)
    BY <1>4, <2>1 DEF Injection, IsInjective
  <2>3. IsFiniteSet(0 .. n - 1) /\ Cardinality(0 .. n - 1) = n
    <3> HIDE DEF n
    <3>1. 0 \in Int /\ n - 1 \in Int
      BY <1>1
    <3>2. IsFiniteSet(0 .. n - 1) /\ Cardinality(0 .. n - 1) = IF 0 > n - 1 THEN 0 ELSE n - 1 - 0 + 1
      BY <3>1, FS_Interval
    <3>3. QED
      BY <1>1, <3>2
  <2>4. rank \in Surjection(I, 0 .. n - 1)
    BY <2>2, <2>3, FS_Injection
  <2>5. QED
    BY <2>4 DEF Surjection
<1>6. O = {i \in I : rank[i] < BatchSize}
  BY DEF Oldest
<1> HIDE DEF rank, n, O
<1>7. cut \in Injection(O, 0 .. m - 1)
  <2>1. ASSUME NEW i \in O PROVE cut[i] \in 0 .. m - 1
    <3>1. i \in I /\ rank[i] < BatchSize
      BY <1>6
    <3>2. rank[i] \in Nat /\ rank[i] < n /\ cut[i] = rank[i]
      BY <1>2, <3>1
    <3> HIDE DEF cut
    <3>3. QED
      BY <1>1, <3>1, <3>2
  <2>2. \A i, j \in O : cut[i] = cut[j] => i = j
    BY <1>4, <1>6
  <2>3. QED
    BY <2>1, <2>2 DEF Injection, IsInjective
<1>8. cut \in Surjection(O, 0 .. m - 1)
  <2>1. ASSUME NEW k \in 0 .. m - 1 PROVE \E i \in O : cut[i] = k
    <3>1. k \in 0 .. n - 1 /\ k < BatchSize
      BY <1>1
    <3>2. QED
      BY <1>5, <1>6, <3>1
  <2>2. cut \in [O -> 0 .. m - 1]
    BY <1>7 DEF Injection
  <2>3. QED
    BY <2>1, <2>2 DEF Surjection
<1> HIDE DEF m, cut
<1>9. 0 \in Int /\ m - 1 \in Int
  BY <1>1
<1>10. IsFiniteSet(0 .. m - 1) /\ Cardinality(0 .. m - 1) = IF 0 > m - 1 THEN 0 ELSE m - 1 - 0 + 1
  BY <1>9, FS_Interval
<1>11. Cardinality(O) = Cardinality(0 .. m - 1)
  BY <1>7, <1>8, <1>10, FS_Injection
<1>12. Cardinality(O) = m
  BY <1>1, <1>10, <1>11
<1>13. QED
  BY <1>12 DEF O, m, n

\* A job for BullMQ: some rows, and no more than a batch of them.
Fits(job) == IsFiniteSet(job.ids) /\ Cardinality(job.ids) \in 1 .. BatchSize

JobsFit ==
  /\ \A k \in DOMAIN queue : Fits(queue[k])
  /\ \A w \in Workers : slot[w].pc # "idle" => Fits(slot[w].job)

LEMMA BatchFits ==
  ASSUME TypeOK, DirtyBatch # {}
  PROVE  Fits([ids |-> DirtyBatch, tries |-> 0])
<1> DEFINE dirty == {i \in DOMAIN mem : ~mem[i].synced}
<1>1. Ranks(older, DOMAIN mem) /\ dirty \in SUBSET DOMAIN mem /\ IsFiniteSet(dirty)
  BY WriteBehindAssumption, FS_Subset DEF TypeOK
<1>2. DirtyBatch \in SUBSET dirty
  BY DEF DirtyBatch, Oldest
<1>3. IsFiniteSet(DirtyBatch) /\ Cardinality(DirtyBatch) \in Nat /\ Cardinality(DirtyBatch) # 0
  BY <1>1, <1>2, FS_Subset, FS_CardinalityType, FS_EmptySet
<1>4. Cardinality(dirty) \in Nat
  BY <1>1, FS_CardinalityType
<1>5. Cardinality(DirtyBatch) = IF Cardinality(dirty) < BatchSize THEN Cardinality(dirty) ELSE BatchSize
  BY <1>1, OldestHasSize DEF DirtyBatch
<1> HIDE DEF dirty
<1>6. Cardinality(DirtyBatch) \in 1 .. BatchSize
  BY <1>3, <1>4, <1>5, WriteBehindAssumption
<1>7. QED
  BY <1>3, <1>6 DEF Fits

LEMMA StepJobsFit == TypeOK /\ JobsFit /\ [Next]_vars => JobsFit'
<1> SUFFICES ASSUME TypeOK, JobsFit, [Next]_vars PROVE JobsFit'
  OBVIOUS
<1>0. queue \in Seq(Job) /\ DOMAIN slot = Workers
  BY DEF TypeOK
<1>1. ASSUME NEW job, Fits(job) PROVE \A k \in DOMAIN Append(queue, job) : Fits(Append(queue, job)[k])
  BY <1>0, <1>1, AppendProperties DEF JobsFit
<1>2. CASE Poll
  <2>1. Fits([ids |-> DirtyBatch, tries |-> 0])
    BY <1>2, BatchFits DEF Poll
  <2>2. queue' = Append(queue, [ids |-> DirtyBatch, tries |-> 0]) /\ slot' = slot
    BY <1>2 DEF Poll
  <2>3. QED
    BY <1>1, <2>1, <2>2 DEF JobsFit
<1>3. ASSUME NEW w \in Workers, Begin(w) PROVE JobsFit'
  <2>1. queue # <<>> /\ queue' = Tail(queue)
    BY <1>3 DEF Begin
  <2>2. Fits(Head(queue)) /\ \A k \in DOMAIN queue' : Fits(queue'[k])
    BY <1>0, <2>1, HeadTailProperties DEF JobsFit
  <2> DEFINE x == [pc |-> "writing", job |-> Head(queue), snap |-> ReadRows(Head(queue).ids)]
  <2>3. slot' = slot \/ slot' = [slot EXCEPT ![w] = x]
    BY <1>3 DEF Begin
  <2>4. x.job = Head(queue)
    OBVIOUS
  <2> HIDE DEF x
  <2>5. QED
    BY <1>0, <2>2, <2>3, <2>4 DEF JobsFit
<1>4. ASSUME NEW w \in Workers, Commit(w) PROVE JobsFit'
  <2>1. slot[w].pc = "writing" /\ slot' = [slot EXCEPT ![w].pc = "committed"] /\ queue' = queue
    BY <1>4 DEF Commit
  <2>2. slot[w].job = slot'[w].job
    BY <1>0, <2>1
  <2>3. QED
    BY <1>0, <2>1, <2>2 DEF JobsFit
<1>5. ASSUME NEW w \in Workers, WriteFails(w) \/ WorkerCrash(w) PROVE JobsFit'
  <2> DEFINE job == slot[w].job
             again == [job EXCEPT !.tries = @ + 1]
  <2>1. Fits(job)
    BY <1>5 DEF WriteFails, WorkerCrash, JobsFit
  <2>2. again.ids = job.ids
    BY <1>5 DEF TypeOK, Job, Idle, WriteFails, WorkerCrash
  <2>3. Fits(again)
    BY <2>1, <2>2 DEF Fits
  <2>4. /\ queue' \in {queue, Append(queue, job), Append(queue, again)}
        /\ slot' = [slot EXCEPT ![w] = Idle]
    BY <1>5 DEF WriteFails, WorkerCrash, Requeued
  <2> HIDE DEF job, again
  <2>5. \A k \in DOMAIN queue' : Fits(queue'[k])
    BY <1>1, <2>1, <2>3, <2>4 DEF JobsFit
  <2>6. QED
    BY <1>0, <2>4, <2>5 DEF JobsFit, Idle
<1>6. ASSUME NEW w \in Workers, Mark(w) PROVE JobsFit'
  BY <1>0, <1>6 DEF Mark, Idle, JobsFit
<1>7. CASE UNCHANGED <<queue, slot>>
  BY <1>7 DEF JobsFit
<1>8. QED
  BY <1>2, <1>3, <1>4, <1>5, <1>6, <1>7
     DEF Next, Work, vars, FetchFails, Stop, Restart, Get, Set, Forget, StartFetch,
         FinishFetch, CrashLanding

\* Every job that waits or runs, the first time or again, names at least one row
\* and at most syncBatchSize: polling in the order of the last access never gives a
\* worker a larger transaction.
THEOREM JobsAreBatches == Spec => []JobsFit
<1>1. Init => JobsFit
  BY DEF Init, JobsFit, Idle
<1>2. QED
  BY <1>1, StepJobsFit, TypeCorrect, PTL DEF Spec

-----------------------------------------------------------------------------
\* What a handler has committed and what a fetch carries is stored too: the
\* rows these two may mark, now or later.
IInv ==
  /\ DOMAIN slot = Workers
  /\ SyncedIsStored
  /\ \A w \in Workers : slot[w].pc = "committed" => DOMAIN slot[w].snap \subseteq DOMAIN remote
  /\ DOMAIN fetch \subseteq DOMAIN remote

LEMMA InitIInv == Init => IInv
BY DEF Init, IInv, SyncedIsStored, Idle, Empty

\* The central table loses no row.
LEMMA RemoteGrows == [Next]_vars => DOMAIN remote \subseteq DOMAIN remote'
<1> SUFFICES ASSUME [Next]_vars PROVE DOMAIN remote \subseteq DOMAIN remote'
  OBVIOUS
<1>1. ASSUME NEW w \in Workers, Commit(w) \/ WriteFails(w)
      PROVE  DOMAIN remote \subseteq DOMAIN remote'
  <2>1. DOMAIN remote \subseteq DOMAIN Upserted(w)
    BY DEF Upserted
  <2>2. remote' = remote \/ remote' = Upserted(w)
    BY <1>1 DEF Commit, WriteFails
  <2>3. QED
    BY <2>1, <2>2
<1>2. CASE remote' = remote
  BY <1>2
<1>3. QED
  BY <1>1, <1>2 DEF Next, Work, vars, Poll, FetchFails, Stop, Restart, Get, Set, Forget,
     StartFetch, FinishFetch, CrashLanding, Begin, Mark, WorkerCrash

\* Steps of the cache that only drop rows, or make one dirty.
LEMMA TableSteps ==
  ASSUME IInv, UNCHANGED <<slot, remote>>, DOMAIN fetch' \subseteq DOMAIN remote,
         \A i \in DOMAIN mem' : mem'[i].synced => i \in DOMAIN remote
  PROVE  IInv'
BY DEF IInv, SyncedIsStored

LEMMA StepIInv == IInv /\ [Next]_vars => IInv'
<1> SUFFICES ASSUME IInv, [Next]_vars PROVE IInv'
  OBVIOUS
<1> DEFINE grows == DOMAIN remote \subseteq DOMAIN remote'
<1>0. grows
  BY RemoteGrows
<1>1. ASSUME NEW i \in Ids, NEW V \in SUBSET Ids, Set(i, V) PROVE IInv'
  <2>1. \A j \in DOMAIN mem' : mem'[j].synced => j \in DOMAIN remote
    BY <1>1 DEF Set, Keep, IInv, SyncedIsStored
  <2>2. QED
    BY <1>1, <2>1, TableSteps DEF Set, IInv
<1>2. ASSUME NEW i \in Ids, Get(i) PROVE IInv'
  BY <1>2 DEF Get, IInv, SyncedIsStored
<1>3. ASSUME NEW V \in SUBSET Ids, Forget(V) PROVE IInv'
  <2>1. \A j \in DOMAIN mem' : mem'[j].synced => j \in DOMAIN remote
    BY <1>3 DEF Forget, Keep, IInv, SyncedIsStored
  <2>2. QED
    BY <1>3, <2>1, TableSteps DEF Forget, IInv
<1>4. CASE Poll \/ Restart
  BY <1>4 DEF Poll, Restart, IInv, SyncedIsStored
<1>5. ASSUME NEW S \in SUBSET Ids, StartFetch(S) PROVE IInv'
  BY <1>5 DEF StartFetch, IInv, SyncedIsStored
<1>6. ASSUME NEW s, NEW V, FinishFetch(s, V) PROVE IInv'
  <2>1. \A j \in DOMAIN Landed : Landed[j].synced => j \in DOMAIN remote
    BY DEF Landed, IInv, SyncedIsStored
  <2>2. \A j \in DOMAIN mem' : mem'[j].synced => j \in DOMAIN remote
    BY <1>6, <2>1 DEF FinishFetch, Keep
  <2>3. QED
    BY <1>6, <2>2, TableSteps DEF FinishFetch, Empty
<1>7. CASE FetchFails \/ Stop
  BY <1>7 DEF FetchFails, Stop, Empty, IInv, SyncedIsStored
<1>8. ASSUME NEW w \in Workers, Begin(w) PROVE IInv'
  BY <1>8 DEF Begin, IInv, SyncedIsStored
<1>9. ASSUME NEW w \in Workers, Commit(w) PROVE IInv'
  <2>1. DOMAIN slot[w].snap \subseteq DOMAIN remote'
    BY <1>9 DEF Commit, Upserted
  <2>2. /\ DOMAIN slot' = Workers
        /\ \A v \in Workers : slot'[v].pc = "committed" => DOMAIN slot'[v].snap \subseteq DOMAIN remote'
    BY <1>0, <1>9, <2>1 DEF Commit, IInv
  <2>3. QED
    BY <1>0, <1>9, <2>2 DEF Commit, IInv, SyncedIsStored
<1>10. ASSUME NEW w \in Workers, WriteFails(w) PROVE IInv'
  <2>1. /\ DOMAIN slot' = Workers
        /\ \A v \in Workers : slot'[v].pc = "committed" => DOMAIN slot'[v].snap \subseteq DOMAIN remote'
    BY <1>0, <1>10 DEF WriteFails, Idle, IInv
  <2>2. QED
    BY <1>0, <1>10, <2>1 DEF WriteFails, IInv, SyncedIsStored
<1>11. ASSUME NEW w \in Workers, Mark(w) PROVE IInv'
  <2>1. DOMAIN slot[w].snap \subseteq DOMAIN remote
    BY <1>11 DEF Mark, IInv
  <2>2. \A i \in DOMAIN mem' : mem'[i].synced => i \in DOMAIN remote
    BY <1>11, <2>1 DEF Mark, IInv, SyncedIsStored
  <2>3. /\ DOMAIN slot' = Workers
        /\ \A v \in Workers : slot'[v].pc = "committed" => DOMAIN slot'[v].snap \subseteq DOMAIN remote'
    BY <1>11 DEF Mark, Idle, IInv
  <2>4. QED
    BY <1>11, <2>2, <2>3 DEF Mark, IInv, SyncedIsStored
<1>12. ASSUME NEW w \in Workers, WorkerCrash(w) PROVE IInv'
  BY <1>12 DEF WorkerCrash, Idle, IInv, SyncedIsStored
<1>13. ASSUME NEW s \in Insertions, CrashLanding(s) PROVE IInv'
  <2>1. PICK I, D : I \subseteq DOMAIN fetch /\ mem' = LandedPart(I, D)
    BY <1>13, Zenon DEF CrashLanding
  <2>2. \A j \in DOMAIN mem' : mem'[j].synced => j \in DOMAIN remote
    BY <2>1 DEF LandedPart, IInv, SyncedIsStored
  <2>3. QED
    BY <1>13, <2>2, TableSteps DEF CrashLanding, Empty
<1>14. CASE UNCHANGED vars
  BY <1>14 DEF vars, IInv, SyncedIsStored
<1>15. QED
  BY <1>1, <1>2, <1>3, <1>4, <1>5, <1>6, <1>7, <1>8, <1>9, <1>10, <1>11, <1>12, <1>13, <1>14
     DEF Next, Work

\* `marks rows synced=1 only after the transaction commits': whatever path a
\* row took to synced, the central table has its id.
THEOREM SyncedRowsAreStored == Spec => []SyncedIsStored
<1>1. IInv => SyncedIsStored
  BY DEF IInv
<1>2. QED
  BY <1>1, InitIInv, StepIInv, PTL DEF Spec
-----------------------------------------------------------------------------
\* Nothing holds a version that is still to be written.
Written ==
  /\ \A i \in DOMAIN mem : mem[i].content <= last
  /\ \A i \in DOMAIN remote : remote[i] <= last
  /\ \A i \in DOMAIN fetch : fetch[i] <= last
  /\ \A w \in Workers : slot[w].pc = "writing" =>
       \A i \in DOMAIN slot[w].snap : slot[w].snap[i] <= last

\* After its commit a handler has stored what it has read, and what has become
\* of it since was done by another handler.
Stored ==
  \A w \in Workers : slot[w].pc = "committed" =>
    \A i \in DOMAIN slot[w].snap \ crossed[w] :
      i \in DOMAIN remote /\ remote[i] = slot[w].snap[i]

\* Version v is no older than u, or a fetch has inserted it too late.
Follows(v, u) == v >= u \/ v \in stale

\* A version on its way to the central table follows the one it will replace:
\* the row that a handler will read, and the one that it has read, unless another
\* handler has stored the row since. The row of now follows both in turn.
InOrder ==
  /\ \A i \in DOMAIN mem \cap DOMAIN remote : Follows(mem[i].content, remote[i])
  /\ \A w \in Workers : slot[w].pc = "writing" =>
       \A i \in DOMAIN slot[w].snap :
         /\ i \in DOMAIN remote => Follows(slot[w].snap[i], remote[i]) \/ i \in crossed[w]
         /\ i \in DOMAIN mem => Follows(mem[i].content, slot[w].snap[i])

LEMMA InitVersions == Init => Written /\ Stored /\ InOrder
BY WriteBehindAssumption DEF Init, Written, Stored, InOrder, Idle, Empty

\* What a handler's store does to the rows of another: it leaves a row alone, or
\* has crossed it.
LEMMA StoreCrosses ==
  ASSUME TypeOK, NEW w \in Workers, slot[w].pc = "writing", remote' = Upserted(w),
         crossed' = Crossing(w),
         NEW v \in Workers \ {w}, slot[v].pc # "idle", NEW i \in DOMAIN slot[v].snap
  PROVE  /\ i \in crossed[v] => i \in crossed'[v]
         /\ \/ i \in crossed'[v]
            \/ /\ i \in DOMAIN remote' <=> i \in DOMAIN remote
               /\ i \in DOMAIN remote => remote'[i] = remote[i]
<1>1. crossed'[v] = crossed[v] \cup (DOMAIN slot[v].snap \cap DOMAIN slot[w].snap)
  BY DEF Crossing
<1>2. QED
  BY <1>1 DEF Upserted

\* What a handler's own store does, a commit or a failure that had stored.
LEMMA StoreEnds ==
  ASSUME TypeOK, NEW w \in Workers, Commit(w) \/ WriteFails(w)
  PROVE  /\ slot[w].pc = "writing" /\ slot'[w].pc # "writing"
         /\ \A v \in Workers \ {w} : slot'[v] = slot[v]
         /\ \/ remote' = Upserted(w) /\ crossed' = Crossing(w)
            \/ /\ remote' = remote /\ slot'[w].pc = "idle"
               /\ \A v \in Workers \ {w} : crossed'[v] = crossed[v]
         /\ UNCHANGED <<mem, fetch, last, stale>>
<1>0. DOMAIN slot = Workers /\ crossed \in [Workers -> SUBSET Ids]
  BY DEF TypeOK
<1>1. CASE Commit(w)
  BY <1>0, <1>1 DEF Commit
<1>2. CASE WriteFails(w)
  BY <1>0, <1>2 DEF WriteFails, Idle
<1>3. QED
  BY <1>1, <1>2

\* A handler commits: its rows are stored, and those of others that were are
\* crossed or still there.
LEMMA StepStored == TypeOK /\ Stored /\ [Next]_vars => Stored'
<1> SUFFICES ASSUME TypeOK, Stored, [Next]_vars PROVE Stored'
  OBVIOUS
<1>0. DOMAIN slot = Workers /\ crossed \in [Workers -> SUBSET Ids]
  BY DEF TypeOK
<1>1. ASSUME NEW w \in Workers, Begin(w) PROVE Stored'
  <2>1. /\ \A v \in Workers \ {w} : slot'[v] = slot[v] /\ crossed'[v] = crossed[v]
        /\ slot'[w].pc # "committed" /\ remote' = remote
    BY <1>0, <1>1 DEF Begin
  <2>2. QED
    BY <2>1 DEF Stored
<1>2. ASSUME NEW w \in Workers, Commit(w) \/ WriteFails(w) PROVE Stored'
  <2>1. ASSUME NEW v \in Workers \ {w}, slot[v].pc = "committed",
               NEW i \in DOMAIN slot[v].snap \ crossed'[v]
        PROVE  i \in DOMAIN remote' /\ remote'[i] = slot[v].snap[i]
    <3>1. CASE remote' = Upserted(w) /\ crossed' = Crossing(w)
      <4>1. slot[w].pc = "writing" /\ slot[v].pc # "idle"
        BY <1>2, <2>1, StoreEnds
      <4>2. i \notin crossed[v] /\ (i \in DOMAIN remote => i \in DOMAIN remote' /\ remote'[i] = remote[i])
        BY <2>1, <3>1, <4>1, StoreCrosses
      <4>3. QED
        BY <2>1, <4>2 DEF Stored
    <3>2. CASE remote' = remote /\ crossed'[v] = crossed[v]
      BY <2>1, <3>2 DEF Stored
    <3>3. QED
      BY <1>2, <3>1, <3>2, StoreEnds
  <2>2. ASSUME slot'[w].pc = "committed", NEW i \in DOMAIN slot'[w].snap
        PROVE  i \in DOMAIN remote' /\ remote'[i] = slot'[w].snap[i]
    <3>1. Commit(w)
      BY <1>0, <1>2, <2>2 DEF WriteFails, Idle
    <3>2. slot'[w].snap = slot[w].snap
      BY <1>0, <3>1 DEF Commit
    <3>3. QED
      BY <2>2, <3>1, <3>2 DEF Commit, Upserted
  <2>3. \A v \in Workers \ {w} : slot'[v] = slot[v]
    BY <1>2, StoreEnds
  <2>4. QED
    BY <2>1, <2>2, <2>3 DEF Stored
<1>3. ASSUME NEW w \in Workers, Mark(w) \/ WorkerCrash(w) PROVE Stored'
  <2>1. /\ \A v \in Workers \ {w} : slot'[v] = slot[v] /\ crossed'[v] = crossed[v]
        /\ slot'[w].pc # "committed" /\ remote' = remote
    BY <1>0, <1>3 DEF Mark, WorkerCrash, Idle
  <2>2. QED
    BY <2>1 DEF Stored
<1>4. CASE UNCHANGED <<slot, remote, crossed>>
  BY <1>4 DEF Stored
<1>5. QED
  BY <1>1, <1>2, <1>3, <1>4
     DEF Next, Work, vars, Poll, FetchFails, Stop, Restart, Get, Set, Forget, StartFetch,
         FinishFetch, CrashLanding

\* Overlap and nothing else: however many handlers run, and whatever fails, dies,
\* is evicted or comes back, a row loses its dirt only when its content or a newer
\* one is stored, or to a handler that read it before its last write, or whose
\* row another handler stored too.
THEOREM DirtIsLostByOverlap == Spec => LossNeedsOverlap
<1>1. TypeOK /\ Stored /\ [Next]_vars => [CleansStored]_vars
  <2> SUFFICES ASSUME TypeOK, Stored, Next PROVE CleansStored
    OBVIOUS
  <2>1. ASSUME NEW w \in Workers, Mark(w) PROVE CleansStored
    <3> SUFFICES ASSUME NEW i \in DOMAIN mem, ~mem[i].synced, mem'[i].synced
                 PROVE  \/ i \in DOMAIN remote /\ remote[i] >= mem[i].content
                        \/ /\ slot[w].pc = "committed" /\ i \in DOMAIN slot[w].snap
                           /\ slot[w].snap[i] < mem[i].content \/ i \in crossed[w]
      BY DEF CleansStored
    <3>1. slot[w].pc = "committed" /\ i \in DOMAIN slot[w].snap
      BY <2>1 DEF Mark
    <3> SUFFICES ASSUME i \notin crossed[w]
                 PROVE  i \in DOMAIN remote /\ (remote[i] >= mem[i].content
                                               \/ slot[w].snap[i] < mem[i].content)
      BY <3>1
    <3>2. i \in DOMAIN remote /\ remote[i] = slot[w].snap[i]
      BY <3>1 DEF Stored
    <3>3. remote[i] \in Int /\ mem[i].content \in Int
      BY <3>2 DEF TypeOK, IsSnapshot, Versions
    <3>4. QED
      BY <3>1, <3>2, <3>3
  <2>2. ASSUME NEW i \in Ids, NEW V \in SUBSET Ids, Set(i, V) PROVE CleansStored
    BY <2>2 DEF Set, Keep, CleansStored
  <2>3. ASSUME NEW V \in SUBSET Ids, Forget(V) PROVE CleansStored
    BY <2>3 DEF Forget, Keep, CleansStored
  <2>4. ASSUME NEW s \in Insertions, NEW V \in SUBSET Ids, FinishFetch(s, V) PROVE CleansStored
    BY <2>4 DEF FinishFetch, Landed, Keep, CleansStored
  <2>5. ASSUME NEW s \in Insertions, CrashLanding(s) PROVE CleansStored
    <3>1. PICK I, D : mem' = LandedPart(I, D)
      BY <2>5, Zenon DEF CrashLanding
    <3>2. QED
      BY <3>1 DEF LandedPart, CleansStored
  <2>6. CASE mem' = mem
    BY <2>6 DEF CleansStored
  <2>7. QED
    BY <2>1, <2>2, <2>3, <2>4, <2>5, <2>6
       DEF Next, Work, Poll, FetchFails, Stop, Restart, Get, StartFetch, Begin, Commit,
           WriteFails, WorkerCrash
<1>2. TypeOK /\ Stored /\ [Next]_vars => Stored'
  BY StepStored
<1>3. Init => Stored
  BY InitVersions
<1>4. QED
  BY <1>1, <1>2, <1>3, TypeCorrect, PTL DEF Spec, LossNeedsOverlap

-----------------------------------------------------------------------------
\* The rows a landing fetch adds to the table.
LEMMA LandingRows ==
  ASSUME NEW s \in Insertions, (\E V \in SUBSET Ids : FinishFetch(s, V)) \/ CrashLanding(s)
  PROVE  /\ \A i \in DOMAIN mem' :
              \/ i \in DOMAIN mem /\ mem'[i] = mem[i]
              \/ /\ i \in DOMAIN fetch \ DOMAIN mem /\ mem'[i].content = fetch[i]
                 /\ Overtaken({i}) \subseteq stale'
         /\ stale \subseteq stale' /\ fetch' = Empty
         /\ UNCHANGED <<slot, remote, last, crossed>>
<1> DEFINE I == {s[k] : k \in DOMAIN s}
<1>1. \A i \in I : Overtaken({i}) \subseteq Overtaken(I)
  BY DEF Overtaken
<1>2. ASSUME NEW V \in SUBSET Ids, FinishFetch(s, V)
      PROVE  \A i \in DOMAIN mem' :
               \/ i \in DOMAIN mem /\ mem'[i] = mem[i]
               \/ i \in I /\ i \in DOMAIN fetch \ DOMAIN mem /\ mem'[i].content = fetch[i]
  <2>1. I = DOMAIN fetch \ DOMAIN mem /\ mem' = Keep(Landed, V)
    BY <1>2 DEF FinishFetch
  <2> HIDE DEF I
  <2>2. QED
    BY <2>1 DEF Keep, Landed
<1>3. ASSUME CrashLanding(s)
      PROVE  \A i \in DOMAIN mem' :
               \/ i \in DOMAIN mem /\ mem'[i] = mem[i]
               \/ i \in I /\ i \in DOMAIN fetch \ DOMAIN mem /\ mem'[i].content = fetch[i]
  <2>1. I \subseteq DOMAIN fetch \ DOMAIN mem
    BY <1>3 DEF CrashLanding
  <2>2. PICK D : mem' = LandedPart(I, D)
    BY <1>3, Zenon DEF CrashLanding
  <2> HIDE DEF I
  <2>3. QED
    BY <2>1, <2>2 DEF LandedPart
<1>4. /\ stale' = stale \cup Overtaken(I) /\ fetch' = Empty
      /\ UNCHANGED <<slot, remote, last, crossed>>
  BY DEF FinishFetch, CrashLanding
<1> HIDE DEF I
<1>5. QED
  BY <1>1, <1>2, <1>3, <1>4

\* Rows come from writes and copies of writes.
LEMMA StepWritten == TypeOK /\ Written /\ [Next]_vars => Written'
<1> SUFFICES ASSUME TypeOK, Written, [Next]_vars PROVE Written'
  OBVIOUS
<1>0. DOMAIN slot = Workers /\ last \in Int
  BY DEF TypeOK
<1>1. ASSUME NEW i \in Ids, NEW V \in SUBSET Ids, Set(i, V) PROVE Written'
  <2>1. \A j \in DOMAIN mem' : mem'[j].content <= last'
    BY <1>0, <1>1 DEF Set, Keep, Written, TypeOK, Versions
  <2>2. \A j \in DOMAIN remote : remote[j] <= last'
    BY <1>0, <1>1 DEF Set, Written, TypeOK, IsSnapshot, Versions
  <2>3. \A j \in DOMAIN fetch : fetch[j] <= last'
    BY <1>0, <1>1 DEF Set, Written, TypeOK, IsSnapshot, Versions
  <2>4. \A w \in Workers : slot[w].pc = "writing" =>
          \A j \in DOMAIN slot[w].snap : slot[w].snap[j] <= last'
    BY <1>0, <1>1 DEF Set, Written, TypeOK, IsSnapshot, Versions, Idle
  <2>5. QED
    BY <1>1, <2>1, <2>2, <2>3, <2>4 DEF Set, Written
<1>2. ASSUME NEW V \in SUBSET Ids, Forget(V) PROVE Written'
  BY <1>2 DEF Forget, Keep, Written
<1>3. ASSUME NEW s \in Insertions, (\E V \in SUBSET Ids : FinishFetch(s, V)) \/ CrashLanding(s)
      PROVE  Written'
  BY <1>3, LandingRows DEF Written, Empty
<1>4. ASSUME NEW S \in SUBSET Ids, StartFetch(S) PROVE Written'
  BY <1>4 DEF StartFetch, Written
<1>5. ASSUME NEW w \in Workers, Begin(w) PROVE Written'
  <2>1. \A i \in DOMAIN ReadRows(Head(queue).ids) : ReadRows(Head(queue).ids)[i] <= last
    BY DEF ReadRows, Written
  <2>2. QED
    BY <1>0, <1>5, <2>1 DEF Begin, Written
<1>6. ASSUME NEW w \in Workers, Commit(w) \/ WriteFails(w) PROVE Written'
  <2>1. \A i \in DOMAIN Upserted(w) : Upserted(w)[i] <= last
    BY <1>6 DEF Upserted, Written, Commit, WriteFails
  <2>2. /\ remote' = remote \/ remote' = Upserted(w)
        /\ slot'[w].pc # "writing" /\ \A v \in Workers \ {w} : slot'[v] = slot[v]
        /\ UNCHANGED <<mem, fetch, last>>
    BY <1>6, StoreEnds
  <2>3. QED
    BY <2>1, <2>2 DEF Written
<1>7. ASSUME NEW w \in Workers, Mark(w) \/ WorkerCrash(w) PROVE Written'
  <2>1. DOMAIN mem' = DOMAIN mem /\ \A i \in DOMAIN mem : mem'[i].content = mem[i].content
    BY <1>7 DEF Mark, WorkerCrash, TypeOK
  <2>2. slot'[w].pc # "writing" /\ \A v \in Workers \ {w} : slot'[v] = slot[v]
    BY <1>0, <1>7 DEF Mark, WorkerCrash, Idle
  <2>3. UNCHANGED <<remote, fetch, last>>
    BY <1>7 DEF Mark, WorkerCrash
  <2>4. QED
    BY <2>1, <2>2, <2>3 DEF Written
<1>8. CASE UNCHANGED <<mem, slot, remote, last>> /\ fetch' \in {fetch, Empty}
  BY <1>8 DEF Written, Empty
<1>9. QED
  BY <1>1, <1>2, <1>3, <1>4, <1>5, <1>6, <1>7, <1>8
     DEF Next, Work, vars, Poll, FetchFails, Stop, Restart, Get

\* A row that lands follows what is stored and what is being stored, or counts
\* as inserted too late.
LEMMA LandedFollows ==
  ASSUME TypeOK, DOMAIN fetch \subseteq DOMAIN remote,
         NEW i \in DOMAIN fetch, Overtaken({i}) \subseteq stale'
  PROVE  /\ fetch[i] >= remote[i] \/ fetch[i] \in stale'
         /\ \A w \in Workers : slot[w].pc = "writing" /\ i \in DOMAIN slot[w].snap =>
              fetch[i] >= slot[w].snap[i] \/ fetch[i] \in stale'
<1>1. fetch[i] \in Int /\ remote[i] \in Int
  BY DEF TypeOK, IsSnapshot, Versions
<1>2. fetch[i] < remote[i] => fetch[i] \in Overtaken({i})
  BY DEF Overtaken
<1>3. ASSUME NEW w \in Workers, slot[w].pc = "writing", i \in DOMAIN slot[w].snap
      PROVE  fetch[i] >= slot[w].snap[i] \/ fetch[i] \in stale'
  <2>1. slot[w].snap[i] \in Int
    BY <1>3 DEF TypeOK, IsSnapshot, Versions, Idle
  <2>2. fetch[i] < slot[w].snap[i] => fetch[i] \in Overtaken({i})
    BY <1>3 DEF Overtaken
  <2>3. QED
    BY <1>1, <2>1, <2>2
<1>4. QED
  BY <1>1, <1>2, <1>3

\* What is written, landed, read and stored keeps to the order.
LEMMA StepInOrder ==
  TypeOK /\ Written /\ InOrder /\ DOMAIN fetch \subseteq DOMAIN remote /\ [Next]_vars => InOrder'
<1> SUFFICES ASSUME TypeOK, Written, InOrder, DOMAIN fetch \subseteq DOMAIN remote, [Next]_vars
             PROVE  InOrder'
  OBVIOUS
<1>0. DOMAIN slot = Workers /\ crossed \in [Workers -> SUBSET Ids]
  BY DEF TypeOK
<1>1. ASSUME NEW i \in Ids, NEW V \in SUBSET Ids, Set(i, V) PROVE InOrder'
  <2>1. UNCHANGED <<slot, remote, stale, crossed>>
    BY <1>1 DEF Set
  <2>2. \A j \in DOMAIN mem' : IF j = i THEN mem'[j].content = last + 1
                              ELSE j \in DOMAIN mem /\ mem'[j] = mem[j]
    BY <1>1 DEF Set, Keep
  <2>3. i \in DOMAIN remote => last + 1 >= remote[i]
    BY DEF Written, TypeOK, IsSnapshot, Versions
  <2>4. \A w \in Workers : slot[w].pc = "writing" /\ i \in DOMAIN slot[w].snap =>
          last + 1 >= slot[w].snap[i]
    BY DEF Written, TypeOK, IsSnapshot, Versions, Idle
  <2>5. QED
    BY <2>1, <2>2, <2>3, <2>4 DEF InOrder, Follows
<1>2. ASSUME NEW V \in SUBSET Ids, Forget(V) PROVE InOrder'
  BY <1>2 DEF Forget, Keep, InOrder, Follows
<1>3. ASSUME NEW s \in Insertions, (\E V \in SUBSET Ids : FinishFetch(s, V)) \/ CrashLanding(s)
      PROVE  InOrder'
  <2>1. stale \subseteq stale' /\ UNCHANGED <<slot, remote, crossed>>
    BY <1>3, LandingRows
  <2>2. ASSUME NEW i \in DOMAIN mem'
        PROVE  /\ i \in DOMAIN remote => Follows(mem[i].content, remote[i])'
               /\ \A w \in Workers : slot[w].pc = "writing" /\ i \in DOMAIN slot[w].snap =>
                    mem'[i].content >= slot[w].snap[i] \/ mem'[i].content \in stale'
    <3>1. CASE i \in DOMAIN mem /\ mem'[i] = mem[i]
      BY <2>1, <3>1 DEF InOrder, Follows
    <3>2. CASE /\ i \in DOMAIN fetch \ DOMAIN mem /\ mem'[i].content = fetch[i]
               /\ Overtaken({i}) \subseteq stale'
      BY <2>1, <3>2, LandedFollows DEF Follows
    <3>3. QED
      BY <1>3, <3>1, <3>2, LandingRows
  <2>3. QED
    BY <2>1, <2>2 DEF InOrder, Follows
<1>4. ASSUME NEW w \in Workers, Begin(w) PROVE InOrder'
  <2> DEFINE rows == ReadRows(Head(queue).ids)
  <2>1. \A i \in DOMAIN rows : i \in DOMAIN mem /\ rows[i] = mem[i].content
    BY DEF ReadRows
  <2>2. \A i \in DOMAIN mem : mem[i].content >= mem[i].content
    BY DEF TypeOK, Versions
  <2>3. /\ UNCHANGED <<mem, remote, stale>>
        /\ \/ slot' = slot
           \/ slot' = [slot EXCEPT ![w] = [pc |-> "writing", job |-> Head(queue), snap |-> rows]]
        /\ slot[w].pc = "idle" /\ \A v \in Workers \ {w} : crossed'[v] = crossed[v]
    BY <1>0, <1>4 DEF Begin
  <2> HIDE DEF rows
  <2>4. QED
    BY <1>0, <2>1, <2>2, <2>3 DEF InOrder, Follows
<1>5. ASSUME NEW w \in Workers, Commit(w) \/ WriteFails(w) PROVE InOrder'
  <2>1. /\ slot[w].pc = "writing" /\ slot'[w].pc # "writing" /\ UNCHANGED <<mem, stale>>
        /\ \A v \in Workers \ {w} : slot'[v] = slot[v]
        /\ \/ remote' = Upserted(w) /\ crossed' = Crossing(w)
           \/ remote' = remote /\ \A v \in Workers \ {w} : crossed'[v] = crossed[v]
    BY <1>5, StoreEnds
  <2>2. \A i \in DOMAIN mem \cap DOMAIN Upserted(w) : Follows(mem[i].content, Upserted(w)[i])
    BY <2>1 DEF Upserted, InOrder
  <2>3. \A i \in DOMAIN mem \cap DOMAIN remote' : Follows(mem[i].content, remote'[i])
    BY <2>1, <2>2 DEF InOrder
  <2>4. ASSUME NEW v \in Workers \ {w}, slot[v].pc = "writing", NEW i \in DOMAIN slot[v].snap
        PROVE  /\ i \in DOMAIN remote' => Follows(slot[v].snap[i], remote'[i]) \/ i \in crossed'[v]
               /\ i \in DOMAIN mem => Follows(mem[i].content, slot[v].snap[i])
    <3>1. /\ i \in DOMAIN remote => Follows(slot[v].snap[i], remote[i]) \/ i \in crossed[v]
          /\ i \in DOMAIN mem => Follows(mem[i].content, slot[v].snap[i])
      BY <2>4 DEF InOrder
    <3>2. CASE remote' = Upserted(w) /\ crossed' = Crossing(w)
      <4>1. /\ i \in crossed[v] => i \in crossed'[v]
            /\ \/ i \in crossed'[v]
               \/ /\ i \in DOMAIN remote' <=> i \in DOMAIN remote
                  /\ i \in DOMAIN remote => remote'[i] = remote[i]
        BY <2>1, <2>4, <3>2, StoreCrosses
      <4>2. QED
        BY <3>1, <4>1
    <3>3. CASE remote' = remote /\ crossed'[v] = crossed[v]
      BY <3>1, <3>3
    <3>4. QED
      BY <2>1, <3>2, <3>3
  <2>5. QED
    BY <2>1, <2>3, <2>4 DEF InOrder, Follows
<1>6. ASSUME NEW w \in Workers, Mark(w) \/ WorkerCrash(w) PROVE InOrder'
  <2>1. DOMAIN mem' = DOMAIN mem /\ \A i \in DOMAIN mem : mem'[i].content = mem[i].content
    BY <1>6 DEF Mark, WorkerCrash, TypeOK
  <2>2. /\ slot'[w].pc # "writing" /\ UNCHANGED <<remote, stale>>
        /\ \A v \in Workers \ {w} : slot'[v] = slot[v] /\ crossed'[v] = crossed[v]
    BY <1>0, <1>6 DEF Mark, WorkerCrash, Idle
  <2>3. QED
    BY <2>1, <2>2 DEF InOrder, Follows
<1>7. CASE UNCHANGED <<mem, slot, remote, stale, crossed>>
  BY <1>7 DEF InOrder, Follows
<1>8. QED
  BY <1>1, <1>2, <1>3, <1>4, <1>5, <1>6, <1>7
     DEF Next, Work, vars, Poll, FetchFails, Stop, Restart, Get, StartFetch

\* Redelivered jobs do no harm by themselves: however many handlers run, no
\* failure, crash, redelivery, eviction or write takes the central table back to
\* an older version of a row, except for a version that a fetch had inserted
\* when a newer one was stored or about to be, and for one that a handler had read
\* before another handler stored the row.
THEOREM RegressIsByOvertaking == Spec => RegressNeedsOvertaking
<1>1. TypeOK /\ InOrder /\ [Next]_vars => [RegressIsOvertaken]_vars
  <2> SUFFICES ASSUME TypeOK, InOrder, Next PROVE RegressIsOvertaken
    OBVIOUS
  <2>1. CASE remote' = remote
    BY <2>1 DEF RegressIsOvertaken, TypeOK, IsSnapshot, Versions
  <2>2. ASSUME NEW w \in Workers, Commit(w) \/ WriteFails(w), remote' = Upserted(w)
        PROVE  RegressIsOvertaken
    <3>1. slot[w].pc = "writing" /\ slot'[w].pc # "writing" /\ stale' = stale
      BY <2>2, StoreEnds
    <3>2. ASSUME NEW i \in DOMAIN remote, remote'[i] < remote[i]
          PROVE  remote'[i] \in stale \/ (i \in crossed[w] /\ remote'[i] = slot[w].snap[i])
      <4>1. remote[i] \in Int
        BY DEF TypeOK, IsSnapshot, Versions
      <4>2. i \in DOMAIN slot[w].snap /\ remote'[i] = slot[w].snap[i]
        BY <2>2, <3>2, <4>1 DEF Upserted
      <4>3. slot[w].snap[i] \in Int
        BY <3>1, <4>2 DEF TypeOK, IsSnapshot, Versions, Idle
      <4>4. Follows(slot[w].snap[i], remote[i]) \/ i \in crossed[w]
        BY <3>1, <4>2 DEF InOrder
      <4>5. QED
        BY <3>2, <4>1, <4>2, <4>3, <4>4 DEF Follows
    <3>3. DOMAIN remote \subseteq DOMAIN remote'
      BY <2>2 DEF Upserted
    <3>4. QED
      BY <3>1, <3>2, <3>3 DEF RegressIsOvertaken
  <2>3. ASSUME NEW w \in Workers, Commit(w) \/ WriteFails(w) PROVE RegressIsOvertaken
    BY <2>1, <2>2, <2>3, StoreEnds
  <2>4. QED
    BY <2>1, <2>3
       DEF Next, Work, Poll, FetchFails, Stop, Restart, Get, Set, Forget, StartFetch,
           FinishFetch, CrashLanding, Begin, Mark, WorkerCrash
<1>2. TypeOK /\ Written /\ InOrder /\ DOMAIN fetch \subseteq DOMAIN remote /\ [Next]_vars
        => InOrder'
  BY StepInOrder
<1>3. IInv => DOMAIN fetch \subseteq DOMAIN remote
  BY DEF IInv
<1>4. QED
  BY <1>1, <1>2, <1>3, InitVersions, StepWritten, InitIInv, StepIInv, TypeCorrect, PTL
     DEF Spec, RegressNeedsOvertaking
-----------------------------------------------------------------------------
(* The detailed write path is, to its clients, the table of module          *)
(* MemoryTable: initial states map to initial states and every step to a    *)
(* step of the table or to a stutter.                                       *)

\* What is left of a table after an inline prune is a table with fewer rows.
LEMMA Pruned ==
  ASSUME NEW m, NEW V
  PROVE  Keep(m, V) \in Table!MemSubset(m)
BY DEF Keep, Table!MemSubset, Table!Keep

LEMMA NothingPruned ==
  ASSUME NEW m, m = [i \in DOMAIN m |-> m[i]]
  PROVE  m \in Table!MemSubset(m)
BY DEF Table!MemSubset, Table!Keep

LEMMA InitTable == Init => Table!Init
BY DEF Init, Table!Init, Table!MemSubset, Table!Keep, Empty

\* A step of the write path is a step of the table, or does not touch it.
LEMMA StepTable == TypeOK /\ [Next]_vars => [Table!Next]_mem
<1> SUFFICES ASSUME TypeOK, [Next]_vars, mem' # mem PROVE Table!Next
  OBVIOUS
<1>1. ASSUME NEW i \in Ids, NEW V \in SUBSET Ids, Set(i, V) PROVE Table!Next
  <2>1. last + 1 \in Versions
    BY <1>1, WriteBehindAssumption DEF Set, TypeOK, Versions
  <2>2. Table!Write(i, last + 1)
    BY <1>1, Pruned DEF Set, Table!Write
  <2>3. QED
    BY <2>1, <2>2 DEF Table!Next
<1>2. ASSUME NEW V \in SUBSET Ids, Forget(V) PROVE Table!Next
  <2>1. Table!Forget
    BY <1>2, Pruned DEF Forget, Table!Forget
  <2>2. QED
    BY <2>1 DEF Table!Next
<1>3. ASSUME NEW s \in Insertions, NEW V \in SUBSET Ids, FinishFetch(s, V) PROVE Table!Next
  <2> DEFINE R == [i \in DOMAIN fetch |-> fetch[i]]
             D == {}
  <2>1. DOMAIN fetch \in SUBSET Ids /\ R \in [DOMAIN fetch -> Versions]
    BY DEF TypeOK, IsSnapshot
  <2>2. Landed = [j \in DOMAIN mem \cup DOMAIN R |->
                    IF j \in DOMAIN mem THEN mem[j]
                    ELSE [content |-> R[j], synced |-> j \notin D]]
    BY DEF Landed
  <2>3. mem' \in Table!MemSubset(Landed)
    BY <1>3, Pruned DEF FinishFetch
  <2>4. Table!Prefetch(R)
    <3>1. D \in SUBSET DOMAIN R /\ \A i, j \in D : i = j
      OBVIOUS
    <3> HIDE DEF D, R
    <3>2. QED
      BY <2>2, <2>3, <3>1 DEF Table!Prefetch
  <2>5. QED
    BY <2>1, <2>4 DEF Table!Next
<1>4. ASSUME NEW s \in Insertions, CrashLanding(s) PROVE Table!Next
  <2> DEFINE I == {s[k] : k \in DOMAIN s}
             R == [i \in I |-> fetch[i]]
  <2>1. I \subseteq DOMAIN fetch /\ s # <<>>
    BY <1>4 DEF CrashLanding
  <2>2. PICK D \in {{}, {s[Len(s)]}} : mem' = LandedPart(I, D)
    BY <1>4, Zenon DEF CrashLanding
  <2>3. D \in SUBSET DOMAIN R /\ \A i, j \in D : i = j
    <3>1. s \in Seq(Ids)
      BY DEF Insertions
    <3>2. s[Len(s)] \in I
      BY <2>1, <3>1
    <3>3. QED
      BY <2>2, <3>2
  <2>4. I \in SUBSET Ids /\ R \in [I -> Versions]
    BY <2>1 DEF TypeOK, IsSnapshot
  <2> DEFINE m == [j \in DOMAIN mem \cup DOMAIN R |->
                     IF j \in DOMAIN mem THEN mem[j]
                     ELSE [content |-> R[j], synced |-> j \notin D]]
  <2>5. mem' = m
    BY <2>2 DEF LandedPart
  <2>6. mem' \in Table!MemSubset(m)
    BY <2>5, NothingPruned
  <2>7. Table!Prefetch(R)
    BY <2>3, <2>6 DEF Table!Prefetch
  <2>8. QED
    BY <2>4, <2>7 DEF Table!Next
<1>5. ASSUME NEW w \in Workers, Mark(w) PROVE Table!Next
  <2>1. DOMAIN slot[w].snap \in SUBSET Ids
    BY <1>5 DEF Mark, TypeOK, Idle, IsSnapshot
  <2>2. Table!Acknowledge(DOMAIN slot[w].snap)
    BY <1>5 DEF Mark, Table!Acknowledge
  <2>3. QED
    BY <2>1, <2>2 DEF Table!Next
<1>6. QED
  BY <1>1, <1>2, <1>3, <1>4, <1>5
     DEF Next, Work, vars, Poll, FetchFails, Stop, Restart, Get, StartFetch, Begin,
         Commit, WriteFails, WorkerCrash

\* The write path implements the table of memories: a content changes only by
\* a client's write, which leaves it dirty; dirt goes only by an
\* acknowledgement; what a prefetch brings never replaces a row that is there.
THEOREM WritePathIsATable == Spec => ImplementsTable
BY TypeCorrect, InitTable, StepTable, PTL DEF Spec, ImplementsTable, Table!Spec
=============================================================================
