---------------------------- MODULE WriteBehind -----------------------------
(***************************************************************************)
(* The path of a write to the central store: the dirty-row poll of the     *)
(* cache, the BullMQ queue, the handlers of the sync worker, the Postgres  *)
(* transaction, the marking of rows, and the prefetch that brings rows     *)
(* back.  Cache and handlers share the SQLite file, hence `mem'; between   *)
(* the statements of a handler lies an await, hence the slots.  Every      *)
(* write gets the next version number, so that "current" and "older" can   *)
(* be said; eviction removes any rows, as module MemoryTable allows.       *)
(***************************************************************************)
EXTENDS Integers, Sequences, FiniteSets

CONSTANTS
  Ids,
  Poison,        \* ids whose row the central store rejects, always
  Workers,       \* handlers that may run at the same time (concurrency)
  BatchSize,     \* syncBatchSize
  MaxAttempts,   \* attempts of a job
  RefreshK,      \* refreshAheadK
  MaxWrites, MaxJobs, MaxFailures, MaxCrashes   \* bounds of the model

ASSUME WriteBehindAssumption ==
  /\ IsFiniteSet(Ids)
  /\ Poison \subseteq Ids
  /\ BatchSize \in Nat \ {0} /\ MaxAttempts \in Nat \ {0} /\ RefreshK \in Nat
  /\ MaxWrites \in Nat /\ MaxJobs \in Nat /\ MaxFailures \in Nat /\ MaxCrashes \in Nat

VARIABLES
  mem,        \* the local table: id -> [content, synced]
  older,      \* pairs of its ids: the first was accessed before the second
  queue,      \* jobs in Redis, each [ids, tries]
  slot,       \* slot[w]: the job a handler runs and the rows it has read
  remote,     \* the central table: id -> version
  fetch,      \* rows on their way to refreshAhead; empty: no fetch
  last,       \* number of writes so far, and version of the last one
  failures, crashes,
  up,         \* the process that owns the cache runs
  stale,      \* history: versions a fetch inserted when newer ones were or were
              \* about to be stored
  crossed     \* history: the rows of handler w that another handler has stored
              \* since w read them, or since w stored them itself

vars == <<mem, older, queue, slot, remote, fetch, last, failures, crashes, up, stale,
          crossed>>

Versions == 1 .. MaxWrites
Job == [ids : SUBSET Ids, tries : Nat]
Idle == [pc |-> "idle"]
Empty == [i \in {} |-> i]

\* A function from some ids to versions: rows read from one of the stores.
IsSnapshot(f) == DOMAIN f \subseteq Ids /\ \A i \in DOMAIN f : f[i] \in Versions

\* The order o puts each two of the ids D in a row.
Ranks(o, D) ==
  /\ o \subseteq D \X D
  /\ \A i, j \in D : <<i, j>> \in o <=> i # j /\ <<j, i>> \notin o
  /\ \A i, j, k \in D : <<i, j>> \in o /\ <<j, k>> \in o => <<i, k>> \in o

TypeOK ==
  /\ DOMAIN mem \subseteq Ids
  /\ \A i \in DOMAIN mem : mem[i] \in [content : Versions, synced : BOOLEAN]
  /\ Ranks(older, DOMAIN mem)
  /\ queue \in Seq(Job)
  /\ DOMAIN slot = Workers
  /\ \A w \in Workers :
       \/ slot[w] = Idle
       \/ /\ slot[w].pc \in {"writing", "committed"}
          /\ slot[w].job \in Job
          /\ IsSnapshot(slot[w].snap)
  /\ IsSnapshot(remote) /\ IsSnapshot(fetch)
  /\ last \in 0 .. MaxWrites
  /\ failures \in Nat /\ crashes \in Nat
  /\ up \in BOOLEAN
  /\ stale \subseteq Versions
  /\ crossed \in [Workers -> SUBSET Ids]

Init ==
  /\ mem = Empty /\ remote = Empty /\ fetch = Empty
  /\ older = {} /\ queue = <<>>
  /\ slot = [w \in Workers |-> Idle]
  /\ last = 0 /\ failures = 0 /\ crashes = 0
  /\ up = TRUE
  /\ stale = {} /\ crossed = [w \in Workers |-> {}]

-----------------------------------------------------------------------------
(* The cache *)

\* The table m without the rows V.
Keep(m, V) == [i \in DOMAIN m \ V |-> m[i]]

\* The order of the rows D once those of s, one after the other, have been
\* accessed: they come last.
Touched(o, D, s) ==
  LET new == {s[k] : k \in DOMAIN s}
      Later(i, j) == \E k, l \in DOMAIN s : k < l /\ s[k] = i /\ s[l] = j
  IN {p \in D \X D : IF p[2] \in new THEN p[1] \notin new \/ Later(p[1], p[2])
                    ELSE p[1] \notin new /\ p \in o}

\* set(): the row is dirty again; the rows V fall to an inline prune.
Set(i, V) ==
  /\ up
  /\ last < MaxWrites
  /\ last' = last + 1
  /\ mem' = Keep([j \in DOMAIN mem \cup {i} |->
                    IF j = i THEN [content |-> last + 1, synced |-> FALSE] ELSE mem[j]], V)
  /\ older' = Touched(older, DOMAIN mem', <<i>>)
  /\ UNCHANGED <<queue, slot, remote, fetch, failures, crashes, up, stale, crossed>>

\* get(): the row becomes the most recent.
Get(i) ==
  /\ up
  /\ i \in DOMAIN mem
  /\ older' = Touched(older, DOMAIN mem, <<i>>)
  /\ UNCHANGED <<mem, queue, slot, remote, fetch, last, failures, crashes, up, stale, crossed>>

\* delete(), either compaction: rows go, dirty or not.
Forget(V) ==
  /\ up
  /\ V \cap DOMAIN mem # {}
  /\ mem' = Keep(mem, V)
  /\ older' = Touched(older, DOMAIN mem', <<>>)
  /\ UNCHANGED <<queue, slot, remote, fetch, last, failures, crashes, up, stale, crossed>>

\* ORDER BY last_accessed_at LIMIT BatchSize over the rows I.
Oldest(I) == {i \in I : Cardinality({j \in I : <<j, i>> \in older}) < BatchSize}

\* Fault: the LIMIT comes before the condition on `synced'.
DirtyAmongOldest == {i \in Oldest(DOMAIN mem) : ~mem[i].synced}

\* The oldest dirty rows, at most BatchSize of them.
DirtyBatch == Oldest({i \in DOMAIN mem : ~mem[i].synced})

\* The sync timer: enqueue the batch, whether or not a job holds it already.
\* (An enqueue that fails changes nothing.)
Poll ==
  /\ up
  /\ DirtyBatch # {}
  /\ Len(queue) < MaxJobs
  /\ queue' = Append(queue, [ids |-> DirtyBatch, tries |-> 0])
  /\ UNCHANGED <<mem, older, slot, remote, fetch, last, failures, crashes, up, stale, crossed>>

\* refreshAhead(): the query reads the central table ...
StartFetch(S) ==
  /\ up
  /\ fetch = Empty
  /\ S \subseteq DOMAIN remote /\ S # {} /\ Cardinality(S) <= RefreshK
  /\ fetch' = [i \in S |-> remote[i]]
  /\ UNCHANGED <<mem, older, queue, slot, remote, last, failures, crashes, up, stale, crossed>>

\* Fault: the landed rows replace local ones.
LandedOver ==
  [i \in DOMAIN mem \cup DOMAIN fetch |->
     IF i \in DOMAIN fetch THEN [content |-> fetch[i], synced |-> TRUE] ELSE mem[i]]

\* The table with the landed rows, those whose id is absent, as synced.
Landed ==
  [i \in DOMAIN mem \cup DOMAIN fetch |->
     IF i \in DOMAIN mem THEN mem[i] ELSE [content |-> fetch[i], synced |-> TRUE]]

\* Of the rows I, those that were stored again while they were on their way,
\* and those of which a handler has read a newer version to store.
Overtaken(I) ==
  {fetch[i] : i \in {j \in I :
     \/ fetch[j] < remote[j]
     \/ \E w \in Workers : /\ slot[w].pc = "writing"
                           /\ j \in DOMAIN slot[w].snap
                           /\ fetch[j] < slot[w].snap[j]}}

\* ... and its rows land later, inserted in the order s; the rows V fall to
\* the prune that follows.
FinishFetch(s, V) ==
  /\ up
  /\ fetch # Empty
  /\ {s[k] : k \in DOMAIN s} = DOMAIN fetch \ DOMAIN mem
  /\ fetch' = Empty
  /\ mem' = Keep(Landed, V)
  /\ older' = Touched(older, DOMAIN mem', s)
  /\ stale' = stale \cup Overtaken({s[k] : k \in DOMAIN s})
  /\ UNCHANGED <<queue, slot, remote, last, failures, crashes, up, crossed>>

\* The table once the rows I have been inserted, those of D still dirty.
LandedPart(I, D) ==
  [i \in DOMAIN mem \cup I |->
     IF i \in DOMAIN mem THEN mem[i] ELSE [content |-> fetch[i], synced |-> i \notin D]]

\* The process dies while the rows land: those of s are there, and the last
\* one may be inserted (as dirty) but not yet marked.
CrashLanding(s) ==
  /\ up
  /\ s # <<>>
  /\ crashes < MaxCrashes
  /\ LET I == {s[k] : k \in DOMAIN s}
     IN /\ I \subseteq DOMAIN fetch \ DOMAIN mem
        /\ \E D \in {{}, {s[Len(s)]}} : mem' = LandedPart(I, D)
        /\ stale' = stale \cup Overtaken(I)
  /\ older' = Touched(older, DOMAIN mem', s)
  /\ fetch' = Empty
  /\ up' = FALSE /\ crashes' = crashes + 1
  /\ UNCHANGED <<queue, slot, remote, last, failures, crossed>>

FetchFails ==
  /\ fetch # Empty
  /\ fetch' = Empty
  /\ UNCHANGED <<mem, older, queue, slot, remote, last, failures, crashes, up, stale, crossed>>

\* The cache process stops, by close() or by a crash, and comes back.
Stop ==
  /\ up
  /\ crashes < MaxCrashes
  /\ up' = FALSE /\ crashes' = crashes + 1 /\ fetch' = Empty
  /\ UNCHANGED <<mem, older, queue, slot, remote, last, failures, stale, crossed>>

Restart ==
  /\ ~up
  /\ up' = TRUE
  /\ UNCHANGED <<mem, older, queue, slot, remote, fetch, last, failures, crashes, stale, crossed>>

-----------------------------------------------------------------------------
(* The sync worker *)

\* readDirtyMemories(): the rows still there, whatever their synced flag.
ReadRows(ids) == [i \in ids \cap DOMAIN mem |-> mem[i].content]

\* A handler takes a job and reads its rows; without rows the job is done.
Begin(w) ==
  /\ slot[w].pc = "idle"
  /\ queue # <<>>
  /\ queue' = Tail(queue)
  /\ slot' = IF ReadRows(Head(queue).ids) = Empty THEN slot
             ELSE [slot EXCEPT ![w] = [pc |-> "writing", job |-> Head(queue),
                                       snap |-> ReadRows(Head(queue).ids)]]
  /\ crossed' = [crossed EXCEPT ![w] = {}]
  /\ UNCHANGED <<mem, older, remote, fetch, last, failures, crashes, up, stale>>

\* Fault: a row that is already there is left alone (DO NOTHING).
InsertedOnly(w) ==
  [i \in DOMAIN remote \cup DOMAIN slot[w].snap |->
     IF i \in DOMAIN remote THEN remote[i] ELSE slot[w].snap[i]]

\* Fault: the batch replaces the table.
Replaced(w) == slot[w].snap

\* The central table after the upserts of a handler.
Upserted(w) ==
  [i \in DOMAIN remote \cup DOMAIN slot[w].snap |->
     IF i \in DOMAIN slot[w].snap THEN slot[w].snap[i] ELSE remote[i]]

\* Handler w stores its rows: it has crossed every other that is at them.
Crossing(w) ==
  [v \in Workers |-> IF v = w \/ slot[v].pc = "idle" THEN {}
                     ELSE crossed[v] \cup (DOMAIN slot[v].snap \cap DOMAIN slot[w].snap)]

\* writeBatch(): the transaction commits all rows.
Commit(w) ==
  /\ slot[w].pc = "writing"
  /\ DOMAIN slot[w].snap \cap Poison = {}
  /\ remote' = Upserted(w)
  /\ slot' = [slot EXCEPT ![w].pc = "committed"]
  /\ crossed' = Crossing(w)
  /\ UNCHANGED <<mem, older, queue, fetch, last, failures, crashes, up, stale>>

\* Fault: the attempts are counted down from the job's own counter.
RequeuedDown(job) == Append(queue, [job EXCEPT !.tries = @ - 1])

\* A failed attempt: back in the queue, or given up after MaxAttempts.
Requeued(job) ==
  IF job.tries + 1 < MaxAttempts
    THEN Append(queue, [job EXCEPT !.tries = @ + 1]) ELSE queue

\* Fault: the error of the transaction is swallowed, the handler goes on.
SwallowedFailure(w) ==
  /\ slot[w].pc = "writing"
  /\ failures < MaxFailures
  /\ failures' = failures + 1
  /\ slot' = [slot EXCEPT ![w].pc = "committed"]
  /\ UNCHANGED <<mem, older, queue, remote, fetch, last, crashes, up, stale, crossed>>

\* writeBatch() throws: one bad row rolls back the batch, and so does a
\* failure of the connection, unless the COMMIT had reached the server.
WriteFails(w) ==
  /\ slot[w].pc = "writing"
  /\ IF DOMAIN slot[w].snap \cap Poison # {}
       THEN UNCHANGED <<remote, failures>> /\ crossed' = [crossed EXCEPT ![w] = {}]
       ELSE /\ failures < MaxFailures
            /\ failures' = failures + 1
            /\ \/ remote' = remote /\ crossed' = [crossed EXCEPT ![w] = {}]
               \/ remote' = Upserted(w) /\ crossed' = Crossing(w)
  /\ queue' = Requeued(slot[w].job)
  /\ slot' = [slot EXCEPT ![w] = Idle]
  /\ UNCHANGED <<mem, older, fetch, last, crashes, up, stale>>

\* markSynced() of every row the handler read, whatever it holds by now.
Mark(w) ==
  /\ slot[w].pc = "committed"
  /\ mem' = [i \in DOMAIN mem |->
               IF i \in DOMAIN slot[w].snap THEN [mem[i] EXCEPT !.synced = TRUE] ELSE mem[i]]
  /\ slot' = [slot EXCEPT ![w] = Idle]
  /\ crossed' = [crossed EXCEPT ![w] = {}]
  /\ UNCHANGED <<older, queue, remote, fetch, last, failures, crashes, up, stale>>

\* The worker process dies under a handler; BullMQ redelivers the stalled job.
WorkerCrash(w) ==
  /\ slot[w].pc # "idle"
  /\ crashes < MaxCrashes
  /\ crashes' = crashes + 1
  /\ queue' = Append(queue, slot[w].job)
  /\ slot' = [slot EXCEPT ![w] = Idle]
  /\ crossed' = [crossed EXCEPT ![w] = {}]
  /\ UNCHANGED <<mem, older, remote, fetch, last, failures, up, stale>>

-----------------------------------------------------------------------------
\* The orders in which the rows of a fetch may be inserted.
Insertions == {s \in UNION {[1 .. n -> Ids] : n \in 0 .. RefreshK} :
                 \A j, k \in DOMAIN s : s[j] = s[k] => j = k}

Work(w) == Begin(w) \/ Commit(w) \/ WriteFails(w) \/ Mark(w)

Next ==
  \/ Poll \/ FetchFails \/ Stop \/ Restart
  \/ \E i \in Ids : Get(i) \/ \E V \in SUBSET Ids : Set(i, V)
  \/ \E V \in SUBSET Ids : Forget(V) \/ StartFetch(V)
  \/ \E s \in Insertions : CrashLanding(s) \/ \E V \in SUBSET Ids : FinishFetch(s, V)
  \/ \E w \in Workers : Work(w) \/ WorkerCrash(w)

Spec == Init /\ [][Next]_vars

\* The timer keeps firing, a stopped process is restarted, and handlers run
\* to their end; nothing obliges a client to write, or a fetch to return.
FairSpec == /\ Spec
            /\ WF_vars(Poll) /\ WF_vars(Restart)
            /\ \A w \in Workers : WF_vars(Work(w))
-----------------------------------------------------------------------------
(* Properties *)

IsDirty(i) == i \in DOMAIN mem /\ ~mem[i].synced

\* A row that counts as synced has a copy in the central table, whatever
\* handlers overlap, fail or die, and wherever the row came from.
SyncedIsStored == \A i \in DOMAIN mem : mem[i].synced => i \in DOMAIN remote

\* And that copy is the content the row holds now.
SyncedIsCurrent ==
  \A i \in DOMAIN mem : mem[i].synced =>
    i \in DOMAIN remote /\ remote[i] = mem[i].content

\* A step that takes the dirt of a row off finds its content or a newer one
\* stored, or is the end of a handler that read the row before its last write,
\* or whose row another handler has stored over.
CleansStored ==
  \A i \in DOMAIN mem \cap DOMAIN mem' :
    ~mem[i].synced /\ mem'[i].synced =>
      \/ i \in DOMAIN remote /\ remote[i] >= mem[i].content
      \/ \E w \in Workers : /\ slot[w].pc = "committed"
                            /\ i \in DOMAIN slot[w].snap
                            /\ slot[w].snap[i] < mem[i].content \/ i \in crossed[w]

\* When a row loses its dirt without its content or a newer one being stored, a
\* write came between the reading of the row and its marking, or an overlapping
\* handler stored it between the two: no failure, crash, redelivery or landing
\* loses one by itself.
LossNeedsOverlap == [][CleansStored]_vars

\* A step loses no row of the central table, and what replaces a newer version
\* is a version that a fetch had inserted too late, or one that a handler read
\* before another one stored the row.
RegressIsOvertaken ==
  \A i \in DOMAIN remote :
    /\ i \in DOMAIN remote'
    /\ remote'[i] < remote[i] =>
         \/ remote'[i] \in stale
         \/ \E w \in Workers : /\ slot[w].pc = "writing" /\ slot'[w].pc # "writing"
                               /\ i \in crossed[w]
                               /\ remote'[i] = slot[w].snap[i]

\* The central table goes back to an older version of a row in two ways only: a
\* fetch has inserted that version when a newer one had been stored already, or
\* was being stored, or two handlers at the row store in the opposite order of
\* their reads.  One handler after the other never does it, whatever fails,
\* dies or is redelivered.
RegressNeedsOvertaking == [][RegressIsOvertaken]_vars

\* A copy that is stored, current and acknowledged.
Acknowledged(i) ==
  i \in DOMAIN mem /\ mem[i].synced /\ i \in DOMAIN remote /\ remote[i] = mem[i].content

\* Nothing older replaces it: no poll would send it again.
AcknowledgedStays ==
  [][\A i \in Ids : Acknowledged(i) => i \in DOMAIN remote' /\ remote'[i] >= remote[i]]_vars

\* A dirty row is synced or gone at some later time, whatever the other rows
\* of its batches are.
DirtyIsFlushed == \A i \in Ids \ Poison : IsDirty(i) ~> ~IsDirty(i)

\* To its clients the table of this module is a table of memories.
Table == INSTANCE MemoryTable WITH Contents <- Versions

ImplementsTable == Table!Spec
=============================================================================
