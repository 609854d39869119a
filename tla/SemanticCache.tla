--------------------------- MODULE SemanticCache ----------------------------
(***************************************************************************)
(* One SemanticCache object on its SQLite file (src/cache/SemanticCache.ts)*)
(* and the process around it.  Every public method is synchronous, so it   *)
(* is one action; what interleaves is timers, remote fetches that land     *)
(* between two calls, the two halves of close(), a crash and the next      *)
(* start.  But each statement of a method commits on its own, so that a    *)
(* crash in the middle of one leaves a file no whole call leaves.          *)
(* `totalBytes' is the byte count the object keeps by hand beside the      *)
(* table it is supposed to describe.                                       *)
(***************************************************************************)
EXTENDS Eviction

CONSTANTS
  Ids, Contents, Goals,
  RefreshK,            \* refreshAheadK: rows a remote fetch may return
  SearchRows,          \* searchScanRows
  MaxTime, MaxHits, MaxFetches   \* bounds of the model, not of the code

ASSUME CacheAssumption ==
  /\ IsFiniteSet(Ids)
  /\ SizeOf \in [Contents -> Nat \ {0}]
  /\ Similarity \in [Contents -> [Goals -> Nat]]
  /\ RefreshK \in Nat /\ SearchRows \in Nat \ {0}
  /\ MaxTime \in Nat /\ MaxHits \in Nat /\ MaxFetches \in Nat
  /\ NoGoal \notin Goals

VARIABLES
  table,         \* the rows of the SQLite table; survives the process
  totalBytes,    \* this.totalBytes
  now,           \* Date.now()
  goal,          \* this.currentGoal
  fetches,       \* refreshAhead calls that wait for the remote store
  phase          \* "open", "closing" (closed = true, queue closing), "closed"
                 \* (database shut), "down" (no process)

vars == <<table, totalBytes, now, goal, fetches, phase>>

Row == [content : Contents, size : Nat \ {0}, at : Nat, hits : Nat, synced : BOOLEAN]

TypeOK ==
  /\ DOMAIN table \subseteq Ids
  /\ \A i \in DOMAIN table : table[i] \in Row
  /\ totalBytes \in Nat
  /\ now \in Nat
  /\ goal \in Goals \cup {NoGoal}
  /\ fetches \in Nat
  /\ phase \in {"open", "closing", "closed", "down"}

Init ==
  /\ table = [i \in {} |-> i]
  /\ totalBytes = 0
  /\ now = 0
  /\ goal = NoGoal
  /\ fetches = 0
  /\ phase = "open"

-----------------------------------------------------------------------------
\* Statements can run: close() shuts the database last.
DbOpen == phase \in {"open", "closing"}

\* Delete one of the sets of victims from t, whose running total is b.
Evict(t, b, Victims) ==
  \E V \in Victims : /\ table' = Without(t, V)
                     /\ totalBytes' = b - Bytes(t, V)

Tick == /\ now < MaxTime
        /\ now' = now + 1
        /\ UNCHANGED <<table, totalBytes, goal, fetches, phase>>

\* The row set() upserts: it keeps access_count and makes the row dirty.
Written(i, c) ==
  [content |-> c, size |-> SizeOf[c], at |-> now,
   hits |-> IF i \in DOMAIN table THEN table[i].hits ELSE 0, synced |-> FALSE]

\* Fault: the size of the row that was there is not taken off.
SizeAdded(i, c) == SizeOf[c]

\* size - prevSize
SizeChange(i, c) == SizeOf[c] - (IF i \in DOMAIN table THEN table[i].size ELSE 0)

Set(i, c) ==
  LET new == With(table, i, Written(i, c))
      total == totalBytes + SizeChange(i, c)
  IN /\ DbOpen
     /\ Evict(new, total, Tier1Victims(new, total, now))
     /\ UNCHANGED <<now, goal, fetches, phase>>

\* get() of a row that is there; any other get() changes nothing.
Get(i) ==
  /\ DbOpen
  /\ i \in DOMAIN table
  /\ table[i].hits < MaxHits
  /\ table' = [table EXCEPT ![i].at = now, ![i].hits = @ + 1]
  /\ UNCHANGED <<totalBytes, now, goal, fetches, phase>>

Delete(i) ==
  /\ DbOpen
  /\ i \in DOMAIN table
  /\ Evict(table, totalBytes, {{i}})
  /\ UNCHANGED <<now, goal, fetches, phase>>

\* tier2Compress(), from its timer or from compact().
Compress ==
  /\ Evict(table, totalBytes, Tier2Victims(table, totalBytes, now, goal))
  /\ UNCHANGED <<now, goal, fetches, phase>>

\* compact() does not look at `closed'; it fails only once the file is shut.
Compact == DbOpen /\ Compress

Tier2Tick == phase = "open" /\ Compress

\* setGoal() with a remote store: fire refreshAhead and return.
SetGoal(g) ==
  /\ phase # "down"
  /\ fetches < MaxFetches
  /\ goal' = g
  /\ fetches' = fetches + 1
  /\ UNCHANGED <<table, totalBytes, now, phase>>

\* Fault: what the remote store sent replaces the local rows.
AllFetched(resp) == DOMAIN resp

\* The fetched rows that sHas does not find.
Absent(resp) == DOMAIN resp \ DOMAIN table

\* The table with those rows, synced, as if just used.
Prefetched(resp) ==
  [i \in DOMAIN table \cup Absent(resp) |->
     IF i \in Absent(resp)
       THEN [content |-> resp[i], size |-> SizeOf[resp[i]], at |-> now,
             hits |-> 0, synced |-> TRUE]
       ELSE table[i]]

\* refreshAhead() after its await: resp maps the ids fetched to contents.
RefreshAhead(resp) ==
  LET new == Prefetched(resp)
      total == totalBytes + Bytes(new, Absent(resp))
  IN /\ DbOpen
     /\ fetches > 0
     /\ fetches' = fetches - 1
     /\ Evict(new, total, Tier1Victims(new, total, now))
     /\ UNCHANGED <<now, goal, phase>>

\* fetchTopK rejects, or resolves when the database is shut.
FetchFails == /\ fetches > 0
              /\ fetches' = fetches - 1
              /\ UNCHANGED <<table, totalBytes, now, goal, phase>>

\* markSynced(): one transaction, whatever the rows hold by now.
MarkSynced(S) ==
  /\ DbOpen
  /\ S \cap DOMAIN table # {}
  /\ table' = [i \in DOMAIN table |-> IF i \in S THEN [table[i] EXCEPT !.synced = TRUE]
                                      ELSE table[i]]
  /\ UNCHANGED <<totalBytes, now, goal, fetches, phase>>

\* close() up to its await, and from there on.
Close == /\ phase = "open"
         /\ phase' = "closing"
         /\ UNCHANGED <<table, totalBytes, now, goal, fetches>>

CloseDb == /\ phase = "closing"
           /\ phase' = "closed"
           /\ UNCHANGED <<table, totalBytes, now, goal, fetches>>

\* The process dies: the object is gone, and the file is what it is by then.
Die == /\ phase # "down"
       /\ phase' = "down"
       /\ totalBytes' = 0
       /\ goal' = NoGoal
       /\ fetches' = 0
       /\ UNCHANGED now

Crash == Die /\ UNCHANGED table

\* It dies in set(), with the row in: before the prune or on its way.
CrashInSet(i, c) ==
  LET new == With(table, i, Written(i, c))
  IN /\ DbOpen
     /\ Die
     /\ \E V \in BegunTier1(new, totalBytes + SizeChange(i, c), now) :
          table' = Without(new, V)

\* It dies in refreshAhead(), with the rows of resp in: before the last of them
\* is marked, or in the prune after the loop.
CrashInLanding(resp) ==
  LET new == Prefetched(resp)
  IN /\ DbOpen
     /\ fetches > 0
     /\ Die
     /\ \/ \E d \in Absent(resp) : table' = [new EXCEPT ![d].synced = FALSE]
        \/ \E V \in BegunTier1(new, totalBytes + Bytes(new, Absent(resp)), now) :
             table' = Without(new, V)

\* It dies in a pass of tier 2.
CrashInCompress ==
  /\ DbOpen
  /\ Die
  /\ \E V \in BegunTier2(table, totalBytes, now, goal) : table' = Without(table, V)

\* Fault: the counter of a new object starts at 0 whatever the file holds.
ReopenAtZero == /\ phase \in {"closed", "down"}
                /\ phase' = "open"
                /\ totalBytes' = 0
                /\ goal' = NoGoal
                /\ fetches' = 0
                /\ UNCHANGED <<table, now>>

\* A new object on the file: the constructor sums size_bytes over the file.
Reopen == /\ phase \in {"closed", "down"}
          /\ phase' = "open"
          /\ totalBytes' = Bytes(table, DOMAIN table)
          /\ goal' = NoGoal
          /\ fetches' = 0
          /\ UNCHANGED <<table, now>>

\* What fetchTopK may return: at most RefreshK rows.
Responses == UNION {[S -> Contents] : S \in {T \in SUBSET Ids : Cardinality(T) <= RefreshK}}

Next ==
  \/ Tick \/ Compact \/ Tier2Tick \/ FetchFails \/ Close \/ CloseDb
  \/ Crash \/ CrashInCompress \/ Reopen
  \/ \E i \in Ids : Get(i) \/ Delete(i) \/ \E c \in Contents : Set(i, c) \/ CrashInSet(i, c)
  \/ \E g \in Goals : SetGoal(g)
  \/ \E resp \in Responses : RefreshAhead(resp) \/ CrashInLanding(resp)
  \/ \E S \in SUBSET Ids : MarkSynced(S)

Spec == Init /\ [][Next]_vars

\* setInterval fires tier 2 for as long as the cache is open.
FairSpec == Spec /\ WF_vars(Tier2Tick)
-----------------------------------------------------------------------------
(* Properties *)

\* The counter kept by hand across upserts, both eviction tiers, prefetches
\* that land at any moment, close() and restarts is the size of the table.
ByteAccounting == phase # "down" => totalBytes = Bytes(table, DOMAIN table)

\* A call that makes rows of the ids I evicts as many rows as a statement of
\* tier 1 may.
SpendsBatch(I) == Cardinality((DOMAIN table \cup I) \ DOMAIN table') >= PruneBatch

\* set() and a landing end above the budget for no other reason than the limit
\* on a prune, even in an object that a crash had made to start above its budget.
OvershootSpendsBatch ==
  [][totalBytes' > MaxBytes =>
       /\ \A i \in Ids : SpendsBatch({i}) \/ \A c \in Contents : ~Set(i, c)
       /\ \A resp \in Responses : SpendsBatch(DOMAIN resp) \/ ~RefreshAhead(resp)]_vars

\* Row v is fresher than s, used as often and as relevant to the goal.
Dominates(v, s) ==
  /\ table[v].at > table[s].at
  /\ table[v].hits >= table[s].hits
  /\ Worth([table[v] EXCEPT !.hits = 0], goal) >= Worth([table[s] EXCEPT !.hits = 0], goal)

\* The calls that may evict on their own account.
Evicting == \/ Compress
            \/ \E i \in Ids, c \in Contents : Set(i, c)
            \/ \E resp \in Responses : RefreshAhead(resp)

\* If this step evicts on its own account, each row it spares is one that no row
\* it evicts dominates.
SparesNoWorse ==
  \A v \in DOMAIN table \ DOMAIN table', s \in DOMAIN table \cap DOMAIN table' :
    table'[s] = table[s] /\ Dominates(v, s) => ~Evicting

\* Neither tier, nor one after the other in the same call, evicts a row and
\* keeps, as it was, one that the row dominates.
DominatedGoFirst == [][SparesNoWorse]_vars

\* search() considers a row that is at least as close to the query as any.
SearchSeesClosest ==
  \A g \in Goals, S \in Searched(table, SearchRows) :
    \A j \in DOMAIN table : \E i \in S :
      Similarity[table[i].content][g] >= Similarity[table[j].content][g]

\* No pass of tier 2 spins above its target, whatever the goal, the hits and the
\* ages: each gives bytes back, however small the part of the table it scans, and
\* only that part's end stops it short of the target.  (A pass that deletes
\* nothing changes nothing, so this speaks of the victims and not of the step.)
PassesRecede ==
  DbOpen /\ totalBytes > Target =>
    \A V \in Tier2Victims(table, totalBytes, now, goal) :
      /\ Bytes(table, V) > 0
      /\ totalBytes - Bytes(table, V) <= Target \/ Cardinality(V) >= ScanRows

\* However far a limited prune lets the total run, or a crash before its prune
\* made the next object start with, tier 2 brings it back to the target while
\* the cache stays open.
BudgetRecovered ==
  totalBytes > Target ~> (totalBytes <= Target \/ phase # "open")

\* The rows, seen without sizes and clocks, are a table of memories.
Table == INSTANCE MemoryTable WITH
  mem <- [i \in DOMAIN table |-> [content |-> table[i].content, synced |-> table[i].synced]]

ImplementsTable == Table!Spec
=============================================================================
