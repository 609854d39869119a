------------------------------ MODULE EdgeNode ------------------------------
(***************************************************************************)
(* The two processes the repository ships, on one SQLite file: the server  *)
(* (src/ingestor/server.ts: a cache and a controller) and the sync worker  *)
(* (src/worker.ts: a cache of its own).  Each cache keeps its own counter  *)
(* for the one table.  Inside a process calls run to their end, but the    *)
(* other process gets in between the DELETE statements of a loop, so an    *)
(* eviction is a scan that makes a plan and one step per row.  The         *)
(* statements a call runs before its first DELETE are one step.            *)
(***************************************************************************)
EXTENDS SemanticController

CONSTANTS
  Ids, Contents, Goals,
  WorkerBytes,       \* maxBytes of the worker's cache
  PolicyMax,         \* policyMaxBytes of the server's controller
  MaxTime, MaxWrites, MaxStops     \* bounds of the model, not of the code

ASSUME NodeAssumption ==
  /\ IsFiniteSet(Ids)
  /\ SizeOf \in [Contents -> Nat \ {0}]
  /\ WorkerBytes \in Nat /\ PolicyMax \in Nat
  /\ EvictPercent \in Nat /\ PoolPercent \in Nat /\ MinPool \in Nat
  /\ Recency \in [0 .. MaxTime -> Nat]
  /\ \A a, b \in 0 .. MaxTime : a <= b => Recency[b] <= Recency[a]
  /\ Importance \in [Contents -> Nat \ {0}]
  /\ MaxTime \in Nat /\ MaxWrites \in Nat /\ MaxStops \in Nat
  /\ NoGoal \notin Goals

\* The cache of the worker: the same code with the default budget.
Worker == INSTANCE Eviction WITH MaxBytes <- WorkerBytes

Procs == {"server", "worker"}

VARIABLES
  table,      \* the rows of the file
  counter,    \* totalBytes of each process's cache
  plan,       \* the rows each process has still to delete, as it scanned them
  up,         \* the processes that run
  now,
  writes, stops,
  meddled     \* history: the worker has deleted a row since the server's start

vars == <<table, counter, plan, up, now, writes, stops, meddled>>

Row == [content : Contents, size : Nat, at : Nat, hits : {0}]
NoPlan == [rows |-> [i \in {} |-> i], byPolicy |-> FALSE]
Busy(p) == DOMAIN plan[p].rows # {}
Runs(p) == p \in up /\ ~Busy(p)

TypeOK ==
  /\ DOMAIN table \subseteq Ids
  /\ \A i \in DOMAIN table : table[i] \in Row
  /\ counter \in [Procs -> Int] /\ counter["server"] \in Nat
  /\ DOMAIN plan = Procs
  /\ \A p \in Procs : /\ DOMAIN plan[p].rows \subseteq Ids
                      /\ \A i \in DOMAIN plan[p].rows : plan[p].rows[i].size \in Nat
                      /\ plan[p].byPolicy \in BOOLEAN
  /\ up \subseteq Procs
  /\ now \in 0 .. MaxTime
  /\ writes \in 0 .. MaxWrites /\ stops \in 0 .. MaxStops
  /\ meddled \in BOOLEAN

Init ==
  /\ table = [i \in {} |-> i]
  /\ counter = [p \in Procs |-> 0]
  /\ plan = [p \in Procs |-> NoPlan]
  /\ up = {} /\ now = 0 /\ writes = 0 /\ stops = 0
  /\ meddled = FALSE

-----------------------------------------------------------------------------
Tick == /\ now < MaxTime
        /\ now' = now + 1
        /\ UNCHANGED <<table, counter, plan, up, writes, stops, meddled>>

\* Process p has the table t and the counter b, and will delete the rows V.
Continue(p, t, b, V, policy) ==
  /\ table' = t
  /\ counter' = [counter EXCEPT ![p] = b]
  /\ plan' = [plan EXCEPT ![p] =
                IF V = {} THEN NoPlan
                ELSE [rows |-> [i \in V |-> [size |-> t[i].size]], byPolicy |-> policy]]

\* What tier 1 leaves to its LRU loop once the TTL statement has run.
Overdue(t, b) ==
  IF b <= Target THEN {{}}
  ELSE UNION {Drained(t, C, ColdOrder(t), b) :
                C \in FirstRows(DOMAIN t, PruneBatch, ColdOrder(t))}

\* The counter of the server, once row i holds content c.
CountedWith(i, c) ==
  counter["server"] + SizeOf[c] - (IF i \in DOMAIN table THEN table[i].size ELSE 0)

\* POST /ingest: set() upserts, and prunes if the counter is above the budget.
Ingest(i, c) ==
  LET new == With(table, i, [content |-> c, size |-> SizeOf[c], at |-> now, hits |-> 0])
      total == CountedWith(i, c)
  IN /\ Runs("server")
     /\ writes < MaxWrites
     /\ writes' = writes + 1
     /\ \E X \in IF total > MaxBytes THEN Expired(new, now) ELSE {{}} :
          LET rest == Without(new, X)
              left == total - Bytes(new, X)
          IN \E V \in IF total > MaxBytes THEN Overdue(rest, left) ELSE {{}} :
               Continue("server", rest, left, V, FALSE)
     /\ UNCHANGED <<up, now, stops, meddled>>

\* The tier 2 timer of the server, for whatever goal its sessions have set.
ServerTier2 ==
  /\ Runs("server")
  /\ \E g \in Goals \cup {NoGoal} :
       \E V \in Tier2Victims(table, counter["server"], now, g) :
         Continue("server", table, counter["server"], V, FALSE)
  /\ UNCHANGED <<up, now, writes, stops, meddled>>

\* The policy timer of the server: compact() of the controller.
PolicyTick ==
  /\ Runs("server")
  /\ counter["server"] >= PolicyMax
  /\ \E V \in PolicyVictims(table, now) :
       Continue("server", table, counter["server"], V, TRUE)
  /\ UNCHANGED <<up, now, writes, stops, meddled>>

\* The tier 2 timer of the worker, whose cache never has a goal.
WorkerTier2 ==
  /\ Runs("worker")
  /\ \E V \in Worker!Tier2Victims(table, counter["worker"], now, NoGoal) :
       Continue("worker", table, counter["worker"], V, FALSE)
  /\ UNCHANGED <<up, now, writes, stops, meddled>>

\* Fault: what the scan said is taken off twice.
TwiceFreed(p, i) == 2 * plan[p].rows[i].size

\* What deleting row i takes off the counter: the loops of both tiers trust
\* their scan, while delete() looks first and counts a row that is gone as 0.
Freed(p, i) ==
  IF ~plan[p].byPolicy THEN plan[p].rows[i].size
  ELSE IF i \in DOMAIN table THEN table[i].size ELSE 0

\* One DELETE of a loop; a plan's rows go in any order.
Remove(p, i) ==
  /\ p \in up
  /\ i \in DOMAIN plan[p].rows
  /\ table' = Without(table, {i})
  /\ counter' = [counter EXCEPT ![p] = @ - Freed(p, i)]
  /\ plan' = [plan EXCEPT ![p] =
                IF DOMAIN @.rows = {i} THEN NoPlan
                ELSE [rows |-> Without(@.rows, {i}), byPolicy |-> @.byPolicy]]
  /\ meddled' = (meddled \/ (p = "worker" /\ i \in DOMAIN table))
  /\ UNCHANGED <<up, now, writes, stops>>

\* Fault: a new object starts its counter at 0.
CountedAtStart == 0

\* The constructor sums size_bytes over the file.
BytesOnFile == Bytes(table, DOMAIN table)

Start(p) ==
  /\ p \notin up
  /\ up' = up \cup {p}
  /\ counter' = [counter EXCEPT ![p] = BytesOnFile]
  /\ meddled' = (meddled /\ p # "server")
  /\ UNCHANGED <<table, plan, now, writes, stops>>

\* SIGTERM between two calls, or a crash anywhere: a loop ends where it is.
Stop(p) ==
  /\ p \in up
  /\ stops < MaxStops
  /\ stops' = stops + 1
  /\ up' = up \ {p}
  /\ counter' = [counter EXCEPT ![p] = 0]
  /\ plan' = [plan EXCEPT ![p] = NoPlan]
  /\ UNCHANGED <<table, now, writes, meddled>>

ServerRemoves == \E i \in Ids : Remove("server", i)

Next ==
  \/ Tick \/ ServerTier2 \/ PolicyTick \/ WorkerTier2 \/ ServerRemoves
  \/ \E i \in Ids : Remove("worker", i) \/ \E c \in Contents : Ingest(i, c)
  \/ \E p \in Procs : Start(p) \/ Stop(p)

Spec == Init /\ [][Next]_vars

\* The policy timer fires, and a loop of synchronous statements goes on.
FairSpec == Spec /\ WF_vars(PolicyTick) /\ WF_vars(ServerRemoves)
-----------------------------------------------------------------------------
(* Properties *)

\* Whatever the worker deletes under its feet, at any statement, the server
\* counts at least the bytes that are there: its budget bounds the file.
NeverUndercounts == "server" \in up => counter["server"] >= Bytes(table, DOMAIN table)

\* And it counts exactly these until the worker deletes a row: upserts, both
\* tiers, the policy and crashes in the middle of a loop keep them equal.
DriftNeedsWorker ==
  "server" \in up /\ ~meddled => counter["server"] = Bytes(table, DOMAIN table)

\* Row v says what no other row says.
Unique(v) == \A j \in DOMAIN table \ {v} : ~Alike[table[v].content][table[j].content]

\* If this step begins a pass of the policy, a row it will delete is not unique
\* when it spares an older one of no more importance.
SparesUnique ==
  \A v \in DOMAIN plan'["server"].rows, s \in DOMAIN table \ DOMAIN plan'["server"].rows :
    /\ ~Busy("server") /\ plan'["server"].byPolicy
    /\ table[s].at < table[v].at
    /\ Importance[table[s].content] <= Importance[table[v].content]
    => ~Unique(v)

\* A pass of the policy that spares an older memory of no more importance
\* does not evict a unique one: redundancy never protects a row.
UniqueOutlivesStale == [][SparesUnique]_vars

\* Above its threshold the policy works the counter down, though it evicts a
\* share of the rows and not of the bytes, unless nothing is left to evict.
PolicyRecovers ==
  counter["server"] >= PolicyMax ~> \/ counter["server"] < PolicyMax
                                    \/ DOMAIN table = {}
                                    \/ "server" \notin up
=============================================================================
