--------------------------- MODULE EdgeNodeProofs ---------------------------
(* The server's counter bounds the file that it shares with the worker, and *)
(* is exact until the worker deletes a row: for all ids, contents, sizes,   *)
(* budgets and fractions, and whatever order the DELETE statements take.    *)
EXTENDS EdgeNode, EvictionProofs

\* Typed(t): t is a table of rows; Planned(P): P is what is left of a plan.
Typed(t) == DOMAIN t \subseteq Ids /\ \A i \in DOMAIN t : t[i] \in Row
Planned(P) == P \in UNION {[V -> [size : Nat]] : V \in SUBSET Ids}

\* A counter b covers the rows of t and those that its owner, who has P left
\* to delete, will still take off it although another process has deleted
\* them.  This is what survives every DELETE of either process.
Covers(t, P, b) ==
  /\ \A i \in DOMAIN P \cap DOMAIN t : P[i].size = t[i].size
  /\ b >= Bytes(t, DOMAIN t) + Bytes(P, DOMAIN P \ DOMAIN t)

Exact(t, P, b) == b = Bytes(t, DOMAIN t) /\ DOMAIN P \subseteq DOMAIN t

Plan == [rows : UNION {[V -> [size : Nat]] : V \in SUBSET Ids}, byPolicy : BOOLEAN]

TypeInv ==
  /\ Typed(table)
  /\ counter \in [Procs -> Int]
  /\ plan \in [Procs -> Plan]
  /\ up \subseteq Procs
  /\ now \in 0 .. MaxTime
  /\ writes \in 0 .. MaxWrites /\ stops \in 0 .. MaxStops
  /\ meddled \in BOOLEAN

IInv ==
  /\ TypeInv
  /\ "server" \in up => Covers(table, plan["server"].rows, counter["server"])
  /\ "server" \in up /\ ~meddled => Exact(table, plan["server"].rows, counter["server"])
  /\ "server" \notin up => counter["server"] = 0 /\ plan["server"] = NoPlan

-----------------------------------------------------------------------------
\* Tables and plans are finite and have sizes.
LEMMA TypedIsSized ==
  ASSUME NEW t, Typed(t)
  PROVE  Sized(t, DOMAIN t) /\ Bytes(t, DOMAIN t) \in Nat
<1>1. IsFiniteSet(DOMAIN t)
  BY NodeAssumption, FS_Subset DEF Typed
<1>2. Sized(t, DOMAIN t)
  BY <1>1 DEF Sized, Typed, Row
<1>3. QED
  BY <1>2, BytesType

LEMMA PlannedIsSized ==
  ASSUME NEW P, Planned(P), NEW V \in SUBSET DOMAIN P
  PROVE  Sized(P, V) /\ Bytes(P, V) \in Nat
<1>1. PICK W \in SUBSET Ids : P \in [W -> [size : Nat]]
  BY DEF Planned
<1>2. IsFiniteSet(V)
  BY <1>1, NodeAssumption, FS_Subset
<1>3. Sized(P, V)
  BY <1>1, <1>2 DEF Sized
<1>4. QED
  BY <1>3, BytesType

\* A table less one row.
LEMMA WithoutOne ==
  ASSUME NEW t, Typed(t), NEW i
  PROVE  /\ Typed(Without(t, {i}))
         /\ DOMAIN Without(t, {i}) = DOMAIN t \ {i}
         /\ Bytes(Without(t, {i}), DOMAIN Without(t, {i})) =
              Bytes(t, DOMAIN t) - (IF i \in DOMAIN t THEN t[i].size ELSE 0)
<1> DEFINE u == Without(t, {i})
<1>1. Sized(t, DOMAIN t) /\ Bytes(t, DOMAIN t) \in Nat
  BY TypedIsSized
<1>2. DOMAIN u = DOMAIN t \ {i} /\ \A j \in DOMAIN u : u[j] = t[j]
  BY DEF Without
<1>3. Typed(u)
  BY <1>2 DEF Typed
<1>4. CASE i \in DOMAIN t
  <2>1. Bytes(u, DOMAIN t \ {i}) = Bytes(t, DOMAIN t) - Bytes(t, {i})
    BY <1>1, <1>4, BytesWithout
  <2>2. Bytes(t, {i}) = t[i].size
    BY <1>1, <1>4, BytesOfOne DEF Sized
  <2>3. QED
    BY <1>2, <1>3, <1>4, <2>1, <2>2
<1>5. CASE i \notin DOMAIN t
  <2>1. DOMAIN u = DOMAIN t /\ \A j \in DOMAIN t : u[j].size = t[j].size
    BY <1>2, <1>5
  <2>2. Bytes(u, DOMAIN t) = Bytes(t, DOMAIN t)
    BY <2>1, BytesCongruence
  <2>3. QED
    BY <1>1, <1>2, <1>3, <1>5, <2>1, <2>2
<1>6. QED
  BY <1>4, <1>5

\* What row i adds to the bytes of some rows of a plan.
LEMMA OwedWith ==
  ASSUME NEW P, Planned(P), NEW i \in DOMAIN P, NEW V \in SUBSET DOMAIN P
  PROVE  Bytes(P, V \cup {i}) = Bytes(P, V \ {i}) + P[i].size
<1> DEFINE all == V \cup {i}
<1>1. all \in SUBSET DOMAIN P /\ {i} \in SUBSET all
  OBVIOUS
<1>2. all \ {i} = V \ {i}
  OBVIOUS
<1>3. Sized(P, all)
  BY <1>1, PlannedIsSized
<1>4. Bytes(P, all) = Bytes(P, {i}) + Bytes(P, all \ {i})
  BY <1>1, <1>3, BytesSplit
<1>5. Bytes(P, {i}) = P[i].size /\ P[i].size \in Nat
  BY <1>3, BytesOfOne DEF Sized
<1>6. Bytes(P, V \ {i}) \in Nat
  BY PlannedIsSized
<1>7. Bytes(P, all \ {i}) = Bytes(P, V \ {i})
  BY <1>2, Zenon
<1> HIDE DEF all
<1>8. Bytes(P, all) = Bytes(P, V \ {i}) + P[i].size
  BY <1>4, <1>5, <1>6, <1>7
<1>9. QED
  BY <1>8 DEF all

-----------------------------------------------------------------------------
\* A DELETE of another process leaves the counter covering.
LEMMA OtherDeletes ==
  ASSUME NEW t, Typed(t), NEW P, Planned(P), NEW b \in Int, Covers(t, P, b), NEW i
  PROVE  Covers(Without(t, {i}), P, b)
<1> DEFINE u == Without(t, {i})
           gone == DOMAIN P \ DOMAIN t
           freed == IF i \in DOMAIN t THEN t[i].size ELSE 0
<1>1. /\ Typed(u) /\ DOMAIN u = DOMAIN t \ {i}
      /\ Bytes(u, DOMAIN u) = Bytes(t, DOMAIN t) - freed
  BY WithoutOne
<1>2. \A j \in DOMAIN P \cap DOMAIN u : P[j].size = u[j].size
  BY <1>1 DEF Covers, Without
<1>3. Bytes(t, DOMAIN t) \in Nat /\ Bytes(P, gone) \in Nat
  BY TypedIsSized, PlannedIsSized
<1>4. freed \in Nat
  BY DEF Typed, Row
<1>5. Bytes(P, DOMAIN P \ DOMAIN u) <= Bytes(P, gone) + freed
  <2>1. CASE i \in DOMAIN P /\ i \in DOMAIN t
    <3>1. DOMAIN P \ DOMAIN u = gone \cup {i} /\ gone \ {i} = gone
      BY <1>1, <2>1
    <3>2. Bytes(P, gone \cup {i}) = Bytes(P, gone \ {i}) + P[i].size
      BY <2>1, gone \in SUBSET DOMAIN P, OwedWith
    <3>3. P[i].size = freed
      BY <2>1 DEF Covers
    <3>4. Bytes(P, DOMAIN P \ DOMAIN u) = Bytes(P, gone) + freed
      BY <3>1, <3>2, <3>3, Zenon
    <3>5. QED
      BY <1>3, <1>4, <3>4
  <2>2. CASE ~(i \in DOMAIN P /\ i \in DOMAIN t)
    <3>1. DOMAIN P \ DOMAIN u = gone
      BY <1>1, <2>2
    <3>2. Bytes(P, DOMAIN P \ DOMAIN u) = Bytes(P, gone)
      BY <3>1, Zenon
    <3>3. QED
      BY <1>3, <1>4, <3>2
  <2>3. QED
    BY <2>1, <2>2
<1>6. Bytes(P, DOMAIN P \ DOMAIN u) \in Nat
  BY PlannedIsSized
<1>7. b >= Bytes(u, DOMAIN u) + Bytes(P, DOMAIN P \ DOMAIN u)
  BY <1>1, <1>3, <1>4, <1>5, <1>6 DEF Covers
<1>8. QED
  BY <1>2, <1>7 DEF Covers

\* So does a DELETE of its owner, which takes off what the scan had said, or
\* what is there.
LEMMA OwnerDeletes ==
  ASSUME NEW t, Typed(t), NEW P, Planned(P), NEW b \in Int, Covers(t, P, b),
         NEW i \in DOMAIN P,
         NEW f \in {P[i].size, IF i \in DOMAIN t THEN t[i].size ELSE 0}
  PROVE  /\ Covers(Without(t, {i}), Without(P, {i}), b - f)
         /\ Exact(t, P, b) => Exact(Without(t, {i}), Without(P, {i}), b - f)
<1> DEFINE u == Without(t, {i})
           Q == Without(P, {i})
           gone == DOMAIN P \ DOMAIN t
           freed == IF i \in DOMAIN t THEN t[i].size ELSE 0
<1>1. /\ Typed(u) /\ DOMAIN u = DOMAIN t \ {i}
      /\ Bytes(u, DOMAIN u) = Bytes(t, DOMAIN t) - freed
  BY WithoutOne
<1>2. DOMAIN Q = DOMAIN P \ {i} /\ \A j \in DOMAIN Q : Q[j] = P[j]
  BY DEF Without
<1>3. \A j \in DOMAIN Q \cap DOMAIN u : Q[j].size = u[j].size
  BY <1>1, <1>2 DEF Covers, Without
<1>4. DOMAIN Q \ DOMAIN u = gone \ {i}
  BY <1>1, <1>2
<1>5. Bytes(Q, DOMAIN Q \ DOMAIN u) = Bytes(P, gone \ {i})
  <2> DEFINE owed == gone \ {i}
  <2>1. \A j \in owed : Q[j].size = P[j].size
    BY <1>2
  <2> HIDE DEF owed, Q
  <2>2. Bytes(Q, owed) = Bytes(P, owed)
    BY <2>1, BytesCongruence
  <2>3. QED
    BY <1>4, <2>2, Zenon DEF owed
<1>6. /\ Bytes(t, DOMAIN t) \in Nat /\ Bytes(P, gone \ {i}) \in Nat
      /\ Bytes(P, gone) \in Nat /\ P[i].size \in Nat
  <2>1. Sized(P, DOMAIN P)
    BY PlannedIsSized
  <2>2. QED
    BY <2>1, TypedIsSized, PlannedIsSized DEF Sized
<1>7. freed \in Nat
  BY DEF Typed, Row
<1>8. Bytes(P, gone \cup {i}) = Bytes(P, gone \ {i}) + P[i].size
  BY gone \in SUBSET DOMAIN P, OwedWith
<1>9. CASE i \in DOMAIN t
  <2>0. gone \ {i} = gone
    BY <1>9
  <2>1. f = freed /\ Bytes(P, gone \ {i}) = Bytes(P, gone)
    BY <1>9, <2>0 DEF Covers
  <2>2. b - f >= Bytes(u, DOMAIN u) + Bytes(P, gone \ {i})
    BY <1>1, <1>6, <1>7, <2>1 DEF Covers
  <2>3. Covers(u, Q, b - f)
    BY <1>3, <1>5, <2>2 DEF Covers
  <2>4. Exact(t, P, b) => Exact(u, Q, b - f)
    BY <1>1, <1>2, <1>6, <1>7, <2>1 DEF Exact
  <2>5. QED
    BY <2>3, <2>4
<1>10. CASE i \notin DOMAIN t
  <2>0. gone \cup {i} = gone
    BY <1>10
  <2>1. freed = 0 /\ f \in {P[i].size, 0} /\ Bytes(P, gone \cup {i}) = Bytes(P, gone)
    BY <1>10, <2>0, Zenon
  <2>2. b - f >= Bytes(u, DOMAIN u) + Bytes(P, gone \ {i})
    BY <1>1, <1>6, <1>8, <2>1 DEF Covers
  <2>3. Covers(u, Q, b - f)
    BY <1>3, <1>5, <2>2 DEF Covers
  <2>4. ~Exact(t, P, b)
    BY <1>10 DEF Exact
  <2>5. QED
    BY <2>3, <2>4
<1>11. QED
  BY <1>9, <1>10
-----------------------------------------------------------------------------
\* The rows of a plan are rows of the table.
LEMMA OverdueAreRows ==
  ASSUME NEW t, NEW b, NEW V \in Overdue(t, b)
  PROVE  V \subseteq DOMAIN t
<1>1. CASE b <= Target
  BY <1>1 DEF Overdue
<1>2. CASE ~(b <= Target)
  <2>1. PICK C \in FirstRows(DOMAIN t, PruneBatch, ColdOrder(t)) :
          V \in Drained(t, C, ColdOrder(t), b)
    BY <1>2 DEF Overdue
  <2>2. QED
    BY <2>1 DEF Drained, FirstRows
<1>3. QED
  BY <1>1, <1>2

LEMMA PolicyVictimsAreRows ==
  ASSUME NEW t, NEW time, NEW V \in PolicyVictims(t, time)
  PROVE  V \subseteq DOMAIN t
<1>1. PICK C \in Pools(t) :
        V \in FirstRows(C, TargetEvict(Cardinality(DOMAIN t)), PolicyOrder(t, C, time))
  BY DEF PolicyVictims
<1>2. V \subseteq C /\ C \subseteq DOMAIN t
  BY <1>1 DEF FirstRows, Pools
<1>3. QED
  BY <1>2

LEMMA WorkerVictimsAreRows ==
  ASSUME NEW t, NEW b, NEW time, NEW V \in Worker!Tier2Victims(t, b, time, NoGoal)
  PROVE  V \subseteq DOMAIN t
<1>1. CASE b <= Worker!Target
  BY <1>1 DEF Worker!Tier2Victims
<1>2. CASE ~(b <= Worker!Target)
  <2>1. PICK C \in Worker!FirstRows(DOMAIN t, ScanRows, Worker!AgeOrder(t)) :
          V \in Worker!Drained(t, C, Worker!UtilityOrder(t, time, NoGoal), b)
    BY <1>2 DEF Worker!Tier2Victims
  <2>2. QED
    BY <2>1 DEF Worker!Drained, Worker!FirstRows
<1>3. QED
  BY <1>1, <1>2

\* A process that starts on a plan for the table t.
LEMMA PlanBegins ==
  ASSUME TypeInv, NEW p \in Procs, NEW t, Typed(t), NEW b \in Int,
         NEW V \in SUBSET DOMAIN t, NEW policy \in BOOLEAN,
         Continue(p, t, b, V, policy)
  PROVE  /\ Typed(table)' /\ (counter \in [Procs -> Int])' /\ (plan \in [Procs -> Plan])'
         /\ counter'[p] = b /\ table' = t
         /\ DOMAIN plan'[p].rows \subseteq DOMAIN t
         /\ \A i \in DOMAIN plan'[p].rows : plan'[p].rows[i].size = t[i].size
         /\ \A q \in Procs \ {p} : counter'[q] = counter[q] /\ plan'[q] = plan[q]
<1> DEFINE begun == [rows |-> [i \in V |-> [size |-> t[i].size]], byPolicy |-> policy]
<1>1. table' = t /\ counter' = [counter EXCEPT ![p] = b]
  BY DEF Continue
<1>2. plan' = [plan EXCEPT ![p] = IF V = {} THEN NoPlan ELSE begun]
  BY DEF Continue
<1>3. begun.rows \in [V -> [size : Nat]] /\ V \in SUBSET Ids
  BY DEF Typed, Row
<1>4. begun \in Plan
  BY <1>3 DEF Plan
<1>5. NoPlan \in Plan /\ DOMAIN NoPlan.rows = {}
  <2>1. NoPlan.rows \in [{} -> [size : Nat]]
    BY DEF NoPlan
  <2>2. QED
    BY <2>1 DEF NoPlan, Plan
<1>6. plan'[p] = (IF V = {} THEN NoPlan ELSE begun) /\ plan' \in [Procs -> Plan]
  BY <1>2, <1>4, <1>5 DEF TypeInv
<1>7. \A q \in Procs \ {p} : counter'[q] = counter[q] /\ plan'[q] = plan[q]
  BY <1>1, <1>2 DEF TypeInv
<1>8. counter'[p] = b /\ counter' \in [Procs -> Int]
  BY <1>1 DEF TypeInv
<1>9. /\ DOMAIN plan'[p].rows \subseteq DOMAIN t
      /\ \A i \in DOMAIN plan'[p].rows : plan'[p].rows[i].size = t[i].size
  <2>1. CASE V = {}
    BY <1>5, <1>6, <2>1
  <2>2. CASE V # {}
    BY <1>6, <2>2
  <2>3. QED
    BY <2>1, <2>2
<1>10. QED
  BY <1>1, <1>6, <1>7, <1>8, <1>9
-----------------------------------------------------------------------------
\* A counter that covers the table covers it with a plan made of its rows.
LEMMA CoversAnew ==
  ASSUME NEW t, Typed(t), NEW P, NEW b \in Int, b >= Bytes(t, DOMAIN t),
         DOMAIN P \subseteq DOMAIN t,
         \A i \in DOMAIN P : P[i].size = t[i].size
  PROVE  Covers(t, P, b)
<1>1. DOMAIN P \ DOMAIN t = {}
  OBVIOUS
<1>2. Bytes(P, {}) = 0
  BY FS_EmptySet DEF Bytes, Cells
<1>3. Bytes(P, DOMAIN P \ DOMAIN t) = 0
  BY <1>1, <1>2, Zenon
<1>4. Bytes(t, DOMAIN t) \in Nat
  BY TypedIsSized
<1>5. b >= Bytes(t, DOMAIN t) + Bytes(P, DOMAIN P \ DOMAIN t)
  BY <1>3, <1>4
<1>6. QED
  BY <1>5 DEF Covers

\* And the other way round: nothing is owed back by deleting less.
LEMMA CoversTable ==
  ASSUME NEW t, Typed(t), NEW P, Planned(P), NEW b \in Int, Covers(t, P, b)
  PROVE  b >= Bytes(t, DOMAIN t) /\ b \in Nat
<1> DEFINE owed == Bytes(P, DOMAIN P \ DOMAIN t)
<1>1. Bytes(t, DOMAIN t) \in Nat /\ owed \in Nat
  BY TypedIsSized, PlannedIsSized
<1>2. b >= Bytes(t, DOMAIN t) + owed
  BY DEF Covers
<1> HIDE DEF owed
<1>3. QED
  BY <1>1, <1>2

\* The server starts on a plan for a table that its counter covers.
LEMMA ServerBegins ==
  ASSUME IInv, "server" \in up, NEW t, Typed(t), NEW b \in Int,
         NEW V \in SUBSET DOMAIN t, NEW policy \in BOOLEAN,
         b >= Bytes(t, DOMAIN t), ~meddled => b = Bytes(t, DOMAIN t),
         Continue("server", t, b, V, policy),
         UNCHANGED <<up, now, stops, meddled>>, writes' \in 0 .. MaxWrites
  PROVE  IInv'
<1>1. "server" \in Procs /\ TypeInv
  BY DEF Procs, IInv
<1>2. /\ Typed(table)' /\ (counter \in [Procs -> Int])' /\ (plan \in [Procs -> Plan])'
      /\ counter'["server"] = b /\ table' = t
      /\ DOMAIN plan'["server"].rows \subseteq DOMAIN t
      /\ \A i \in DOMAIN plan'["server"].rows : plan'["server"].rows[i].size = t[i].size
  BY <1>1, PlanBegins
<1>3. TypeInv'
  BY <1>1, <1>2 DEF TypeInv
<1>4. Covers(t, plan'["server"].rows, b)
  BY <1>2, CoversAnew
<1>5. ~meddled => Exact(t, plan'["server"].rows, b)
  BY <1>2 DEF Exact
<1>6. QED
  BY <1>2, <1>3, <1>4, <1>5 DEF IInv

\* What IInv says of a server that runs.
LEMMA ServerCounts ==
  ASSUME IInv, "server" \in up
  PROVE  /\ Typed(table) /\ Planned(plan["server"].rows) /\ counter["server"] \in Nat
         /\ counter["server"] >= Bytes(table, DOMAIN table)
         /\ ~meddled => counter["server"] = Bytes(table, DOMAIN table)
<1>1. Typed(table) /\ counter["server"] \in Int /\ plan["server"] \in Plan
  BY DEF IInv, TypeInv, Procs
<1>2. Planned(plan["server"].rows)
  BY <1>1 DEF Plan, Planned
<1>3. counter["server"] >= Bytes(table, DOMAIN table) /\ counter["server"] \in Nat
  BY <1>1, <1>2, CoversTable DEF IInv
<1>4. QED
  BY <1>1, <1>2, <1>3 DEF IInv, Exact

LEMMA IngestKeeps ==
  ASSUME IInv, NEW i \in Ids, NEW c \in Contents, Ingest(i, c)
  PROVE  IInv'
<1> DEFINE row == [content |-> c, size |-> SizeOf[c], at |-> now, hits |-> 0]
           new == With(table, i, row)
           total == CountedWith(i, c)
<1>1. /\ "server" \in up /\ writes' = writes + 1 /\ writes < MaxWrites
      /\ UNCHANGED <<up, now, stops, meddled>>
  BY DEF Ingest, Runs
<1>2. /\ Typed(table) /\ counter["server"] \in Nat
      /\ counter["server"] >= Bytes(table, DOMAIN table)
      /\ ~meddled => counter["server"] = Bytes(table, DOMAIN table)
  BY <1>1, ServerCounts
<1>3. row \in Row /\ row.size \in Nat
  BY NodeAssumption DEF Row, IInv, TypeInv
<1>4. writes' \in 0 .. MaxWrites
  BY <1>1, NodeAssumption DEF IInv, TypeInv
<1>5. Sized(table, DOMAIN table) /\ Bytes(table, DOMAIN table) \in Nat
  BY <1>2, TypedIsSized
<1>6. /\ DOMAIN new = DOMAIN table \cup {i}
      /\ Bytes(new, DOMAIN table \cup {i}) =
           Bytes(table, DOMAIN table) + row.size - (IF i \in DOMAIN table THEN table[i].size ELSE 0)
  BY <1>3, <1>5, BytesWith
<1>7. Typed(new)
  BY <1>2, <1>3, <1>6 DEF Typed, With
<1>8. /\ Sized(new, DOMAIN new) /\ Bytes(new, DOMAIN new) \in Nat
  BY <1>7, TypedIsSized
<1>9. (IF i \in DOMAIN table THEN table[i].size ELSE 0) \in Nat
  BY <1>5 DEF Sized
<1>10. /\ total \in Int /\ total >= Bytes(new, DOMAIN new)
       /\ ~meddled => total = Bytes(new, DOMAIN new)
  BY <1>2, <1>3, <1>5, <1>6, <1>9 DEF CountedWith
<1>11. PICK X \in IF total > MaxBytes THEN Expired(new, now) ELSE {{}} :
         \E V \in IF total > MaxBytes
                     THEN Overdue(Without(new, X), total - Bytes(new, X)) ELSE {{}} :
           Continue("server", Without(new, X), total - Bytes(new, X), V, FALSE)
  BY DEF Ingest
<1> DEFINE rest == Without(new, X)
           left == total - Bytes(new, X)
<1>12. X \in SUBSET DOMAIN new
  BY <1>11 DEF Expired, FirstRows
<1>13. /\ DOMAIN rest = DOMAIN new \ X /\ Bytes(new, X) \in Nat
       /\ Bytes(rest, DOMAIN new \ X) = Bytes(new, DOMAIN new) - Bytes(new, X)
  BY <1>8, <1>12, BytesWithout
<1>14. Typed(rest)
  BY <1>7, <1>13 DEF Typed, Without
<1>15. /\ left \in Int /\ left >= Bytes(rest, DOMAIN rest)
       /\ ~meddled => left = Bytes(rest, DOMAIN rest)
  BY <1>8, <1>10, <1>13
<1>16. PICK V \in IF total > MaxBytes THEN Overdue(rest, left) ELSE {{}} :
         Continue("server", rest, left, V, FALSE)
  BY <1>11
<1>17. V \in SUBSET DOMAIN rest
  BY <1>16, OverdueAreRows
<1> HIDE DEF rest, left
<1>18. QED
  BY <1>1, <1>4, <1>14, <1>15, <1>16, <1>17, ServerBegins
-----------------------------------------------------------------------------
LEMMA EvictionsBegin ==
  ASSUME IInv, ServerTier2 \/ PolicyTick
  PROVE  IInv'
<1>1. /\ "server" \in up /\ UNCHANGED <<up, now, writes, stops, meddled>>
  BY DEF ServerTier2, PolicyTick, Runs
<1>2. PICK V \in SUBSET DOMAIN table, policy \in BOOLEAN :
        Continue("server", table, counter["server"], V, policy)
  BY Tier2VictimsAreRows, PolicyVictimsAreRows DEF ServerTier2, PolicyTick
<1>3. writes' \in 0 .. MaxWrites
  BY <1>1 DEF IInv, TypeInv
<1>4. /\ Typed(table) /\ counter["server"] \in Int
      /\ counter["server"] >= Bytes(table, DOMAIN table)
      /\ ~meddled => counter["server"] = Bytes(table, DOMAIN table)
  BY <1>1, ServerCounts
<1>5. QED
  BY <1>1, <1>2, <1>3, <1>4, ServerBegins

LEMMA WorkerTier2Keeps ==
  ASSUME IInv, WorkerTier2
  PROVE  IInv'
<1>1. PICK V \in SUBSET DOMAIN table : Continue("worker", table, counter["worker"], V, FALSE)
  BY WorkerVictimsAreRows DEF WorkerTier2
<1>2. "worker" \in Procs /\ "server" \in Procs \ {"worker"} /\ TypeInv
  BY DEF Procs, IInv
<1>3. Typed(table) /\ counter["worker"] \in Int
  BY <1>2 DEF TypeInv
<1>4. /\ Typed(table)' /\ (counter \in [Procs -> Int])' /\ (plan \in [Procs -> Plan])'
      /\ table' = table
      /\ counter'["server"] = counter["server"] /\ plan'["server"] = plan["server"]
  BY <1>1, <1>2, <1>3, PlanBegins
<1>5. UNCHANGED <<up, now, writes, stops, meddled>>
  BY DEF WorkerTier2
<1>6. QED
  BY <1>2, <1>4, <1>5 DEF IInv, TypeInv

\* A DELETE takes one row off the table and one off its owner's plan.
LEMMA RemoveActs ==
  ASSUME TypeInv, NEW p \in Procs, NEW i \in DOMAIN plan[p].rows, Remove(p, i)
  PROVE  /\ table' = Without(table, {i}) /\ Typed(table')
         /\ counter' \in [Procs -> Int] /\ plan' \in [Procs -> Plan]
         /\ counter'[p] = counter[p] - Freed(p, i)
         /\ plan'[p].rows = Without(plan[p].rows, {i})
         /\ Freed(p, i) \in {plan[p].rows[i].size,
                              IF i \in DOMAIN table THEN table[i].size ELSE 0}
         /\ \A q \in Procs \ {p} : counter'[q] = counter[q] /\ plan'[q] = plan[q]
<1> DEFINE P == plan[p].rows
           left == IF DOMAIN P = {i} THEN NoPlan
                   ELSE [rows |-> Without(P, {i}), byPolicy |-> plan[p].byPolicy]
<1>1. /\ table' = Without(table, {i})
      /\ counter' = [counter EXCEPT ![p] = counter[p] - Freed(p, i)]
      /\ plan' = [plan EXCEPT ![p] = left]
  BY DEF Remove
<1>0. plan[p] \in Plan
  BY DEF TypeInv
<1>2. PICK W \in SUBSET Ids : P \in [W -> [size : Nat]]
  <2>1. P \in UNION {[V -> [size : Nat]] : V \in SUBSET Ids}
    BY <1>0 DEF Plan
  <2>2. QED
    BY <2>1
<1>3. P[i].size \in Nat
  BY <1>2
<1>4. /\ Freed(p, i) \in {P[i].size, IF i \in DOMAIN table THEN table[i].size ELSE 0}
      /\ Freed(p, i) \in Int
  BY <1>3 DEF Freed, TypeInv, Typed, Row
<1>5. counter[p] - Freed(p, i) \in Int
  BY <1>4 DEF TypeInv
<1>6. /\ counter' \in [Procs -> Int] /\ counter'[p] = counter[p] - Freed(p, i)
      /\ \A q \in Procs \ {p} : counter'[q] = counter[q] /\ plan'[q] = plan[q]
  BY <1>1, <1>5 DEF TypeInv
<1>7. Without(P, {i}) \in [W \ {i} -> [size : Nat]] /\ W \ {i} \in SUBSET Ids
  BY <1>2 DEF Without
<1>8. left.rows = Without(P, {i}) /\ left \in Plan
  <2>1. CASE DOMAIN P = {i}
    <3>1. NoPlan.rows = Without(P, {i})
      BY <2>1 DEF NoPlan, Without
    <3>2. NoPlan \in Plan
      BY <1>7, <3>1 DEF NoPlan, Plan
    <3>3. QED
      BY <2>1, <3>1, <3>2
  <2>2. CASE DOMAIN P # {i}
    <3>1. Without(P, {i}) \in UNION {[V -> [size : Nat]] : V \in SUBSET Ids}
      BY <1>7
    <3>2. left = [rows |-> Without(P, {i}), byPolicy |-> plan[p].byPolicy]
      BY <2>2
    <3>3. plan[p].byPolicy \in BOOLEAN
      BY <1>0 DEF Plan
    <3>4. [rows |-> Without(P, {i}), byPolicy |-> plan[p].byPolicy] \in Plan
      BY <3>1, <3>3 DEF Plan
    <3>5. left.rows = Without(P, {i})
      BY <3>2
    <3>6. QED
      BY <3>2, <3>4, <3>5
  <2>3. QED
    BY <2>1, <2>2
<1>9. plan' \in [Procs -> Plan] /\ plan'[p] = left
  BY <1>1, <1>8 DEF TypeInv
<1>10. Typed(table')
  BY <1>1, WithoutOne DEF TypeInv
<1>11. QED
  BY <1>1, <1>4, <1>6, <1>8, <1>9, <1>10

LEMMA RemoveKeeps ==
  ASSUME IInv, NEW p \in Procs, NEW i, Remove(p, i)
  PROVE  IInv'
<1> DEFINE P == plan["server"].rows
           b == counter["server"]
<1>1. TypeInv /\ p \in up /\ i \in DOMAIN plan[p].rows
  BY DEF IInv, Remove
<1>2. /\ meddled' = (meddled \/ (p = "worker" /\ i \in DOMAIN table))
      /\ UNCHANGED <<up, now, writes, stops>>
  BY DEF Remove
<1>3. /\ table' = Without(table, {i}) /\ Typed(table')
      /\ counter' \in [Procs -> Int] /\ plan' \in [Procs -> Plan]
      /\ counter'[p] = counter[p] - Freed(p, i)
      /\ plan'[p].rows = Without(plan[p].rows, {i})
      /\ Freed(p, i) \in {plan[p].rows[i].size,
                           IF i \in DOMAIN table THEN table[i].size ELSE 0}
      /\ \A q \in Procs \ {p} : counter'[q] = counter[q] /\ plan'[q] = plan[q]
  BY <1>1, RemoveActs
<1>4. TypeInv'
  BY <1>1, <1>2, <1>3 DEF TypeInv
<1>5. Typed(table) /\ b \in Int /\ P \in UNION {[V -> [size : Nat]] : V \in SUBSET Ids}
  BY <1>1 DEF TypeInv, Procs, Plan
<1>6. CASE p = "server"
  <2>1. Covers(table, P, b) /\ (~meddled => Exact(table, P, b))
    BY <1>1, <1>6 DEF IInv
  <2>2. /\ Covers(table', plan'["server"].rows, counter'["server"])
        /\ Exact(table, P, b) =>
             Exact(table', plan'["server"].rows, counter'["server"])
    BY <1>1, <1>3, <1>5, <1>6, <2>1, OwnerDeletes DEF Planned
  <2>3. QED
    BY <1>1, <1>2, <1>4, <1>6, <2>1, <2>2 DEF IInv
<1>7. CASE p = "worker"
  <2>1. counter'["server"] = b /\ plan'["server"] = plan["server"]
    BY <1>3, <1>7 DEF Procs
  <2>2. CASE "server" \in up
    <3>1. Covers(table', P, b)
      BY <1>3, <1>5, <2>2, OtherDeletes DEF IInv, Planned
    <3>2. ~meddled' => Exact(table', P, b)
      <4>1. SUFFICES ASSUME ~meddled' PROVE Exact(table', P, b)
        OBVIOUS
      <4>2. ~meddled /\ i \notin DOMAIN table
        BY <1>2, <1>7, <4>1
      <4>3. Exact(table, P, b)
        BY <2>2, <4>2 DEF IInv
      <4>4. /\ DOMAIN table' = DOMAIN table \ {i}
            /\ Bytes(table', DOMAIN table') = Bytes(table, DOMAIN table) - 0
        BY <1>3, <1>5, <4>2, WithoutOne
      <4>5. Bytes(table, DOMAIN table) \in Nat
        BY <1>5, TypedIsSized
      <4>6. QED
        BY <4>2, <4>3, <4>4, <4>5 DEF Exact
    <3>3. QED
      BY <1>2, <1>4, <2>1, <2>2, <3>1, <3>2 DEF IInv
  <2>3. CASE "server" \notin up
    BY <1>2, <1>4, <2>1, <2>3 DEF IInv
  <2>4. QED
    BY <2>2, <2>3
<1>8. QED
  BY <1>6, <1>7 DEF Procs

-----------------------------------------------------------------------------
LEMMA StartKeeps ==
  ASSUME IInv, NEW p \in Procs, Start(p)
  PROVE  IInv'
<1>1. /\ up' = up \cup {p} /\ p \notin up
      /\ counter' = [counter EXCEPT ![p] = Bytes(table, DOMAIN table)]
      /\ meddled' = (meddled /\ p # "server")
      /\ UNCHANGED <<table, plan, now, writes, stops>>
  BY DEF Start, BytesOnFile
<1>2. TypeInv /\ Typed(table) /\ Bytes(table, DOMAIN table) \in Nat
  BY TypedIsSized DEF IInv, TypeInv
<1>3. TypeInv'
  BY <1>1, <1>2 DEF TypeInv
<1>4. CASE p = "server"
  <2>1. plan["server"] = NoPlan /\ counter'["server"] = Bytes(table, DOMAIN table)
    BY <1>1, <1>2, <1>4 DEF IInv, TypeInv
  <2>2. DOMAIN plan["server"].rows = {}
    BY <2>1 DEF NoPlan
  <2>3. Covers(table, plan["server"].rows, counter'["server"])
    BY <1>2, <2>1, <2>2, CoversAnew
  <2>4. Exact(table, plan["server"].rows, counter'["server"])
    BY <2>1, <2>2 DEF Exact
  <2>5. QED
    BY <1>1, <1>3, <1>4, <2>3, <2>4 DEF IInv
<1>5. CASE p = "worker"
  <2>1. counter'["server"] = counter["server"]
    BY <1>1, <1>2, <1>5 DEF TypeInv, Procs
  <2>2. QED
    BY <1>1, <1>3, <1>5, <2>1 DEF IInv
<1>6. QED
  BY <1>4, <1>5 DEF Procs

LEMMA StopKeeps ==
  ASSUME IInv, NEW p \in Procs, Stop(p)
  PROVE  IInv'
<1>1. /\ up' = up \ {p} /\ stops' = stops + 1 /\ stops < MaxStops
      /\ counter' = [counter EXCEPT ![p] = 0]
      /\ plan' = [plan EXCEPT ![p] = NoPlan]
      /\ UNCHANGED <<table, now, writes, meddled>>
  BY DEF Stop
<1>2. NoPlan \in Plan
  <2>1. NoPlan.rows \in [{} -> [size : Nat]]
    BY DEF NoPlan
  <2>2. QED
    BY <2>1 DEF NoPlan, Plan
<1>3. TypeInv
  BY DEF IInv
<1>4. TypeInv'
  BY <1>1, <1>2, <1>3, NodeAssumption DEF TypeInv
<1>5. CASE p = "server"
  BY <1>1, <1>3, <1>4, <1>5 DEF IInv, TypeInv
<1>6. CASE p = "worker"
  <2>1. counter'["server"] = counter["server"] /\ plan'["server"] = plan["server"]
    BY <1>1, <1>3, <1>6 DEF TypeInv, Procs
  <2>2. QED
    BY <1>1, <1>4, <1>6, <2>1 DEF IInv
<1>7. QED
  BY <1>5, <1>6 DEF Procs

-----------------------------------------------------------------------------
LEMMA InitIInv == Init => IInv
<1> SUFFICES ASSUME Init PROVE IInv
  OBVIOUS
<1>1. NoPlan \in Plan
  <2>1. NoPlan.rows \in [{} -> [size : Nat]]
    BY DEF NoPlan
  <2>2. QED
    BY <2>1 DEF NoPlan, Plan
<1>2. TypeInv
  <2>1. Typed(table)
    BY DEF Init, Typed
  <2>2. counter \in [Procs -> Int] /\ plan \in [Procs -> Plan]
    BY <1>1 DEF Init
  <2>3. 0 \in 0 .. MaxTime /\ 0 \in 0 .. MaxWrites /\ 0 \in 0 .. MaxStops
    BY NodeAssumption
  <2>4. QED
    BY <2>1, <2>2, <2>3 DEF Init, TypeInv
<1>3. QED
  BY <1>2 DEF Init, IInv, Procs

LEMMA NextIInv == IInv /\ [Next]_vars => IInv'
<1> SUFFICES ASSUME IInv, [Next]_vars PROVE IInv'
  OBVIOUS
<1>1. CASE Tick
  BY <1>1, NodeAssumption DEF Tick, IInv, TypeInv
<1>2. CASE ServerTier2 \/ PolicyTick
  BY <1>2, EvictionsBegin
<1>3. CASE WorkerTier2
  BY <1>3, WorkerTier2Keeps
<1>4. CASE ServerRemoves
  BY <1>4, RemoveKeeps DEF ServerRemoves, Procs
<1>5. ASSUME NEW i \in Ids, Remove("worker", i) \/ \E c \in Contents : Ingest(i, c)
      PROVE IInv'
  BY <1>5, RemoveKeeps, IngestKeeps DEF Procs
<1>6. ASSUME NEW p \in Procs, Start(p) \/ Stop(p) PROVE IInv'
  BY <1>6, StartKeeps, StopKeeps
<1>7. CASE UNCHANGED vars
  BY <1>7 DEF vars, IInv, TypeInv
<1>8. QED
  BY <1>1, <1>2, <1>3, <1>4, <1>5, <1>6, <1>7 DEF Next

LEMMA SpecIInv == Spec => []IInv
  BY InitIInv, NextIInv, PTL DEF Spec

\* Every reachable state is well typed; in particular the server never counts
\* fewer than no bytes, though the other process deletes rows it counted.
THEOREM TypeCorrect == Spec => []TypeOK
<1>1. IInv => TypeOK
  <2>1. SUFFICES ASSUME IInv PROVE TypeOK
    OBVIOUS
  <2>2. counter["server"] \in Nat
    BY <2>1, ServerCounts DEF IInv
  <2>3. ASSUME NEW p \in Procs
        PROVE  /\ DOMAIN plan[p].rows \subseteq Ids
               /\ \A i \in DOMAIN plan[p].rows : plan[p].rows[i].size \in Nat
               /\ plan[p].byPolicy \in BOOLEAN
    <3>1. plan[p] \in Plan
      BY <2>1 DEF IInv, TypeInv
    <3>2. /\ plan[p].rows \in UNION {[V -> [size : Nat]] : V \in SUBSET Ids}
          /\ plan[p].byPolicy \in BOOLEAN
      BY <3>1 DEF Plan
    <3>3. PICK V \in SUBSET Ids : plan[p].rows \in [V -> [size : Nat]]
      BY <3>2
    <3>4. QED
      BY <3>2, <3>3
  <2>4. QED
    BY <2>1, <2>2, <2>3 DEF IInv, TypeInv, TypeOK, Typed
<1>2. QED
  BY <1>1, SpecIInv, PTL

\* The server's counter bounds the bytes on file (`byte-accurate size
\* tracking'), so that its tiers bound the file, in any order of statements.
THEOREM ServerNeverUndercounts == Spec => []NeverUndercounts
<1>1. IInv => NeverUndercounts
  BY ServerCounts DEF NeverUndercounts
<1>2. QED
  BY <1>1, SpecIInv, PTL

\* Only a DELETE by the worker makes the counter differ from the file.
THEOREM OnlyTheWorkerDrifts == Spec => []DriftNeedsWorker
<1>1. IInv => DriftNeedsWorker
  BY ServerCounts DEF DriftNeedsWorker
<1>2. QED
  BY <1>1, SpecIInv, PTL
-----------------------------------------------------------------------------
\* Rows were accessed at some time until now.
Past == \A i \in DOMAIN table : table[i].at <= now

LEMMA InitPast == Init => Past
BY DEF Init, Past

LEMMA StepPast == IInv /\ Past /\ [Next]_vars => Past'
<1> SUFFICES ASSUME IInv, Past, [Next]_vars PROVE Past'
  OBVIOUS
<1>0. now \in Nat /\ Typed(table)
  BY DEF IInv, TypeInv
<1>1. CASE Tick
  BY <1>0, <1>1 DEF Tick, Past, Typed, Row
<1>2. ASSUME NEW i \in Ids, NEW c \in Contents, Ingest(i, c) PROVE Past'
  <2> DEFINE row == [content |-> c, size |-> SizeOf[c], at |-> now, hits |-> 0]
             new == With(table, i, row)
  <2>1. now' = now /\ \E X : table' = Without(new, X)
    BY <1>2 DEF Ingest, Continue
  <2>2. PICK X : table' = Without(new, X)
    BY <2>1
  <2>3. \A j \in DOMAIN new : new[j] = row \/ (j \in DOMAIN table /\ new[j] = table[j])
    BY DEF With
  <2>4. \A j \in DOMAIN table' : j \in DOMAIN new /\ table'[j] = new[j]
    BY <2>2 DEF Without
  <2> HIDE DEF new
  <2>5. QED
    BY <1>0, <2>1, <2>3, <2>4 DEF Past
<1>3. ASSUME NEW p, NEW i, Remove(p, i) PROVE Past'
  BY <1>3 DEF Remove, Without, Past
<1>4. CASE UNCHANGED <<table, now>>
  BY <1>4 DEF Past
<1>5. QED
  BY <1>1, <1>2, <1>3, <1>4
     DEF Next, vars, ServerTier2, PolicyTick, WorkerTier2, ServerRemoves, Start, Stop, Continue

\* The ranking of compact() puts an older row of no more importance before a
\* row that nothing else resembles.
LEMMA StaleRanksFirst ==
  ASSUME NEW t, Typed(t), NEW time \in 0 .. MaxTime, NEW P \in SUBSET DOMAIN t,
         NEW v \in P, NEW s \in P,
         t[s].at < t[v].at, t[v].at <= time,
         Importance[t[s].content] <= Importance[t[v].content],
         \A j \in DOMAIN t \ {v} : ~Alike[t[v].content][t[j].content]
  PROVE  <<s, v>> \in PolicyOrder(t, P, time)
<1> DEFINE worthS == PolicyWorth(t[s], time)
           worthV == PolicyWorth(t[v], time)
           near == Density(t, P, s)
<1>1. /\ t[s].at \in Nat /\ t[v].at \in Nat
      /\ t[s].content \in Contents /\ t[v].content \in Contents
  BY DEF Typed, Row
<1>2. Density(t, P, v) = 0
  <2>1. {j \in P \ {v} : Alike[t[v].content][t[j].content]} = {}
    OBVIOUS
  <2>2. QED
    BY <2>1, FS_EmptySet DEF Density
<1>3. near \in Nat
  <2>1. IsFiniteSet({j \in P \ {s} : Alike[t[s].content][t[j].content]})
    BY NodeAssumption, FS_Subset DEF Typed
  <2>2. QED
    BY <2>1, FS_CardinalityType DEF Density
<1>4. worthS \in Nat /\ worthV \in Nat /\ worthS <= worthV
  <2>1. /\ time - t[s].at \in 0 .. MaxTime /\ time - t[v].at \in 0 .. MaxTime
        /\ time - t[v].at <= time - t[s].at
    <3> DEFINE a == t[s].at
               b == t[v].at
    <3>1. MaxTime \in Nat
      BY NodeAssumption
    <3>2. a \in Nat /\ b \in Nat /\ a < b /\ b <= time
      BY <1>1
    <3> HIDE DEF a, b
    <3>3. /\ time - a \in 0 .. MaxTime /\ time - b \in 0 .. MaxTime
          /\ time - b <= time - a
      BY <3>1, <3>2
    <3>4. QED
      BY <3>3 DEF a, b
  <2>2. /\ Recency[time - t[s].at] \in Nat /\ Recency[time - t[v].at] \in Nat
        /\ Recency[time - t[s].at] <= Recency[time - t[v].at]
    BY <2>1, NodeAssumption
  <2>3. Importance[t[s].content] \in Nat /\ Importance[t[v].content] \in Nat
    BY <1>1, NodeAssumption
  <2>4. QED
    BY <2>2, <2>3, ProductGrows DEF PolicyWorth
<1> HIDE DEF worthS, worthV, near
<1>5. worthS * (1 + 0) = worthS
  BY <1>4
<1>6. worthV * 1 <= worthV * (1 + near) /\ worthV * (1 + near) \in Nat
  <2>1. 1 + near \in Nat /\ 1 <= 1 + near
    BY <1>3
  <2>2. QED
    BY <1>4, <2>1, ProductGrows
<1>7. worthS * (1 + Density(t, P, v)) <= worthV * (1 + Density(t, P, s))
  BY <1>2, <1>4, <1>5, <1>6 DEF near
<1>8. worthS * (1 + Density(t, P, v)) \in Nat /\ worthV * (1 + Density(t, P, s)) \in Nat
  BY <1>2, <1>4, <1>5, <1>6 DEF near
<1>9. QED
  BY <1>7, <1>8 DEF PolicyOrder, worthS, worthV

\* compact() evicts no memory that nothing else resembles while it spares an
\* older one of no more importance, whichever rows list() returns and however
\* it leaves equal scores: for any recency that does not grow with age.
THEOREM UniqueRowsOutliveStaleOnes == Spec => UniqueOutlivesStale
<1>1. IInv /\ Past /\ [Next]_vars => [SparesUnique]_vars
  <2> SUFFICES ASSUME IInv, Past, Next PROVE SparesUnique
    OBVIOUS
  <2>0. TypeInv /\ "server" \in Procs
    BY DEF IInv, Procs
  <2>1. ASSUME NEW t, NEW b, NEW V, Continue("server", t, b, V, FALSE)
        PROVE  ~plan'["server"].byPolicy
    BY <2>0, <2>1 DEF Continue, NoPlan, TypeInv
  <2>2. CASE PolicyTick
    <3> SUFFICES ASSUME NEW v \in DOMAIN plan'["server"].rows,
                        NEW s \in DOMAIN table \ DOMAIN plan'["server"].rows,
                        table[s].at < table[v].at,
                        Importance[table[s].content] <= Importance[table[v].content],
                        Unique(v)
                 PROVE  FALSE
      BY DEF SparesUnique
    <3>1. PICK V \in PolicyVictims(table, now) :
            Continue("server", table, counter["server"], V, TRUE)
      BY <2>2 DEF PolicyTick
    <3>2. DOMAIN plan'["server"].rows = V
      <4>1. CASE V = {}
        BY <2>0, <3>1, <4>1 DEF Continue, NoPlan, TypeInv
      <4>2. CASE V # {}
        BY <2>0, <3>1, <4>2 DEF Continue, TypeInv
      <4>3. QED
        BY <4>1, <4>2
    <3>3. PICK P \in Pools(table) :
            V \in FirstRows(P, TargetEvict(Cardinality(DOMAIN table)), PolicyOrder(table, P, now))
      BY DEF PolicyVictims
    <3>4. P \subseteq DOMAIN table /\ v \in P
      BY <3>2, <3>3 DEF Pools, FirstRows
    <3>5. s \in P
      <4>1. <<s, v>> \in AgeOrder(table)
        BY <3>4 DEF AgeOrder
      <4>2. QED
        BY <3>4, <4>1, FirstRowsComeFirst DEF Pools
    <3>6. <<s, v>> \in PolicyOrder(table, P, now)
      BY <2>0, <3>4, <3>5, StaleRanksFirst DEF TypeInv, Past, Unique
    <3>7. QED
      BY <3>2, <3>3, <3>5, <3>6, FirstRowsComeFirst
  <2>3. CASE plan'["server"] = plan["server"]
    BY <2>3 DEF SparesUnique, Busy
  <2>4. CASE ServerTier2
    BY <2>1, <2>4 DEF ServerTier2, SparesUnique
  <2>5. ASSUME NEW i \in Ids, NEW c \in Contents, Ingest(i, c) PROVE SparesUnique
    BY <2>1, <2>5 DEF Ingest, SparesUnique
  <2>6. CASE WorkerTier2
    BY <2>0, <2>3, <2>6 DEF WorkerTier2, Continue, TypeInv
  <2>7. CASE ServerRemoves
    BY <2>7 DEF ServerRemoves, Remove, SparesUnique, Busy
  <2>8. ASSUME NEW i, Remove("worker", i) PROVE SparesUnique
    BY <2>0, <2>3, <2>8 DEF Remove, TypeInv
  <2>9. ASSUME NEW p \in Procs, Stop(p) PROVE SparesUnique
    <3>1. plan'["server"] = plan["server"] \/ plan'["server"] = NoPlan
      BY <2>0, <2>9 DEF Stop, TypeInv
    <3>2. QED
      BY <2>3, <3>1 DEF SparesUnique, NoPlan
  <2>10. CASE Tick \/ \E p \in Procs : Start(p)
    BY <2>3, <2>10 DEF Tick, Start
  <2>11. QED
    BY <2>2, <2>4, <2>5, <2>6, <2>7, <2>8, <2>9, <2>10 DEF Next
<1>2. QED
  BY <1>1, InitPast, StepPast, SpecIInv, PTL DEF Spec, UniqueOutlivesStale
-----------------------------------------------------------------------------
\* The greatest of finitely many numbers, as the sizes of a pass use it.
LEMMA GreatestOfTwo ==
  ASSUME NEW a \in Nat, NEW b \in Nat
  PROVE  Greatest({a, b}) \in {a, b} /\ a <= Greatest({a, b}) /\ b <= Greatest({a, b})
<1>1. \E n \in {a, b} : \A m \in {a, b} : m <= n
  OBVIOUS
<1>2. /\ Greatest({a, b}) \in {a, b}
      /\ \A m \in {a, b} : m <= Greatest({a, b})
  BY <1>1 DEF Greatest
<1>3. QED
  BY <1>2

LEMMA GreatestOfThree ==
  ASSUME NEW a \in Nat, NEW b \in Nat, NEW c \in Nat
  PROVE  Greatest({a, b, c}) \in Nat /\ c <= Greatest({a, b, c})
<1>1. \E n \in {a, b, c} : \A m \in {a, b, c} : m <= n
  OBVIOUS
<1>2. /\ Greatest({a, b, c}) \in {a, b, c}
      /\ \A m \in {a, b, c} : m <= Greatest({a, b, c})
  BY <1>1 DEF Greatest
<1>3. QED
  BY <1>2

LEMMA SizesOfPass ==
  ASSUME NEW n \in Nat
  PROVE  /\ TargetEvict(n) \in Nat /\ 1 <= TargetEvict(n)
         /\ PoolSize(n) \in Nat /\ TargetEvict(n) <= PoolSize(n)
<1>1. \A p \in Nat : (n * p) \div 100 \in Nat
  <2>1. \A p \in Nat : n * p \in Nat
    OBVIOUS
  <2>2. \A k \in Nat : k \div 100 \in Nat
    OBVIOUS
  <2>3. QED
    BY <2>1, <2>2
<1>2. TargetEvict(n) \in Nat /\ 1 <= TargetEvict(n)
  BY <1>1, NodeAssumption, GreatestOfTwo DEF TargetEvict
<1>3. 2 * TargetEvict(n) \in Nat /\ TargetEvict(n) <= 2 * TargetEvict(n)
  BY <1>2
<1>4. (n * PoolPercent) \div 100 \in Nat /\ MinPool \in Nat
  BY <1>1, NodeAssumption
<1>5. PoolSize(n) \in Nat /\ 2 * TargetEvict(n) <= PoolSize(n)
  BY <1>3, <1>4, GreatestOfThree DEF PoolSize
<1>6. QED
  BY <1>2, <1>3, <1>5

\* The share of the rows that a pass takes.
TakesItsShare ==
  LET n == Cardinality(DOMAIN table)
  IN \A V \in PolicyVictims(table, now) :
       /\ Cardinality(V) = IF n < TargetEvict(n) THEN n ELSE TargetEvict(n)
       /\ DOMAIN table # {} => V # {}

\* A pass of compact() evicts exactly targetEvict rows, or all if there are fewer:
\* the pool never runs short of the target, whatever fractions and minimum are
\* configured, so that each pass over a table with rows makes progress.
THEOREM PassesTakeTheirShare == Spec => []TakesItsShare
<1>1. IInv => TakesItsShare
  <2> DEFINE n == Cardinality(DOMAIN table)
             k == TargetEvict(n)
  <2> SUFFICES ASSUME IInv, NEW V \in PolicyVictims(table, now)
               PROVE  /\ Cardinality(V) = IF n < k THEN n ELSE k
                      /\ DOMAIN table # {} => V # {}
    BY DEF TakesItsShare
  <2>1. IsFiniteSet(DOMAIN table) /\ n \in Nat
    BY NodeAssumption, FS_Subset, FS_CardinalityType DEF IInv, TypeInv, Typed
  <2>2. k \in Nat /\ 1 <= k /\ PoolSize(n) \in Nat /\ k <= PoolSize(n)
    BY <2>1, SizesOfPass
  <2>3. PICK P \in Pools(table) : V \in FirstRows(P, k, PolicyOrder(table, P, now))
    BY DEF PolicyVictims
  <2>4. Cardinality(P) = IF n < PoolSize(n) THEN n ELSE PoolSize(n)
    BY DEF Pools, FirstRows
  <2>5. Cardinality(V) = IF Cardinality(P) < k THEN Cardinality(P) ELSE k
    BY <2>3 DEF FirstRows
  <2>6. DOMAIN table # {} => n # 0
    BY <2>1, FS_EmptySet
  <2>7. Cardinality({}) = 0
    BY FS_EmptySet
  <2> HIDE DEF n, k
  <2>8. Cardinality(V) = IF n < k THEN n ELSE k
    BY <2>1, <2>2, <2>4, <2>5
  <2>9. QED
    BY <2>1, <2>2, <2>6, <2>7, <2>8
<1>2. QED
  BY <1>1, SpecIInv, PTL
=============================================================================
