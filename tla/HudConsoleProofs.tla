-------------------------- MODULE HudConsoleProofs --------------------------
(* The console for any list of seeds, any bound on the list, any queries    *)
(* and scores: its copies of one thing never disagree.                      *)
EXTENDS HudConsole, SequenceTheorems, TLAPS

-----------------------------------------------------------------------------
(* Lists *)

LEMMA SeedIds == \A k \in DOMAIN Seeds : Seeds[k].id \in Ids
BY DEF Ids

LEMMA SeedsTyped == Seeds \in Seq(Memory) /\ Len(Seeds) <= Kept
<1>1. Seeds \in Seq([id : {Seeds[k].id : k \in DOMAIN Seeds}, sync : {"syncing", "synced"}])
  BY HudAssumption
<1>2. [id : {Seeds[k].id : k \in DOMAIN Seeds}, sync : {"syncing", "synced"}] \subseteq Memory
  BY DEF Memory, Ids
<1>3. QED
  BY <1>1, <1>2, SeqMonotonic, HudAssumption

LEMMA IdsTyped ==
  ASSUME NEW m \in Seq(Memory)
  PROVE  IdsOf(m) \in Seq(Ids)
<1>1. DOMAIN m = 1 .. Len(m) /\ Len(m) \in Nat
  OBVIOUS
<1>2. \A k \in 1 .. Len(m) : m[k] \in Memory
  BY ElementOfSeq
<1>3. \A k \in 1 .. Len(m) : m[k].id \in Ids
  BY <1>2 DEF Memory
<1>4. QED
  BY <1>1, <1>3 DEF IdsOf

\* A list with one more memory: the new one, and others that were there.
LEMMA WithOne ==
  ASSUME NEW m \in Seq(Memory), Len(m) <= Kept, NEW i \in Locals
  PROVE  /\ With(m, i) \in Seq(Memory) /\ Len(With(m, i)) <= Kept
         /\ \A k \in DOMAIN With(m, i) :
              \/ With(m, i)[k] = [id |-> i, sync |-> "syncing"]
              \/ \E j \in DOMAIN m : With(m, i)[k] = m[j]
<1> DEFINE x == [id |-> i, sync |-> "syncing"]
           t == <<x>> \o m
           n == IF Len(m) < Kept THEN Len(m) + 1 ELSE Kept
<1>1. x \in Memory /\ <<x>> \in Seq(Memory) /\ Len(<<x>>) = 1 /\ <<x>>[1] = x
  BY DEF Memory, Ids
<1> HIDE DEF x
<1>2. /\ t \in Seq(Memory) /\ Len(t) = Len(m) + 1
      /\ \A k \in 1 .. Len(t) : t[k] = IF k <= 1 THEN <<x>>[k] ELSE m[k - 1]
  BY <1>1, ConcatProperties
<1>3. \A k \in 1 .. Len(t) : t[k] = x \/ \E j \in DOMAIN m : t[k] = m[j]
  <2> SUFFICES ASSUME NEW k \in 1 .. Len(t) PROVE t[k] = x \/ \E j \in DOMAIN m : t[k] = m[j]
    OBVIOUS
  <2>1. CASE k = 1
    BY <1>1, <1>2, <2>1
  <2>2. CASE k # 1
    <3>1. k - 1 \in DOMAIN m /\ t[k] = m[k - 1]
      BY <1>2, <2>2
    <3>2. QED
      BY <3>1
  <2>3. QED
    BY <2>1, <2>2
<1>4. n \in 0 .. Len(t) /\ n <= Kept
  BY <1>2, HudAssumption
<1> HIDE DEF t, n
<1>5. /\ SubSeq(t, 1, n) \in Seq(Memory) /\ Len(SubSeq(t, 1, n)) = n
      /\ \A k \in 1 .. n : SubSeq(t, 1, n)[k] = t[k]
  <2>1. \A k \in 1 .. n : t[k] \in Memory
    BY <1>2, <1>4, ElementOfSeq
  <2>2. QED
    BY <1>4, <2>1, SubSeqProperties
<1>6. With(m, i) = SubSeq(t, 1, n)
  BY DEF With, x, t, n
<1>7. \A k \in 1 .. n : SubSeq(t, 1, n)[k] = x \/ \E j \in DOMAIN m : SubSeq(t, 1, n)[k] = m[j]
  BY <1>3, <1>4, <1>5
<1>8. QED
  BY <1>4, <1>5, <1>6, <1>7 DEF x

\* A list of which one memory has flipped.
LEMMA FlippedOne ==
  ASSUME NEW m \in Seq(Memory), NEW i
  PROVE  /\ Flipped(m, i) \in Seq(Memory) /\ Len(Flipped(m, i)) = Len(m)
         /\ \A k \in DOMAIN m : /\ Flipped(m, i)[k].id = m[k].id
                                /\ Flipped(m, i)[k].sync =
                                     IF m[k].id = i THEN "synced" ELSE m[k].sync
<1> DEFINE f == Flipped(m, i)
<1>1. DOMAIN m = 1 .. Len(m) /\ Len(m) \in Nat
  OBVIOUS
<1>2. \A k \in DOMAIN m : m[k] \in Memory
  BY ElementOfSeq
<1>3. f = [k \in 1 .. Len(m) |-> f[k]]
  BY <1>1 DEF Flipped
<1>4. \A k \in DOMAIN m : /\ f[k] \in Memory /\ f[k].id = m[k].id
                          /\ f[k].sync = IF m[k].id = i THEN "synced" ELSE m[k].sync
  BY <1>2 DEF Flipped, Memory
<1>5. f \in Seq(Memory)
  BY <1>1, <1>3, <1>4
<1>6. QED
  BY <1>1, <1>3, <1>4, <1>5, LenProperties

LEMMA TopTyped ==
  ASSUME NEW q, NEW m \in Seq(Memory)
  PROVE  Top(q, m) \subseteq Ids
<1>1. \A k \in DOMAIN m : m[k] \in Memory
  BY ElementOfSeq
<1>2. \A k \in DOMAIN m : m[k].id \in Ids
  BY <1>1 DEF Memory
<1>3. QED
  BY <1>2 DEF Top

LEMMA PickTyped == ASSUME TypeOK, NEW k PROVE Pick(k) \in Memory \cup {None}
BY ElementOfSeq DEF TypeOK, Pick

-----------------------------------------------------------------------------
(* Types *)

LEMMA InitTypes == Init => TypeOK
<1> SUFFICES ASSUME Init PROVE TypeOK
  OBVIOUS
<1>1. memories \in Seq(Memory) /\ Len(memories) <= Kept
  BY SeedsTyped DEF Init
<1>2. drawn \in Seq(Ids)
  BY SeedsTyped, IdsTyped DEF Init
<1>3. timer \in [query : Queries \cup {NoQuery}, over : Seq(Memory)]
  BY DEF Init, NoTimer
<1>4. QED
  BY <1>1, <1>2, <1>3 DEF Init, TypeOK

LEMMA SetJobTyped ==
  ASSUME TypeOK, NEW i \in Locals, NEW state \in {"pending", "done", "error"}
  PROVE  /\ DOMAIN SetJob(i, state) \subseteq Locals
         /\ \A j \in DOMAIN SetJob(i, state) : SetJob(i, state)[j] \in {"pending", "done", "error"}
BY DEF SetJob, TypeOK

\* Whatever the search effect does, it does with the query and list it is given.
LEMMA SearchEffectTyped ==
  ASSUME TypeOK, NEW q \in Queries \cup {NoQuery}, NEW m \in Seq(Memory), SearchEffect(q, m)
  PROVE  /\ timer' \in [query : Queries \cup {NoQuery}, over : Seq(Memory)]
         /\ highlighted' \subseteq Ids /\ goal' \in Queries \cup {NoQuery}
<1>1. CASE q = NoQuery
  <2>1. timer' = NoTimer /\ highlighted' = {} /\ goal' = NoQuery
    BY <1>1 DEF SearchEffect, ClearHighlights
  <2>2. NoTimer \in [query : Queries \cup {NoQuery}, over : Seq(Memory)]
    BY DEF NoTimer
  <2>3. QED
    BY <2>1, <2>2
<1>2. CASE q # NoQuery
  <2>1. timer' = [query |-> q, over |-> m] /\ UNCHANGED <<highlighted, goal>>
    BY <1>2 DEF SearchEffect
  <2>2. QED
    BY <2>1 DEF TypeOK
<1>3. QED
  BY <1>1, <1>2

LEMMA StepTypes == TypeOK /\ [Next]_vars => TypeOK'
<1> SUFFICES ASSUME TypeOK, [Next]_vars PROVE TypeOK'
  OBVIOUS
<1> USE DEF store, search, pointer
<1>1. ASSUME NEW i \in Locals, Submit(i) PROVE TypeOK'
  <2>1. memories' \in Seq(Memory) /\ Len(memories') <= Kept
    BY <1>1, WithOne DEF Submit, TypeOK
  <2>2. /\ DOMAIN jobs' \subseteq Locals
        /\ \A j \in DOMAIN jobs' : jobs'[j] \in {"pending", "done", "error"}
    BY <1>1, SetJobTyped DEF Submit
  <2>3. QED
    BY <1>1, <2>1, <2>2 DEF Submit, TypeOK
<1>2. CASE Succeed
  <2>1. flight \in Locals
    BY <1>2 DEF Succeed, TypeOK
  <2>2. memories' \in Seq(Memory) /\ Len(memories') <= Kept
    BY <1>2, FlippedOne DEF Succeed, TypeOK
  <2>3. /\ DOMAIN jobs' \subseteq Locals
        /\ \A j \in DOMAIN jobs' : jobs'[j] \in {"pending", "done", "error"}
    BY <1>2, <2>1, SetJobTyped DEF Succeed
  <2>4. QED
    BY <1>2, <2>1, <2>2, <2>3 DEF Succeed, TypeOK
<1>3. CASE Fail
  <2>1. flight \in Locals
    BY <1>3 DEF Fail, TypeOK
  <2>2. /\ DOMAIN jobs' \subseteq Locals
        /\ \A j \in DOMAIN jobs' : jobs'[j] \in {"pending", "done", "error"}
    BY <1>3, <2>1, SetJobTyped DEF Fail
  <2>3. QED
    BY <1>3, <2>2 DEF Fail, TypeOK
<1>4. ASSUME NEW i \in Locals, DropJob(i) PROVE TypeOK'
  <2>1. /\ DOMAIN jobs' \subseteq Locals
        /\ \A j \in DOMAIN jobs' : jobs'[j] \in {"pending", "done", "error"}
    BY <1>4 DEF DropJob, TypeOK
  <2>2. QED
    BY <1>4, <2>1 DEF DropJob, TypeOK
<1>5. CASE Refetch
  BY <1>5 DEF Refetch, TypeOK
<1>6. ASSUME NEW q \in Queries \cup {NoQuery}, Type(q) PROVE TypeOK'
  <2>1. drawn' \in Seq(Ids) /\ SearchEffect(q, memories)
    BY <1>6, IdsTyped DEF Type, TypeOK
  <2>2. /\ timer' \in [query : Queries \cup {NoQuery}, over : Seq(Memory)]
        /\ highlighted' \subseteq Ids /\ goal' \in Queries \cup {NoQuery}
    BY <2>1, SearchEffectTyped DEF TypeOK
  <2>3. QED
    BY <1>6, <2>1, <2>2 DEF Type, TypeOK
<1>7. CASE Effects
  <2>1. drawn' \in Seq(Ids) /\ SearchEffect(query, memories)
    BY <1>7, IdsTyped DEF Effects, TypeOK
  <2>2. /\ timer' \in [query : Queries \cup {NoQuery}, over : Seq(Memory)]
        /\ highlighted' \subseteq Ids /\ goal' \in Queries \cup {NoQuery}
    BY <2>1, SearchEffectTyped DEF TypeOK
  <2>3. QED
    BY <1>7, <2>1, <2>2 DEF Effects, TypeOK
<1>8. CASE Debounced
  <2>1. highlighted' \subseteq Ids
    BY <1>8, TopTyped DEF Debounced, TypeOK
  <2>2. timer' \in [query : Queries \cup {NoQuery}, over : Seq(Memory)]
    BY <1>8 DEF Debounced, NoTimer
  <2>3. QED
    BY <1>8, <2>1, <2>2 DEF Debounced, TypeOK
<1>9. ASSUME NEW k \in Places, Move(k) PROVE TypeOK'
  <2>1. Pick(k) # None => Pick(k).id \in Ids
    BY PickTyped DEF Memory
  <2>2. /\ hovered' \in Ids \cup {None} /\ lastHovered' \in Ids \cup {None}
        /\ drag' \in {"up", "down", "moved"}
    BY <1>9, <2>1 DEF Move, Unhover, TypeOK
  <2>3. QED
    BY <1>9, <2>2 DEF Move, TypeOK
<1>10. ASSUME NEW k \in Places, Release(k) PROVE TypeOK'
  <2>1. selected' \in Memory \cup {None}
    BY <1>10, PickTyped DEF Release, TypeOK
  <2>2. QED
    BY <1>10, <2>1 DEF Release, TypeOK
<1>11. CASE Press \/ Leave
  BY <1>11 DEF Press, Leave, Unhover, TypeOK
<1>12. CASE ClearKey \/ Escape \/ CloseInspector \/ ToggleHelp
  BY <1>12 DEF ClearKey, Escape, CloseInspector, ToggleHelp, ClearHighlights, TypeOK
<1>13. CASE UNCHANGED vars
  BY <1>13 DEF vars, TypeOK
<1>14. QED
  BY <1>1, <1>2, <1>3, <1>4, <1>5, <1>6, <1>7, <1>8, <1>9, <1>10, <1>11, <1>12, <1>13 DEF Next

\* What the lists, the maps and the refs of the console hold, and that the list
\* never outgrows its bound.
THEOREM TypeCorrect == Spec => []TypeOK
BY InitTypes, StepTypes, PTL DEF Spec

-----------------------------------------------------------------------------
(* Hovering *)

\* The two records of the hovered star stay equal, and a star that is hovered
\* when a drag sets in is let go by the first move of it.
LEMMA StepHover == HoverAgrees /\ [Next]_vars => HoverAgrees'
<1> SUFFICES ASSUME HoverAgrees, [Next]_vars PROVE HoverAgrees'
  OBVIOUS
<1>1. ASSUME NEW k \in Places, Move(k) PROVE HoverAgrees'
  BY <1>1 DEF Move, Unhover, HoverAgrees
<1>2. ASSUME NEW k \in Places, Release(k) PROVE HoverAgrees'
  BY <1>2 DEF Release, HoverAgrees
<1>3. CASE Press \/ Leave
  BY <1>3 DEF Press, Leave, Unhover, HoverAgrees
<1>4. CASE UNCHANGED pointer
  BY <1>4 DEF pointer, HoverAgrees
<1>5. QED
  BY <1>1, <1>2, <1>3, <1>4
     DEF Next, Submit, Succeed, Fail, DropJob, Refetch, Type, Effects, Debounced, ClearKey,
         Escape, CloseInspector, ToggleHelp, vars

\* The tooltip never outlives what the pointer handlers know of it, nor shows
\* while the galaxy turns.
THEOREM HoverCorrect == Spec => []HoverAgrees
<1>1. Init => HoverAgrees
  BY DEF Init, HoverAgrees
<1>2. QED
  BY <1>1, StepHover, PTL DEF Spec

-----------------------------------------------------------------------------
(* Jobs *)

LEMMA InitJobs == Init => JobsAgree
<1> SUFFICES ASSUME Init PROVE JobsAgree
  OBVIOUS
<1>1. \A k \in DOMAIN memories : memories[k].id \notin Locals
  BY HudAssumption DEF Init
<1>2. QED
  BY <1>1, HudAssumption DEF Init, JobsAgree

LEMMA StepJobs == TypeOK /\ JobsAgree /\ [Next]_vars => JobsAgree'
<1> SUFFICES ASSUME TypeOK, JobsAgree, [Next]_vars PROVE JobsAgree'
  OBVIOUS
<1> USE HudAssumption
<1>0. ASSUME flight # None
      PROVE  flight \in Locals /\ flight \in DOMAIN jobs /\ jobs[flight] = "pending"
  <2>1. flight \in Locals
    BY <1>0 DEF TypeOK
  <2>2. QED
    BY <2>1 DEF JobsAgree
<1>1. ASSUME NEW i \in Locals, Submit(i) PROVE JobsAgree'
  <2>1. /\ \A j \in DOMAIN jobs' : jobs'[j] = IF j = i THEN "pending" ELSE jobs[j]
        /\ DOMAIN jobs' = DOMAIN jobs \cup {i} /\ i \notin DOMAIN jobs
        /\ flight = None /\ flight' = i /\ drops' = drops
    BY <1>1 DEF Submit, SetJob
  <2>2. \A k \in DOMAIN memories' :
          \/ memories'[k] = [id |-> i, sync |-> "syncing"]
          \/ \E j \in DOMAIN memories : memories'[k] = memories[j]
    BY <1>1, WithOne DEF Submit, TypeOK
  <2>3. \A k \in DOMAIN memories : memories[k].id # i
    BY <1>1 DEF Submit
  <2>4. \A j \in Locals : j \in DOMAIN jobs' /\ jobs'[j] = "pending" <=> flight' = j
    BY <2>1 DEF JobsAgree
  <2>5. drops' = {j \in DOMAIN jobs' : jobs'[j] = "done"}
    BY <2>1 DEF JobsAgree
  <2>6. \A k \in DOMAIN memories' : memories'[k].id \in Locals =>
          (memories'[k].sync = "syncing" <=>
             memories'[k].id \in DOMAIN jobs' /\ jobs'[memories'[k].id] # "done")
    BY <2>1, <2>2, <2>3 DEF JobsAgree
  <2>7. QED
    BY <2>4, <2>5, <2>6 DEF JobsAgree
<1>2. CASE Succeed
  <2>1. /\ flight \in Locals /\ flight \in DOMAIN jobs
        /\ \A j \in DOMAIN jobs' : jobs'[j] = IF j = flight THEN "done" ELSE jobs[j]
        /\ DOMAIN jobs' = DOMAIN jobs
        /\ flight' = None /\ drops' = drops \cup {flight}
    <3>1. jobs' = SetJob(flight, "done") /\ flight' = None /\ drops' = drops \cup {flight}
      BY <1>2 DEF Succeed
    <3>2. QED
      BY <1>0, <1>2, <3>1 DEF Succeed, SetJob
  <2>2. /\ DOMAIN memories' = DOMAIN memories
        /\ \A k \in DOMAIN memories :
             /\ memories'[k].id = memories[k].id
             /\ memories'[k].sync = IF memories[k].id = flight THEN "synced" ELSE memories[k].sync
    BY <1>2, FlippedOne DEF Succeed, Flipped, TypeOK
  <2>3. \A j \in Locals : j \in DOMAIN jobs' /\ jobs'[j] = "pending" <=> flight' = j
    BY <2>1 DEF JobsAgree
  <2>4. drops' = {j \in DOMAIN jobs' : jobs'[j] = "done"}
    BY <2>1 DEF JobsAgree
  <2>5. \A k \in DOMAIN memories' : memories'[k].id \in Locals =>
          (memories'[k].sync = "syncing" <=>
             memories'[k].id \in DOMAIN jobs' /\ jobs'[memories'[k].id] # "done")
    BY <2>1, <2>2 DEF JobsAgree
  <2>6. QED
    BY <2>3, <2>4, <2>5 DEF JobsAgree
<1>3. CASE Fail
  <2>1. /\ flight \in Locals /\ flight \in DOMAIN jobs /\ jobs[flight] = "pending"
        /\ \A j \in DOMAIN jobs' : jobs'[j] = IF j = flight THEN "error" ELSE jobs[j]
        /\ DOMAIN jobs' = DOMAIN jobs
        /\ flight' = None /\ drops' = drops /\ memories' = memories
    <3>1. /\ jobs' = SetJob(flight, "error") /\ flight' = None
          /\ drops' = drops /\ memories' = memories
      BY <1>3 DEF Fail
    <3>2. QED
      BY <1>0, <1>3, <3>1 DEF Fail, SetJob
  <2>2. \A j \in Locals : j \in DOMAIN jobs' /\ jobs'[j] = "pending" <=> flight' = j
    BY <2>1 DEF JobsAgree
  <2>3. drops' = {j \in DOMAIN jobs' : jobs'[j] = "done"}
    BY <2>1 DEF JobsAgree
  <2>4. QED
    BY <2>1, <2>2, <2>3 DEF JobsAgree
<1>4. ASSUME NEW i \in Locals, DropJob(i) PROVE JobsAgree'
  <2>1. /\ i \in DOMAIN jobs /\ jobs[i] = "done"
        /\ DOMAIN jobs' = DOMAIN jobs \ {i}
        /\ \A j \in DOMAIN jobs' : jobs'[j] = jobs[j]
        /\ drops' = drops \ {i} /\ UNCHANGED <<flight, memories>>
    BY <1>4 DEF DropJob, JobsAgree
  <2>2. QED
    BY <2>1 DEF JobsAgree
<1>5. ASSUME UNCHANGED <<memories, jobs, drops, flight>> PROVE JobsAgree'
  BY <1>5 DEF JobsAgree
<1>6. QED
  BY <1>1, <1>2, <1>3, <1>4, <1>5
     DEF Next, Refetch, Type, Effects, Debounced, Move, Press, Release, Leave, ClearKey,
         Escape, CloseInspector, ToggleHelp, vars, store

\* The panel's one write in flight, its jobs, the timers that drop them and the
\* marks in the list tell one story, whatever fails.
THEOREM JobsCorrect == Spec => []JobsAgree
BY InitTypes, StepTypes, InitJobs, StepJobs, PTL DEF Spec

-----------------------------------------------------------------------------
(* Highlights *)

\* A search on its way is for the text in the bar and, unless a newer list has
\* been rendered, over the list as it is.
TimerIsCurrent ==
  timer # NoTimer => timer.query = query /\ query # NoQuery /\ (~due => timer.over = memories)

HInv == TimerIsCurrent /\ HighlightsAreCurrent

LEMMA InitHighlights == Init => HInv
BY DEF Init, HInv, TimerIsCurrent, HighlightsAreCurrent

\* Once the search effect has run for a text and a list, the search on its way
\* is theirs, or nothing is highlighted.
LEMMA SearchEffectIsCurrent ==
  ASSUME NEW q, SearchEffect(q, memories), UNCHANGED memories, query' = q
  PROVE  HInv'
<1>1. CASE q = NoQuery
  BY <1>1 DEF SearchEffect, ClearHighlights, HInv, TimerIsCurrent, HighlightsAreCurrent
<1>2. CASE q # NoQuery
  <2>1. timer' = [query |-> q, over |-> memories]
    BY <1>2 DEF SearchEffect
  <2>2. timer' # NoTimer
    BY <1>2, <2>1 DEF NoTimer
  <2>3. QED
    BY <1>2, <2>1, <2>2 DEF HInv, TimerIsCurrent, HighlightsAreCurrent
<1>3. QED
  BY <1>1, <1>2

LEMMA StepHighlights == HInv /\ [Next]_vars => HInv'
<1> SUFFICES ASSUME HInv, [Next]_vars PROVE HInv'
  OBVIOUS
<1>1. ASSUME UNCHANGED search, due' = TRUE PROVE HInv'
  BY <1>1 DEF search, HInv, TimerIsCurrent, HighlightsAreCurrent
<1>2. ASSUME UNCHANGED <<query, timer, due, memories>>,
             ClearHighlights \/ UNCHANGED <<highlighted, goal>>
      PROVE  HInv'
  BY <1>2 DEF ClearHighlights, HInv, TimerIsCurrent, HighlightsAreCurrent
<1>3. ASSUME NEW q \in Queries \cup {NoQuery}, Type(q) PROVE HInv'
  BY <1>3, SearchEffectIsCurrent DEF Type, store
<1>4. CASE Effects
  BY <1>4, SearchEffectIsCurrent DEF Effects, store
<1>5. CASE Debounced
  <2>1. timer' = NoTimer /\ UNCHANGED <<query, due, memories>>
    BY <1>5 DEF Debounced, store
  <2>2. /\ goal' = query /\ query # NoQuery
        /\ ~due => highlighted' = Top(query, memories)
    BY <1>5 DEF Debounced, HInv, TimerIsCurrent
  <2>3. QED
    BY <2>1, <2>2 DEF HInv, TimerIsCurrent, HighlightsAreCurrent
<1>6. CASE Fail \/ Refetch \/ \E i \in Locals : DropJob(i)
  BY <1>2, <1>6 DEF Fail, Refetch, DropJob, search
<1>7. CASE Press \/ Leave \/ \E k \in Places : Move(k) \/ Release(k)
  BY <1>2, <1>7 DEF Press, Leave, Move, Release, search, store
<1>8. CASE ClearKey \/ Escape \/ CloseInspector \/ ToggleHelp
  BY <1>2, <1>8 DEF ClearKey, Escape, CloseInspector, ToggleHelp, search, store
<1>9. CASE Succeed \/ \E i \in Locals : Submit(i)
  BY <1>1, <1>9 DEF Succeed, Submit
<1>10. CASE UNCHANGED vars
  BY <1>2, <1>10 DEF vars, search, store
<1>11. QED
  BY <1>3, <1>4, <1>5, <1>6, <1>7, <1>8, <1>9, <1>10 DEF Next

\* What is highlighted answers the text in the search bar, over the list as it
\* is, whenever the debounce and the effects have come to rest.
THEOREM HighlightsCorrect == Spec => []HighlightsAreCurrent
<1>1. HInv => HighlightsAreCurrent
  BY DEF HInv
<1>2. QED
  BY <1>1, InitHighlights, StepHighlights, PTL DEF Spec
=============================================================================
