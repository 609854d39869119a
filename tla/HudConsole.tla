----------------------------- MODULE HudConsole ----------------------------
(***************************************************************************)
(* The state of the console (web/components): the list of memories, the    *)
(* search bar with its debounce, the write-behind panel with its one write *)
(* in flight, and the galaxy with hover, drag and selection.  An event     *)
(* handler, a timer or a settled promise is an action; so are the passive  *)
(* effects that React runs some time after it has rendered a new list.     *)
(* Keyboard focus is left to the browser: any key may come at any time.    *)
(***************************************************************************)
EXTENDS Integers, Sequences, FiniteSets

CONSTANTS
  Seeds,         \* the memories of generateMockMemories, a sequence
  Locals,        \* ids of memories the user adds
  Kept,          \* memories kept in the list (800)
  Queries, NoQuery, None,
  Score,         \* Score[i][q]: how close memory i is to q; a match if positive
  TopK

ASSUME HudAssumption ==
  /\ Seeds \in Seq([id : {Seeds[k].id : k \in DOMAIN Seeds}, sync : {"syncing", "synced"}])
  /\ Len(Seeds) <= Kept
  /\ \A k \in DOMAIN Seeds : Seeds[k].id \notin Locals \cup {None}
  /\ Kept \in Nat \ {0} /\ TopK \in Nat
  /\ None \notin Locals /\ NoQuery \notin Queries

VARIABLES
  memories,      \* the list, newest first
  jobs,          \* the state of each write that the panel keeps
  drops,         \* finished jobs whose timer will drop them
  flight,        \* inFlightIdRef: the one write in flight
  panel,         \* what the panel's query last saw of the jobs
  query,         \* the text of the search bar
  timer,         \* the debounced search: its query and its list; or NoTimer
  due,           \* a list was rendered whose effects have not run yet
  highlighted, goal,
  drawn,         \* the ids in the geometry, star by star
  hovered,       \* the memory of the tooltip
  lastHovered,   \* what the pointer handlers take it to be
  drag,          \* "up", "down", "moved" (more than 5 pixels from the press)
  selected,      \* the memory the inspector shows, as it was when clicked
  helpOpen

store == <<memories, jobs, drops, flight, panel>>
search == <<query, timer, highlighted, goal>>
pointer == <<hovered, lastHovered, drag>>
vars == <<store, search, due, drawn, pointer, selected, helpOpen>>

Ids == Locals \cup {Seeds[k].id : k \in DOMAIN Seeds}
Memory == [id : Ids, sync : {"syncing", "synced"}]
IdsOf(m) == [k \in DOMAIN m |-> m[k].id]
NoTimer == [query |-> NoQuery, over |-> <<>>]

TypeOK ==
  /\ memories \in Seq(Memory) /\ Len(memories) <= Kept
  /\ DOMAIN jobs \subseteq Locals /\ DOMAIN panel \subseteq Locals
  /\ \A i \in DOMAIN jobs : jobs[i] \in {"pending", "done", "error"}
  /\ \A i \in DOMAIN panel : panel[i] \in {"pending", "done", "error"}
  /\ drops \subseteq Locals
  /\ flight \in Locals \cup {None}
  /\ query \in Queries \cup {NoQuery} /\ goal \in Queries \cup {NoQuery}
  /\ timer \in [query : Queries \cup {NoQuery}, over : Seq(Memory)]
  /\ highlighted \subseteq Ids
  /\ drawn \in Seq(Ids)
  /\ hovered \in Ids \cup {None} /\ lastHovered \in Ids \cup {None}
  /\ drag \in {"up", "down", "moved"}
  /\ selected \in Memory \cup {None}
  /\ due \in BOOLEAN /\ helpOpen \in BOOLEAN

\* The list is seeded before the first event: its embedder never waits.
Init ==
  /\ memories = Seeds /\ drawn = IdsOf(Seeds)
  /\ jobs = [i \in {} |-> i] /\ panel = jobs
  /\ drops = {} /\ flight = None
  /\ query = NoQuery /\ timer = NoTimer /\ due = FALSE
  /\ highlighted = {} /\ goal = NoQuery
  /\ hovered = None /\ lastHovered = None /\ drag = "up"
  /\ selected = None /\ helpOpen = FALSE

-----------------------------------------------------------------------------
(* The write-behind panel *)

\* Fault: the list grows without bound.
WithAll(m, i) == <<[id |-> i, sync |-> "syncing"]>> \o m

\* A new memory comes first; the oldest goes when there are more than Kept.
With(m, i) == SubSeq(<<[id |-> i, sync |-> "syncing"]>> \o m, 1,
                     IF Len(m) < Kept THEN Len(m) + 1 ELSE Kept)

SetJob(i, state) == [j \in DOMAIN jobs \cup {i} |-> IF j = i THEN state ELSE jobs[j]]

\* Submit: the memory is listed at once, and its write is in flight.
Submit(i) ==
  /\ flight = None
  /\ \A k \in DOMAIN memories : memories[k].id # i
  /\ i \notin DOMAIN jobs
  /\ memories' = With(memories, i)
  /\ jobs' = SetJob(i, "pending")
  /\ flight' = i
  /\ due' = TRUE
  /\ UNCHANGED <<drops, panel, search, drawn, pointer, selected, helpOpen>>

\* Fault: every memory of the list is taken for written.
FlippedAll(m, i) == [k \in DOMAIN m |-> [m[k] EXCEPT !.sync = "synced"]]

Flipped(m, i) ==
  [k \in DOMAIN m |-> IF m[k].id = i THEN [m[k] EXCEPT !.sync = "synced"] ELSE m[k]]

\* The write is acknowledged: job and memory flip, a timer will drop the job,
\* and the query is refetched, with the jobs of the last rendering, unless it
\* is paused.
Succeed ==
  /\ flight # None
  /\ jobs' = SetJob(flight, "done")
  /\ memories' = Flipped(memories, flight)
  /\ drops' = drops \cup {flight}
  /\ panel' \in {panel, jobs}
  /\ flight' = None
  /\ due' = TRUE
  /\ UNCHANGED <<search, drawn, pointer, selected, helpOpen>>

\* The write fails; its memory stays in the list, as syncing.
Fail ==
  /\ flight # None
  /\ jobs' = SetJob(flight, "error")
  /\ flight' = None
  /\ UNCHANGED <<memories, drops, panel, search, due, drawn, pointer, selected, helpOpen>>

DropJob(i) ==
  /\ i \in drops
  /\ jobs' = [j \in DOMAIN jobs \ {i} |-> jobs[j]]
  /\ drops' = drops \ {i}
  /\ UNCHANGED <<memories, flight, panel, search, due, drawn, pointer, selected, helpOpen>>

\* refetchInterval: queryFn sees the jobs of the last rendering.  The interval
\* is paused while the page is hidden, and the query while it is offline, so
\* that this may happen at any time and need not happen at all.
Refetch ==
  /\ panel' = jobs
  /\ UNCHANGED <<memories, jobs, drops, flight, search, due, drawn, pointer, selected, helpOpen>>

-----------------------------------------------------------------------------
(* The search bar *)

\* The first TopK of m by score, equal scores in the order of the list, and
\* of these the ones that match at all.
Top(q, m) ==
  LET Before(j, k) == \/ Score[m[j].id][q] > Score[m[k].id][q]
                      \/ Score[m[j].id][q] = Score[m[k].id][q] /\ j < k
  IN {m[k].id : k \in {n \in DOMAIN m : /\ Cardinality({j \in DOMAIN m : Before(j, n)}) < TopK
                                        /\ Score[m[n].id][q] > 0}}

ClearHighlights == highlighted' = {} /\ goal' = NoQuery

\* Fault: an empty query leaves the timer of the previous one running.
EffectKeepsTimer(q, m) ==
  IF q = NoQuery THEN ClearHighlights /\ UNCHANGED timer
  ELSE timer' = [query |-> q, over |-> m] /\ UNCHANGED <<highlighted, goal>>

\* Fault: a search that is on its way is given up and not started again.
EffectGivesUp(q, m) ==
  IF q = NoQuery THEN ClearHighlights /\ timer' = NoTimer
  ELSE /\ timer' = IF timer = NoTimer THEN [query |-> q, over |-> m] ELSE NoTimer
       /\ UNCHANGED <<highlighted, goal>>

\* The search bar's effect, for the query q over the list m.
SearchEffect(q, m) ==
  IF q = NoQuery THEN ClearHighlights /\ timer' = NoTimer
  ELSE timer' = [query |-> q, over |-> m] /\ UNCHANGED <<highlighted, goal>>

\* onChange, or the clear button; React runs what is due, and this effect.
Type(q) ==
  /\ q # query
  /\ query' = q
  /\ SearchEffect(q, memories)
  /\ due' = FALSE
  /\ drawn' = IdsOf(memories)
  /\ UNCHANGED <<store, pointer, selected, helpOpen>>

\* The effects of a new list: the stars are laid out, the search restarts.
Effects ==
  /\ due
  /\ due' = FALSE
  /\ drawn' = IdsOf(memories)
  /\ SearchEffect(query, memories)
  /\ UNCHANGED <<store, query, pointer, selected, helpOpen>>

\* runSearch(): the embedder answers at once, the list is that of the timer.
Debounced ==
  /\ timer # NoTimer
  /\ highlighted' = Top(timer.query, timer.over)
  /\ goal' = timer.query
  /\ timer' = NoTimer
  /\ UNCHANGED <<store, query, due, drawn, pointer, selected, helpOpen>>

-----------------------------------------------------------------------------
(* The galaxy *)

\* pickAt(): the index of the star, in the list of the last rendering.
Pick(k) == IF k \in DOMAIN drawn /\ k \in DOMAIN memories THEN memories[k] ELSE None
Places == 0 .. Kept

\* Fault: the handlers forget the star, the console does not.
ForgetOnly == lastHovered' = None /\ UNCHANGED hovered

\* The tooltip is taken down if the handlers know of one.
Unhover ==
  /\ lastHovered' = None
  /\ hovered' = IF lastHovered # None THEN None ELSE hovered

Move(k) ==
  /\ IF drag # "up" THEN drag' \in {"down", "moved"} /\ Unhover
     ELSE /\ UNCHANGED drag
          /\ IF Pick(k) # None THEN hovered' = Pick(k).id /\ lastHovered' = Pick(k).id
             ELSE Unhover
  /\ UNCHANGED <<store, search, due, drawn, selected, helpOpen>>

Press ==
  /\ drag' = "down"
  /\ UNCHANGED <<store, search, due, drawn, hovered, lastHovered, selected, helpOpen>>

\* A press that ends where it began is a click; between the two it may have
\* gone anywhere.  (Without a press, the last one counts.)
Release(k) ==
  /\ drag' = "up"
  /\ \/ drag # "moved" /\ selected' = Pick(k)
     \/ drag # "down" /\ UNCHANGED selected
  /\ UNCHANGED <<store, search, due, drawn, hovered, lastHovered, helpOpen>>

Leave ==
  /\ Unhover
  /\ drag' = "up"
  /\ UNCHANGED <<store, search, due, drawn, selected, helpOpen>>

-----------------------------------------------------------------------------
(* Keys and buttons *)

\* "r"
ClearKey ==
  /\ ClearHighlights
  /\ UNCHANGED <<store, query, timer, due, drawn, pointer, selected, helpOpen>>

\* Escape takes back one thing: the help, the inspector or the highlights.
Escape ==
  /\ helpOpen' = FALSE
  /\ selected' = IF helpOpen THEN selected ELSE None
  /\ IF ~helpOpen /\ selected = None /\ highlighted # {} THEN ClearHighlights
     ELSE UNCHANGED <<highlighted, goal>>
  /\ UNCHANGED <<store, query, timer, due, drawn, pointer>>

CloseInspector ==
  /\ selected' = None
  /\ UNCHANGED <<store, search, due, drawn, pointer, helpOpen>>

ToggleHelp ==
  /\ helpOpen' = ~helpOpen
  /\ UNCHANGED <<store, search, due, drawn, pointer, selected>>

Next ==
  \/ Succeed \/ Fail \/ Refetch \/ Effects \/ Debounced
  \/ \E i \in Locals : Submit(i) \/ DropJob(i)
  \/ \E q \in Queries \cup {NoQuery} : Type(q)
  \/ \E k \in Places : Move(k) \/ Release(k)
  \/ Press \/ Leave \/ ClearKey \/ Escape \/ CloseInspector \/ ToggleHelp

Spec == Init /\ [][Next]_vars

\* React runs the effects of what it has rendered, and the debounce timer fires:
\* each list and each text restarts it, but both come at the pace of a user and
\* of one write at a time, and in the end leave it its 150 ms.  Neither the user
\* nor the backend nor the panel's query has to do anything.
FairSpec == Spec /\ WF_vars(Effects) /\ WF_vars(Debounced)
-----------------------------------------------------------------------------
(* Properties *)

\* A job is pending while its write is in flight and done until its timer
\* drops it; a memory counts as synced once its job is done, and from then on.
JobsAgree ==
  /\ \A i \in Locals : i \in DOMAIN jobs /\ jobs[i] = "pending" <=> flight = i
  /\ drops = {i \in DOMAIN jobs : jobs[i] = "done"}
  /\ \A k \in DOMAIN memories : memories[k].id \in Locals =>
       (memories[k].sync = "syncing" <=>
          memories[k].id \in DOMAIN jobs /\ jobs[memories[k].id] # "done")

\* With no search on its way, the highlights are those of the text in the
\* search bar over the list as it is now, unless the user has cleared them.
HighlightsAreCurrent ==
  timer = NoTimer /\ ~due =>
    \/ highlighted = {} /\ goal = NoQuery
    \/ query # NoQuery /\ goal = query /\ highlighted = Top(query, memories)

\* The tooltip and the handlers agree on the star under the pointer, so that
\* the next move can take it down; none is shown while the galaxy turns.
HoverAgrees == hovered = lastHovered /\ (drag = "moved" => hovered = None)

\* A query that has been typed is searched unless the text changes: no list that
\* is rendered meanwhile and no key gives its search up, as long as lists do not
\* restart its timer for ever.
QueryIsSearched ==
  \A q \in Queries : query = q /\ (timer # NoTimer \/ due) ~> goal = q \/ query # q
=============================================================================
