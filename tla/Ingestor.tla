------------------------------ MODULE Ingestor ------------------------------
(***************************************************************************)
(* The HTTP front: admission by the resource sentinel, the policy check,   *)
(* the refresh-ahead hook, the routes, and the prefetches they start.  The *)
(* middleware of one request runs in order, with an await between any two  *)
(* of its stages; requests and prefetches interleave there.                *)
(***************************************************************************)
EXTENDS ByteSum, Sequences

CONSTANTS
  Requests, Sessions, Tasks, NoSession, NoTask,
  Sizes,              \* content-length of a request, or the fallback
  Limit,              \* queueLimitBytes
  RssBounded,         \* rssLimitBytes is finite
  InOrder,            \* the embedder answers in the order of its calls
  TaskNamesSession,   \* a task call may carry session_id as well
  MaxFailures         \* bound of the model: rejections by the embedder

ASSUME IngestorAssumption ==
  /\ IsFiniteSet(Requests)
  /\ Sizes \subseteq Nat /\ Limit \in Nat /\ MaxFailures \in Nat
  /\ RssBounded \in BOOLEAN /\ InOrder \in BOOLEAN /\ TaskNamesSession \in BOOLEAN
  /\ NoTask \notin Tasks /\ NoSession \notin Sessions

VARIABLES
  pc,           \* the stage a request has reached
  request,      \* what each request that has come in asks for
  pending,      \* pendingBytes of the sentinel
  rejections,   \* consecutiveRejections, on which Retry-After depends
  registry,     \* the current task of each session
  fired,        \* requests whose hook has started a prefetch
  prefetches,   \* tasks whose embedding is awaited, in the order of the calls
  goal,         \* the task whose embedding the cache has as its goal
  failures,     \* embeddings that were rejected so far
  changed       \* history: the session whose task changed last

vars == <<pc, request, pending, rejections, registry, fired, prefetches, goal, failures, changed>>
memory == <<registry, fired, prefetches, goal, changed>>

\* /ingest and /search have no session in their path; `valid' says whether
\* the body passes the check of the route.
MemoryCalls == [path : {NoSession}, named : Sessions \cup {NoSession},
                task : Tasks \cup {NoTask}, size : Sizes, valid : BOOLEAN]
TaskCalls ==
  [path : Sessions, named : IF TaskNamesSession THEN Sessions \cup {NoSession} ELSE {NoSession},
   task : Tasks \cup {NoTask}, size : Sizes, valid : {TRUE}]
Calls == MemoryCalls \cup TaskCalls

Stages == {"policy", "hook", "route", "embed"}
InFlight == {r \in Requests : pc[r] \in Stages}

TypeOK ==
  /\ pc \in [Requests -> Stages \cup {"new", "refused", "answered"}]
  /\ DOMAIN request = {r \in Requests : pc[r] # "new"}
  /\ \A r \in DOMAIN request : request[r] \in Calls
  /\ pending \in Nat /\ rejections \in Nat
  /\ registry \in [Sessions -> Tasks \cup {NoTask}]
  /\ fired \subseteq Requests
  /\ prefetches \in Seq(Tasks)
  /\ goal \in Tasks \cup {NoTask}
  /\ failures \in 0 .. MaxFailures
  /\ changed \in Sessions \cup {NoSession}

Init ==
  /\ pc = [r \in Requests |-> "new"]
  /\ request = [r \in {} |-> r]
  /\ pending = 0 /\ rejections = 0 /\ failures = 0
  /\ registry = [s \in Sessions |-> NoTask]
  /\ fired = {} /\ prefetches = <<>>
  /\ goal = NoTask /\ changed = NoSession

-----------------------------------------------------------------------------
(* The stages *)

\* Fault: the hook before the policy.
HookFirst == <<"hook", "policy", "route", "embed">>

\* The order in which createIngestorApp installs the middleware.
Middleware == <<"policy", "hook", "route", "embed">>

After(stage) ==
  LET k == CHOOSE k \in 1 .. 4 : Middleware[k] = stage IN Middleware[k + 1]

Move(r, stage) == pc' = [pc EXCEPT ![r] = stage]

Received(r, q) == [x \in DOMAIN request \cup {r} |-> IF x = r THEN q ELSE request[x]]

\* Fault: the limit is compared with what is already pending.
RoomBefore(q) == pending <= Limit

\* projected <= queueLimitBytes
Room(q) == pending + q.size <= Limit

\* admit(): the sentinel lets the request in ...
Admit(r, q) ==
  /\ pc[r] = "new"
  /\ Room(q)
  /\ pending' = pending + q.size
  /\ rejections' = 0
  /\ request' = Received(r, q)
  /\ Move(r, Head(Middleware))
  /\ UNCHANGED <<memory, failures>>

\* ... or answers 503; the process may be over its RSS limit at any time.
Reject(r, q) ==
  /\ pc[r] = "new"
  /\ ~Room(q) \/ RssBounded
  /\ rejections' = rejections + 1
  /\ request' = Received(r, q)
  /\ Move(r, "refused")
  /\ UNCHANGED <<memory, pending, failures>>

\* Fault: only the way through the last stage releases the ticket.
ReleaseAtEnd(r) ==
  IF pc[r] # "embed" THEN pending
  ELSE IF pending < request[r].size THEN 0 ELSE pending - request[r].size

\* Fault: a ticket released twice, and no floor under the counter.
ReleaseTwice(r) == pending - 2 * request[r].size

\* ticket.release(), in the `finally' of the sentinel's middleware.
Release(r) ==
  IF pending < request[r].size THEN 0 ELSE pending - request[r].size

Answer(r, status) == Move(r, status) /\ pending' = Release(r)

Allow(r) ==
  /\ pc[r] = "policy"
  /\ Move(r, After("policy"))
  /\ UNCHANGED <<memory, request, pending, rejections, failures>>

\* 401, 403, an answer that is no answer, or none within timeoutMs.
Deny(r) ==
  /\ pc[r] = "policy"
  /\ Answer(r, "refused")
  /\ UNCHANGED <<memory, request, rejections, failures>>

\* Fault: only the first task of a session counts as a change.
FirstTaskOnly(s, t) == registry[s] = NoTask

\* setTask(): whether the task of session s changes.
Changes(s, t) == registry[s] # t

\* setTask(s, t) and, for a change that has to `start' one, a prefetch.
SetTask(s, t, start) ==
  /\ registry' = [registry EXCEPT ![s] = t]
  /\ prefetches' = IF Changes(s, t) /\ start THEN Append(prefetches, t) ELSE prefetches
  /\ changed' = IF Changes(s, t) THEN s ELSE changed
  /\ UNCHANGED goal

\* The refresh-ahead middleware: session and task from query or body.
Hook(r) ==
  LET q == request[r]
  IN /\ pc[r] = "hook"
     /\ Move(r, After("hook"))
     /\ IF q.named # NoSession /\ q.task # NoTask
          THEN /\ SetTask(q.named, q.task, TRUE)
               /\ fired' = IF Changes(q.named, q.task) THEN fired \cup {r} ELSE fired
          ELSE UNCHANGED memory
     /\ UNCHANGED <<request, pending, rejections, failures>>

\* POST /sessions/:id/task; a request without a task is answered 400.
TaskRoute(r) ==
  LET q == request[r]
  IN /\ pc[r] = "route"
     /\ q.path # NoSession
     /\ IF q.task # NoTask THEN SetTask(q.path, q.task, r \notin fired) /\ UNCHANGED fired
        ELSE UNCHANGED memory
     /\ Answer(r, "answered")
     /\ UNCHANGED <<request, rejections, failures>>

\* POST /ingest and /search: 400, or on to the embedder.
MemoryRoute(r) ==
  /\ pc[r] = "route"
  /\ request[r].path = NoSession
  /\ IF request[r].valid THEN Move(r, After("route")) /\ UNCHANGED pending
     ELSE Answer(r, "answered")
  /\ UNCHANGED <<memory, request, rejections, failures>>

\* The embedding is there and the cache is read or written; or it is
\* rejected, and the framework answers 500.
Embedded(r) ==
  /\ pc[r] = "embed"
  /\ Answer(r, "answered")
  /\ failures' \in {failures, failures + 1}
  /\ failures' <= MaxFailures
  /\ UNCHANGED <<memory, request, rejections>>

-----------------------------------------------------------------------------
(* Prefetches, which nobody awaits *)

Drop(s, k) == SubSeq(s, 1, k - 1) \o SubSeq(s, k + 1, Len(s))

\* prefetchForTask() after its await: the embedding becomes the goal.
Land(k) ==
  /\ k = 1 \/ ~InOrder
  /\ goal' = prefetches[k]
  /\ prefetches' = Drop(prefetches, k)
  /\ UNCHANGED <<pc, request, pending, rejections, registry, fired, failures, changed>>

\* The embedder rejects; the error is logged, or swallowed by the task route.
PrefetchFails(k) ==
  /\ failures < MaxFailures
  /\ failures' = failures + 1
  /\ prefetches' = Drop(prefetches, k)
  /\ UNCHANGED <<pc, request, pending, rejections, registry, fired, goal, changed>>

Step(r) == Deny(r) \/ Hook(r) \/ TaskRoute(r) \/ MemoryRoute(r) \/ Embedded(r)

Next ==
  \/ \E r \in Requests : \/ \E q \in Calls : Admit(r, q) \/ Reject(r, q)
                         \/ Allow(r) \/ Step(r)
  \/ \E k \in DOMAIN prefetches : Land(k) \/ PrefetchFails(k)

Spec == Init /\ [][Next]_vars

\* The timer of the policy call denies a request the policy leaves without
\* answer; bodies arrive or time out, and the embedder settles its promises.
FairSpec == Spec /\ \A r \in Requests : WF_vars(Step(r))
-----------------------------------------------------------------------------
(* Properties *)

\* Whatever way requests end, pendingBytes is the size of those in flight,
\* and these fit the limit.
PendingIsInFlight == pending = Bytes(request, InFlight) /\ pending <= Limit

\* Past the policy, that is, answered by a route or on the way to one.
Authorized == {r \in Requests : pc[r] \in {"hook", "route", "embed", "answered"}}

\* What requests have brought about: sessions' tasks, prefetches, the goal.
Effects == ({goal} \cup {registry[s] : s \in Sessions}
              \cup {prefetches[k] : k \in DOMAIN prefetches}) \ {NoTask}

\* No session's task, no prefetch and no goal stems from a request that the
\* sentinel or the policy turned away, or that they have not let in yet.
EffectsAreAuthorized == \A t \in Effects : \E r \in Authorized : request[r].task = t

\* When nothing is on its way any more, and no embedding was rejected, the
\* goal is the task of the session whose task changed last.
GoalFollowsTask ==
  InFlight = {} /\ prefetches = <<>> /\ failures = 0 /\ changed # NoSession
    => goal = registry[changed]

\* Every admitted request gives its bytes back, whatever the policy service
\* and the embedder do.
DrainsToIdle == pending > 0 ~> pending = 0
=============================================================================
