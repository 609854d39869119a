--------------------------- MODULE IngestorProofs ---------------------------
(* Admission control, for any number of requests of any sizes, any limit,   *)
(* and whatever the policy service and the embedder answer.                 *)
EXTENDS Ingestor, ByteSumProofs, SequenceTheorems

Statuses == Stages \cup {"new", "refused", "answered"}

\* What a request asks for is recorded from the moment it comes in.
Recorded ==
  /\ pc \in [Requests -> Statuses]
  /\ DOMAIN request = {r \in Requests : pc[r] # "new"}
  /\ \A r \in DOMAIN request : request[r] \in Calls

IInv == Recorded /\ PendingIsInFlight

\* The middleware in its order.
LEMMA StagesFollow ==
  /\ Head(Middleware) = "policy" /\ After("policy") = "hook"
  /\ After("hook") = "route" /\ After("route") = "embed"
<1>1. \A k \in 1 .. 4 : k = 1 \/ k = 2 \/ k = 3 \/ k = 4
  OBVIOUS
<1>2. /\ Middleware[1] = "policy" /\ Middleware[2] = "hook"
      /\ Middleware[3] = "route" /\ Middleware[4] = "embed"
  BY DEF Middleware
<1>3. (CHOOSE k \in 1 .. 4 : Middleware[k] = "policy") = 1
  BY <1>1, <1>2
<1>4. (CHOOSE k \in 1 .. 4 : Middleware[k] = "hook") = 2
  BY <1>1, <1>2
<1>5. (CHOOSE k \in 1 .. 4 : Middleware[k] = "route") = 3
  BY <1>1, <1>2
<1>6. QED
  BY <1>2, <1>3, <1>4, <1>5 DEF After, Middleware

LEMMA CallsHaveSizes == \A q \in Calls : q.size \in Nat
BY IngestorAssumption DEF Calls, MemoryCalls, TaskCalls

LEMMA FlightIsSized == Recorded => Sized(request, InFlight)
<1> SUFFICES ASSUME Recorded PROVE Sized(request, InFlight)
  OBVIOUS
<1>1. InFlight \subseteq Requests /\ InFlight \subseteq DOMAIN request
  BY DEF InFlight, Stages, Recorded
<1>2. IsFiniteSet(InFlight)
  BY <1>1, FS_Subset, IngestorAssumption
<1>3. QED
  BY <1>1, <1>2, CallsHaveSizes DEF Sized, Recorded

LEMMA InitIInv == Init => IInv
<1> SUFFICES ASSUME Init PROVE IInv
  OBVIOUS
<1>1. Recorded
  BY DEF Init, Recorded, Statuses
<1>2. InFlight = {}
  BY DEF Init, InFlight, Stages
<1>3. Cells(request, {}) = {}
  BY DEF Cells
<1>4. Bytes(request, InFlight) = 0
  BY <1>2, <1>3, FS_EmptySet DEF Bytes
<1>5. QED
  BY <1>1, <1>4, IngestorAssumption DEF Init, IInv, PendingIsInFlight

\* A step that neither lets a request in nor answers one.
LEMMA QuietStep ==
  ASSUME IInv, UNCHANGED <<request, pending>>, pc' \in [Requests -> Statuses],
         InFlight' = InFlight, \A r \in Requests : pc[r] = "new" <=> pc'[r] = "new"
  PROVE  IInv'
BY DEF IInv, Recorded, PendingIsInFlight

\* A request comes in with its bytes.
LEMMA AdmitStep ==
  ASSUME IInv, NEW r \in Requests, NEW q \in Calls, Admit(r, q)
  PROVE  IInv'
<1>1. pc' = [pc EXCEPT ![r] = "policy"] /\ pc[r] = "new"
  BY StagesFollow DEF Admit, Move
<1>2. q.size \in Nat
  BY CallsHaveSizes
<1>3. Recorded'
  BY <1>1, <1>2 DEF Admit, Received, IInv, Recorded, Statuses, Stages
<1>4. InFlight' = InFlight \cup {r} /\ r \notin InFlight
  BY <1>1 DEF InFlight, Stages, IInv, Recorded
<1>5. InFlight \subseteq DOMAIN request /\ r \notin DOMAIN request
  BY <1>1 DEF InFlight, Stages, IInv, Recorded
<1>6. request'[r] = q /\ \A x \in InFlight : request'[x] = request[x]
  BY <1>4, <1>5 DEF Admit, Received
<1>7. Bytes(request', InFlight') = Bytes(request', {r}) + Bytes(request', InFlight)
  <2>1. Sized(request', InFlight')
    <3>1. InFlight' \subseteq Requests /\ InFlight' \subseteq DOMAIN request'
      BY <1>3 DEF InFlight, Stages, Recorded
    <3>2. QED
      BY <1>3, <3>1, FS_Subset, IngestorAssumption, CallsHaveSizes DEF Sized, Recorded
  <2>2. {r} \in SUBSET InFlight' /\ InFlight' \ {r} = InFlight
    BY <1>4
  <2>3. QED
    BY <2>1, <2>2, BytesSplit
<1>8. Bytes(request', {r}) = q.size
  BY <1>2, <1>6, BytesOfOne
<1>9. Bytes(request', InFlight) = Bytes(request, InFlight)
  BY <1>6, BytesCongruence
<1>10. pending \in Nat
  BY FlightIsSized, BytesType DEF IInv, PendingIsInFlight
<1>11. pending' = Bytes(request', InFlight')
  BY <1>2, <1>7, <1>8, <1>9, <1>10 DEF Admit, IInv, PendingIsInFlight
<1>12. pending' <= Limit
  BY DEF Admit, Room
<1>13. QED
  BY <1>3, <1>11, <1>12 DEF IInv, PendingIsInFlight

\* A request in flight is answered and takes its bytes with it.
LEMMA AnswerStep ==
  ASSUME IInv, NEW r \in InFlight, NEW status \in {"refused", "answered"},
         Answer(r, status), request' = request
  PROVE  IInv'
<1>1. pc' = [pc EXCEPT ![r] = status] /\ r \in Requests /\ r \in DOMAIN request
  BY DEF Answer, Move, InFlight, Stages, IInv, Recorded
<1>2. Recorded'
  BY <1>1 DEF IInv, Recorded, Statuses, Stages, InFlight
<1>3. InFlight' = InFlight \ {r}
  BY <1>1 DEF InFlight, Stages, IInv, Recorded
<1>4. Sized(request, InFlight)
  BY FlightIsSized DEF IInv
<1>5. Bytes(request, InFlight) = Bytes(request, {r}) + Bytes(request, InFlight \ {r})
  BY <1>4, BytesSplit
<1>6. Bytes(request, {r}) = request[r].size /\ request[r].size \in Nat
  BY <1>1, BytesOfOne, CallsHaveSizes DEF IInv, Recorded
<1>7. Bytes(request, InFlight \ {r}) \in Nat
  BY <1>4, FS_Difference, BytesType DEF Sized
<1>8. pending' = Bytes(request, InFlight \ {r}) /\ pending' <= Limit
  BY <1>5, <1>6, <1>7, IngestorAssumption DEF Answer, Release, IInv, PendingIsInFlight
<1>9. QED
  BY <1>2, <1>3, <1>8 DEF IInv, PendingIsInFlight

LEMMA StepIInv == IInv /\ [Next]_vars => IInv'
<1> SUFFICES ASSUME IInv, [Next]_vars PROVE IInv'
  OBVIOUS
<1>1. ASSUME NEW r \in Requests, NEW q \in Calls, Admit(r, q) PROVE IInv'
  BY <1>1, AdmitStep
<1>2. ASSUME NEW r \in Requests, NEW q \in Calls, Reject(r, q) PROVE IInv'
  <2>1. pc' = [pc EXCEPT ![r] = "refused"] /\ pc[r] = "new"
    BY <1>2 DEF Reject, Move
  <2>2. q.size \in Nat
    BY CallsHaveSizes
  <2>3. Recorded'
    BY <1>2, <2>1, <2>2 DEF Reject, Received, IInv, Recorded, Statuses, Stages
  <2>4. InFlight' = InFlight
    BY <2>1 DEF InFlight, Stages, IInv, Recorded
  <2>5. \A x \in InFlight : request'[x].size = request[x].size
    BY <1>2, <2>1 DEF Reject, Received, InFlight, Stages, IInv, Recorded
  <2>6. Bytes(request', InFlight) = Bytes(request, InFlight)
    BY <2>5, BytesCongruence
  <2>7. QED
    BY <1>2, <2>3, <2>4, <2>6 DEF Reject, IInv, PendingIsInFlight
<1>3. ASSUME NEW r \in Requests, Allow(r) PROVE IInv'
  <2>1. pc' = [pc EXCEPT ![r] = "hook"] /\ pc[r] = "policy"
    BY <1>3, StagesFollow DEF Allow, Move
  <2>2. InFlight' = InFlight
    BY <2>1 DEF InFlight, Stages, IInv, Recorded
  <2>3. QED
    BY <1>3, <2>1, <2>2, QuietStep DEF Allow, IInv, Recorded, Statuses, Stages
<1>4. ASSUME NEW r \in Requests, Deny(r) PROVE IInv'
  BY <1>4, AnswerStep DEF Deny, InFlight, Stages
<1>5. ASSUME NEW r \in Requests, Hook(r) PROVE IInv'
  <2>1. pc' = [pc EXCEPT ![r] = "route"] /\ pc[r] = "hook"
    BY <1>5, StagesFollow DEF Hook, Move
  <2>2. InFlight' = InFlight
    BY <2>1 DEF InFlight, Stages, IInv, Recorded
  <2>3. QED
    BY <1>5, <2>1, <2>2, QuietStep DEF Hook, IInv, Recorded, Statuses, Stages
<1>6. ASSUME NEW r \in Requests, TaskRoute(r) PROVE IInv'
  BY <1>6, AnswerStep DEF TaskRoute, InFlight, Stages
<1>7. ASSUME NEW r \in Requests, MemoryRoute(r) PROVE IInv'
  <2>1. CASE request[r].valid
    <3>1. pc' = [pc EXCEPT ![r] = "embed"] /\ pc[r] = "route"
      BY <1>7, <2>1, StagesFollow DEF MemoryRoute, Move
    <3>2. InFlight' = InFlight
      BY <3>1 DEF InFlight, Stages, IInv, Recorded
    <3>3. QED
      BY <1>7, <2>1, <3>1, <3>2, QuietStep DEF MemoryRoute, IInv, Recorded, Statuses, Stages
  <2>2. CASE ~request[r].valid
    BY <1>7, <2>2, AnswerStep DEF MemoryRoute, InFlight, Stages
  <2>3. QED
    BY <2>1, <2>2
<1>8. ASSUME NEW r \in Requests, Embedded(r) PROVE IInv'
  BY <1>8, AnswerStep DEF Embedded, InFlight, Stages
<1>9. ASSUME UNCHANGED <<pc, request, pending>> PROVE IInv'
  BY <1>9 DEF IInv, Recorded, PendingIsInFlight, InFlight
<1>10. QED
  BY <1>1, <1>2, <1>3, <1>4, <1>5, <1>6, <1>7, <1>8, <1>9
     DEF Next, Step, Land, PrefetchFails, vars

\* `tracks pending bytes' and `releases on response completion': the counter
\* of the sentinel is the size of the requests in flight, within the limit.
THEOREM AdmissionCorrect == Spec => []PendingIsInFlight
<1>1. IInv => PendingIsInFlight
  BY DEF IInv
<1>2. QED
  BY <1>1, InitIInv, StepIInv, PTL DEF Spec

-----------------------------------------------------------------------------
\* The tasks that authorized requests have named: all that any effect may be.
Named == {request[r].task : r \in Authorized} \ {NoTask}

AInv ==
  /\ Recorded
  /\ goal \in Named \cup {NoTask}
  /\ registry \in [Sessions -> Named \cup {NoTask}]
  /\ prefetches \in Seq(Named)

LEMMA InitAInv == Init => AInv
BY DEF Init, AInv, Recorded, Statuses

\* A sequence over S with one element dropped.
LEMMA DropType ==
  ASSUME NEW S, NEW s \in Seq(S), NEW k \in DOMAIN s
  PROVE  Drop(s, k) \in Seq(S)
<1>1. Len(s) \in Nat /\ k \in 1 .. Len(s)
  OBVIOUS
<1>2. SubSeq(s, 1, k - 1) \in Seq(S)
  BY <1>1, SubSeqProperties, ElementOfSeq
<1>3. SubSeq(s, k + 1, Len(s)) \in Seq(S)
  BY <1>1, SubSeqProperties, ElementOfSeq
<1>4. QED
  BY <1>2, <1>3, ConcatProperties DEF Drop

\* What has been authorized stays so, and stays on record.
LEMMA AuthorityGrows ==
  ASSUME Recorded, [Next]_vars
  PROVE  Named \subseteq Named'
<1> DEFINE Keeps == /\ Authorized \subseteq Authorized'
                    /\ \A r \in Authorized : request'[r] = request[r]
<1>1. ASSUME NEW r \in Requests, NEW q \in Calls, Admit(r, q) \/ Reject(r, q) PROVE Keeps
  <2>1. pc[r] = "new" /\ r \notin Authorized /\ request' = Received(r, q)
    BY <1>1 DEF Admit, Reject, Authorized
  <2>2. \A x \in Requests \ {r} : pc'[x] = pc[x]
    BY <1>1 DEF Admit, Reject, Move, Recorded
  <2>3. QED
    BY <2>1, <2>2 DEF Received, Authorized, Recorded
<1>2. ASSUME NEW r \in Requests, Allow(r) \/ Step(r) PROVE Keeps
  <2>1. request' = request /\ \A x \in Requests \ {r} : pc'[x] = pc[x]
    BY <1>2 DEF Allow, Step, Deny, Hook, TaskRoute, MemoryRoute, Embedded, Answer, Move, Recorded
  <2>2. r \in Authorized => r \in Authorized'
    BY <1>2, StagesFollow DEF Authorized, Allow, Step, Deny, Hook, TaskRoute, MemoryRoute,
       Embedded, Answer, Move, Recorded
  <2>3. QED
    BY <2>1, <2>2 DEF Authorized
<1>3. ASSUME UNCHANGED <<pc, request>> PROVE Keeps
  BY <1>3 DEF Authorized
<1>4. Keeps
  BY <1>1, <1>2, <1>3 DEF Next, Land, PrefetchFails, vars
<1>5. QED
  BY <1>4 DEF Named

\* A request past the policy sets a task that it names.
LEMMA SetTaskIsNamed ==
  ASSUME AInv, NEW s \in Sessions, NEW t \in Named', t # NoTask, NEW start \in BOOLEAN,
         SetTask(s, t, start), Named \subseteq Named'
  PROVE  /\ goal' \in Named' \cup {NoTask}
         /\ registry' \in [Sessions -> Named' \cup {NoTask}]
         /\ prefetches' \in Seq(Named')
<1>1. prefetches \in Seq(Named')
  BY SeqMonotonic DEF AInv
<1>2. prefetches' \in Seq(Named')
  BY <1>1 DEF SetTask
<1>3. QED
  BY <1>2 DEF SetTask, AInv

LEMMA StepAInv == AInv /\ Recorded' /\ [Next]_vars => AInv'
<1> SUFFICES ASSUME AInv, Recorded', [Next]_vars PROVE AInv'
  OBVIOUS
<1>0. Named \subseteq Named'
  BY AuthorityGrows DEF AInv
<1>1. ASSUME UNCHANGED memory PROVE AInv'
  <2>1. prefetches' \in Seq(Named')
    BY <1>0, <1>1, SeqMonotonic DEF AInv, memory
  <2>2. QED
    BY <1>0, <1>1, <2>1 DEF AInv, memory
<1>2. ASSUME NEW r \in Requests, Hook(r) PROVE AInv'
  <2> DEFINE q == request[r]
  <2>1. CASE q.named # NoSession /\ q.task # NoTask
    <3>1. q.named \in Sessions /\ q.task \in Named'
      <4>1. q \in Calls
        BY <1>2 DEF Hook, AInv, Recorded
      <4>2. r \in Authorized'
        BY <1>2, StagesFollow DEF Hook, Move, Authorized, AInv, Recorded
      <4>3. QED
        BY <1>2, <2>1, <4>1, <4>2 DEF Hook, Named, Calls, MemoryCalls, TaskCalls
    <3>2. SetTask(q.named, q.task, TRUE)
      BY <1>2, <2>1 DEF Hook
    <3>3. QED
      BY <1>0, <2>1, <3>1, <3>2, SetTaskIsNamed DEF AInv
  <2>2. CASE ~(q.named # NoSession /\ q.task # NoTask)
    BY <1>1, <1>2, <2>2 DEF Hook
  <2>3. QED
    BY <2>1, <2>2
<1>3. ASSUME NEW r \in Requests, TaskRoute(r) PROVE AInv'
  <2> DEFINE q == request[r]
  <2>1. CASE q.task # NoTask
    <3>1. q.path \in Sessions /\ q.task \in Named'
      <4>1. q \in Calls
        BY <1>3 DEF TaskRoute, AInv, Recorded
      <4>2. r \in Authorized'
        BY <1>3 DEF TaskRoute, Answer, Move, Authorized, AInv, Recorded
      <4>3. QED
        BY <1>3, <2>1, <4>1, <4>2 DEF TaskRoute, Named, Calls, MemoryCalls, TaskCalls
    <3>2. SetTask(q.path, q.task, r \notin fired)
      BY <1>3, <2>1 DEF TaskRoute
    <3>3. QED
      BY <1>0, <2>1, <3>1, <3>2, SetTaskIsNamed DEF AInv
  <2>2. CASE q.task = NoTask
    BY <1>1, <1>3, <2>2 DEF TaskRoute
  <2>3. QED
    BY <2>1, <2>2
<1>4. ASSUME NEW k \in DOMAIN prefetches, Land(k) \/ PrefetchFails(k) PROVE AInv'
  <2>1. Named' = Named /\ prefetches' = Drop(prefetches, k)
    BY <1>4 DEF Land, PrefetchFails, Named, Authorized
  <2>2. prefetches' \in Seq(Named)
    BY <2>1, DropType DEF AInv
  <2>3. prefetches[k] \in Named
    BY DEF AInv
  <2>4. goal' \in Named \cup {NoTask} /\ registry' = registry
    BY <1>4, <2>3 DEF Land, PrefetchFails, AInv
  <2>5. QED
    BY <2>1, <2>2, <2>4 DEF AInv
<1>5. QED
  BY <1>1, <1>2, <1>3, <1>4
     DEF Next, Step, Admit, Reject, Allow, Deny, MemoryRoute, Embedded, vars, memory

\* `Order matters: sentinel rejects at the door, then OPA authorizes, then
\* refresh-ahead runs': nothing a request brings about precedes its passing.
THEOREM AuthorizationCorrect == Spec => []EffectsAreAuthorized
<1>1. AInv => EffectsAreAuthorized
  BY DEF AInv, EffectsAreAuthorized, Effects, Named
<1>2. IInv => Recorded
  BY DEF IInv
<1>3. QED
  BY <1>1, <1>2, InitIInv, StepIInv, InitAInv, StepAInv, PTL DEF Spec
-----------------------------------------------------------------------------
\* The counters and the histories, of which no other invariant speaks.
BInv ==
  /\ rejections \in Nat
  /\ fired \subseteq Requests
  /\ failures \in 0 .. MaxFailures
  /\ changed \in Sessions \cup {NoSession}

LEMMA InitBInv == Init => BInv
BY IngestorAssumption DEF Init, BInv

LEMMA StepBInv == Recorded /\ BInv /\ [Next]_vars => BInv'
<1> SUFFICES ASSUME Recorded, BInv, [Next]_vars PROVE BInv'
  OBVIOUS
<1>1. ASSUME NEW r \in Requests, NEW q \in Calls, Admit(r, q) \/ Reject(r, q) PROVE BInv'
  BY <1>1 DEF Admit, Reject, memory, BInv
<1>2. ASSUME NEW r \in Requests, Hook(r) PROVE BInv'
  <2>1. request[r] \in Calls
    BY <1>2 DEF Hook, Recorded
  <2>2. request[r].named \in Sessions \cup {NoSession}
    BY <2>1 DEF Calls, MemoryCalls, TaskCalls
  <2>3. QED
    BY <1>2, <2>2 DEF Hook, SetTask, memory, BInv
<1>3. ASSUME NEW r \in Requests, TaskRoute(r) PROVE BInv'
  <2>1. request[r] \in Calls
    BY <1>3 DEF TaskRoute, Recorded
  <2>2. request[r].path \in Sessions \cup {NoSession}
    BY <2>1 DEF Calls, MemoryCalls, TaskCalls
  <2>3. QED
    BY <1>3, <2>2 DEF TaskRoute, SetTask, memory, BInv
<1>4. ASSUME NEW r \in Requests, Allow(r) \/ Deny(r) \/ MemoryRoute(r) PROVE BInv'
  BY <1>4 DEF Allow, Deny, MemoryRoute, memory, BInv
<1>5. ASSUME NEW r \in Requests, Embedded(r) PROVE BInv'
  BY <1>5, IngestorAssumption DEF Embedded, memory, BInv
<1>6. ASSUME NEW k \in DOMAIN prefetches, Land(k) \/ PrefetchFails(k) PROVE BInv'
  BY <1>6, IngestorAssumption DEF Land, PrefetchFails, BInv
<1>7. CASE UNCHANGED vars
  BY <1>7 DEF vars, BInv
<1>8. QED
  BY <1>1, <1>2, <1>3, <1>4, <1>5, <1>6, <1>7 DEF Next, Step

LEMMA InvariantsGiveTypes == IInv /\ AInv /\ BInv => TypeOK
<1> SUFFICES ASSUME IInv, AInv, BInv PROVE TypeOK
  OBVIOUS
<1>1. pending \in Nat
  BY FlightIsSized, BytesType DEF IInv, PendingIsInFlight
<1>2. Named \subseteq Tasks
  BY DEF Named, Authorized, AInv, Recorded, Calls, MemoryCalls, TaskCalls
<1>3. prefetches \in Seq(Tasks)
  BY <1>2, SeqMonotonic DEF AInv
<1>4. QED
  BY <1>1, <1>2, <1>3 DEF TypeOK, AInv, BInv, Recorded, Statuses

\* The types, for any requests: above all, releasing tickets takes the counter
\* of the sentinel never below zero, and a session's task is one somebody named.
THEOREM TypeCorrect == Spec => []TypeOK
<1>1. IInv => Recorded
  BY DEF IInv
<1>2. QED
  BY <1>1, InitIInv, StepIInv, InitAInv, StepAInv, InitBInv, StepBInv, InvariantsGiveTypes,
     PTL DEF Spec
-----------------------------------------------------------------------------
\* Where the goal is heading: the prefetch that will land last.
Latest == IF prefetches = <<>> THEN goal ELSE prefetches[Len(prefetches)]

\* A hook that starts a prefetch leaves none for the task route to start: that
\* is sound only if the request is not on its way to the task route.
GInv ==
  /\ \A r \in fired : pc[r] # "new" /\ request[r].path = NoSession
  /\ failures = 0 /\ changed # NoSession => Latest = registry[changed]

LEMMA InitGInv == Init => GInv
BY DEF Init, GInv

\* A task that changes, with its prefetch.
LEMMA SetTaskLeads ==
  ASSUME TypeOK, GInv, NEW s \in Sessions, NEW t \in Tasks, SetTask(s, t, TRUE),
         failures' = 0 => failures = 0, changed' # NoSession, failures' = 0
  PROVE  Latest' = registry'[changed']
<1>1. CASE Changes(s, t)
  <2>1. prefetches' = Append(prefetches, t) /\ changed' = s /\ registry'[s] = t
    BY <1>1 DEF SetTask, TypeOK
  <2>2. prefetches' # <<>> /\ prefetches'[Len(prefetches')] = t
    BY <2>1, AppendProperties DEF TypeOK
  <2>3. QED
    BY <2>1, <2>2 DEF Latest
<1>2. CASE ~Changes(s, t)
  BY <1>2 DEF SetTask, Changes, TypeOK, GInv, Latest
<1>3. QED
  BY <1>1, <1>2

\* The first prefetch settles: where the others lead stays as it is.
LEMMA DropFirst ==
  ASSUME NEW S, NEW s \in Seq(S), s # <<>>
  PROVE  /\ Len(s) = 1 => Drop(s, 1) = <<>>
         /\ Len(s) # 1 => /\ Drop(s, 1) # <<>>
                          /\ Drop(s, 1)[Len(Drop(s, 1))] = s[Len(s)]
<1>1. Len(s) \in Nat \ {0}
  BY EmptySeq
<1>2. SubSeq(s, 1, 0) = <<>>
  BY SubSeqEmpty
<1>3. /\ SubSeq(s, 2, Len(s)) \in Seq(S)
      /\ Len(SubSeq(s, 2, Len(s))) = IF 2 <= Len(s) THEN Len(s) - 1 ELSE 0
      /\ \A i \in 1 .. Len(s) - 1 : SubSeq(s, 2, Len(s))[i] = s[i + 1]
  BY <1>1, SubSeqProperties, ElementOfSeq
<1>4. Drop(s, 1) = SubSeq(s, 2, Len(s))
  BY <1>1, <1>2, <1>3, ConcatEmptySeq DEF Drop
<1>5. CASE Len(s) = 1
  BY <1>4, <1>5, SubSeqEmpty
<1>6. CASE Len(s) # 1
  <2> DEFINE n == Len(s)
  <2>0. n \in Nat /\ 2 <= n
    <3>1. n \in Nat /\ n # 0 /\ n # 1
      BY <1>1, <1>6
    <3> HIDE DEF n
    <3>2. QED
      BY <3>1
  <2>1. Len(Drop(s, 1)) = n - 1 /\ n - 1 \in 1 .. n - 1
    <3>1. Len(SubSeq(s, 2, Len(s))) = n - 1
      BY <1>3, <2>0
    <3> HIDE DEF n
    <3>2. n - 1 \in 1 .. n - 1
      BY <2>0
    <3>3. QED
      BY <1>4, <3>1, <3>2
  <2>2. Drop(s, 1)[Len(s) - 1] = s[Len(s)]
    BY <1>3, <1>4, <2>1
  <2>3. Drop(s, 1) # <<>>
    BY <1>1, <2>1, EmptySeq
  <2>4. QED
    BY <1>6, <2>1, <2>2, <2>3
<1>7. QED
  BY <1>5, <1>6

\* Requests in flight keep what they ask for, and the prefetches of the hook
\* and of the task route both keep the lead.
LEMMA StepGInv ==
  ASSUME InOrder, ~TaskNamesSession
  PROVE  TypeOK /\ TypeOK' /\ GInv /\ [Next]_vars => GInv'
<1> SUFFICES ASSUME TypeOK, TypeOK', GInv, [Next]_vars PROVE GInv'
  OBVIOUS
<1> DEFINE Old == \A r \in fired : pc'[r] # "new" /\ request'[r].path = NoSession
<1>1. ASSUME NEW r \in Requests, NEW q \in Calls, Admit(r, q) \/ Reject(r, q) PROVE GInv'
  <2>1. pc[r] = "new" /\ request' = Received(r, q) /\ UNCHANGED <<memory, failures>>
    BY <1>1 DEF Admit, Reject
  <2>2. \A x \in Requests \ {r} : pc'[x] = pc[x]
    BY <1>1 DEF Admit, Reject, Move, TypeOK
  <2>3. r \notin fired
    BY <2>1 DEF GInv
  <2>4. \A x \in fired : request'[x] = request[x]
    BY <2>1, <2>3 DEF Received, GInv, TypeOK
  <2>5. Old
    BY <2>2, <2>3, <2>4 DEF GInv, TypeOK
  <2>6. QED
    BY <2>1, <2>5 DEF GInv, Latest, memory
<1>2. ASSUME NEW r \in Requests, Allow(r) \/ Step(r) PROVE Old /\ request' = request
  <2>1. request' = request /\ \A x \in Requests \ {r} : pc'[x] = pc[x]
    BY <1>2 DEF Allow, Step, Deny, Hook, TaskRoute, MemoryRoute, Embedded, Answer, Move, TypeOK
  <2>2. pc'[r] # "new"
    BY <1>2, StagesFollow DEF Allow, Step, Deny, Hook, TaskRoute, MemoryRoute, Embedded, Answer,
       Move, TypeOK
  <2>3. QED
    BY <2>1, <2>2 DEF GInv, TypeOK
<1>3. ASSUME NEW r \in Requests, Allow(r) \/ Deny(r) \/ MemoryRoute(r) PROVE GInv'
  <2>1. UNCHANGED <<memory, failures>>
    BY <1>3 DEF Allow, Deny, MemoryRoute
  <2>2. QED
    BY <1>2, <1>3, <2>1 DEF GInv, Latest, memory, Step
<1>4. ASSUME NEW r \in Requests, Hook(r) PROVE GInv'
  <2> DEFINE q == request[r]
  <2>1. Old /\ request' = request /\ pc[r] = "hook" /\ pc'[r] = "route" /\ failures' = failures
    BY <1>2, <1>4, StagesFollow DEF Step, Hook, Move, TypeOK
  <2>2. CASE q.named # NoSession /\ q.task # NoTask
    <3>1. q \in Calls
      BY <2>1 DEF TypeOK
    <3>2. q.named \in Sessions /\ q.task \in Tasks /\ q.path = NoSession
      BY <2>2, <3>1 DEF Calls, MemoryCalls, TaskCalls
    <3>3. SetTask(q.named, q.task, TRUE) /\ fired' \subseteq fired \cup {r}
      BY <1>4, <2>2 DEF Hook
    <3>4. \A x \in fired' : pc'[x] # "new" /\ request'[x].path = NoSession
      BY <2>1, <3>2, <3>3
    <3> HIDE DEF q
    <3>5. QED
      BY <2>1, <3>2, <3>3, <3>4, SetTaskLeads DEF GInv
  <2>3. CASE ~(q.named # NoSession /\ q.task # NoTask)
    <3>1. UNCHANGED memory
      BY <1>4, <2>3 DEF Hook
    <3>2. QED
      BY <2>1, <3>1 DEF GInv, Latest, memory
  <2>4. QED
    BY <2>2, <2>3
<1>5. ASSUME NEW r \in Requests, TaskRoute(r) PROVE GInv'
  <2> DEFINE q == request[r]
  <2>1. Old /\ request' = request /\ pc[r] = "route" /\ q.path # NoSession /\ failures' = failures
    BY <1>2, <1>5 DEF Step, TaskRoute
  <2>2. CASE q.task # NoTask
    <3>1. q \in Calls /\ r \notin fired
      BY <2>1 DEF TypeOK, GInv
    <3>2. q.path \in Sessions /\ q.task \in Tasks
      BY <2>1, <2>2, <3>1 DEF Calls, MemoryCalls, TaskCalls
    <3>3. SetTask(q.path, q.task, TRUE) /\ fired' = fired
      BY <1>5, <2>2, <3>1 DEF TaskRoute
    <3> HIDE DEF q
    <3>4. QED
      BY <2>1, <3>2, <3>3, SetTaskLeads DEF GInv
  <2>3. CASE q.task = NoTask
    <3>1. UNCHANGED memory
      BY <1>5, <2>3 DEF TaskRoute
    <3>2. QED
      BY <2>1, <3>1 DEF GInv, Latest, memory
  <2>4. QED
    BY <2>2, <2>3
<1>6. ASSUME NEW r \in Requests, Embedded(r) PROVE GInv'
  <2>1. UNCHANGED memory /\ (failures' = 0 => failures = 0)
    BY <1>6 DEF Embedded, TypeOK
  <2>2. QED
    BY <1>2, <1>6, <2>1 DEF GInv, Latest, memory, Step
<1>7. ASSUME NEW k \in DOMAIN prefetches, Land(k) PROVE GInv'
  <2>1. prefetches \in Seq(Tasks) /\ prefetches # <<>> /\ k = 1
    BY <1>7 DEF Land, TypeOK
  <2>2. /\ prefetches' = Drop(prefetches, 1) /\ goal' = prefetches[1]
        /\ UNCHANGED <<pc, request, registry, fired, failures, changed>>
    BY <1>7, <2>1 DEF Land
  <2>3. Latest' = Latest
    BY <2>1, <2>2, DropFirst DEF Latest
  <2>4. QED
    BY <2>2, <2>3 DEF GInv
<1>8. ASSUME NEW k \in DOMAIN prefetches, PrefetchFails(k) PROVE GInv'
  <2>1. failures' # 0
    BY <1>8, IngestorAssumption DEF PrefetchFails, TypeOK
  <2>2. QED
    BY <1>8, <2>1 DEF PrefetchFails, GInv
<1>9. CASE UNCHANGED vars
  BY <1>9 DEF vars, GInv, Latest
<1>10. QED
  BY <1>1, <1>3, <1>4, <1>5, <1>6, <1>7, <1>8, <1>9 DEF Next, Step

\* Whoever is told that the task changed prefetches for it: with
\* an embedder that answers in order, and as long as the session of a task
\* call is the one in its path, the goal catches up with the last change
\* whatever the hook and the task route of any requests do meanwhile.
THEOREM GoalIsTheLastTask ==
  ASSUME InOrder, ~TaskNamesSession
  PROVE  Spec => []GoalFollowsTask
<1>1. GInv => GoalFollowsTask
  BY DEF GInv, GoalFollowsTask, Latest
<1>2. TypeOK /\ TypeOK' /\ GInv /\ [Next]_vars => GInv'
  BY StepGInv
<1>3. QED
  BY <1>1, <1>2, InitGInv, TypeCorrect, PTL DEF Spec
=============================================================================
