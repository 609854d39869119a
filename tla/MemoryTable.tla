---------------------------- MODULE MemoryTable -----------------------------
(***************************************************************************)
(* What the local table of memories promises its clients, with no word on  *)
(* bytes, clocks, batches or queues: a content changes only when a client  *)
(* writes it, and is dirty from then on; a row loses its dirt only by an   *)
(* acknowledgement; a prefetched row never replaces one that is there; any *)
(* row may be forgotten, since the table is a cache.                       *)
(***************************************************************************)
CONSTANTS Ids, Contents

VARIABLE mem        \* the rows the table holds: id -> [content, synced]

Row == [content : Contents, synced : BOOLEAN]

TypeOK == /\ DOMAIN mem \subseteq Ids
          /\ \A i \in DOMAIN mem : mem[i] \in Row

Keep(m, S) == [i \in S |-> m[i]]

\* A table may always come out of a step with fewer rows.
MemSubset(m) == {Keep(m, S) : S \in SUBSET DOMAIN m}

Init == mem \in MemSubset([i \in {} |-> i])

-----------------------------------------------------------------------------
Write(i, c) ==
  mem' \in MemSubset([j \in DOMAIN mem \cup {i} |->
                        IF j = i THEN [content |-> c, synced |-> FALSE] ELSE mem[j]])

\* R holds rows read from the remote store.  They count as synced, but for one
\* at most, which may have to be written back.
Prefetch(R) ==
  \E D \in SUBSET DOMAIN R :
    /\ \A i, j \in D : i = j
    /\ mem' \in MemSubset([j \in DOMAIN mem \cup DOMAIN R |->
                             IF j \in DOMAIN mem THEN mem[j]
                             ELSE [content |-> R[j], synced |-> j \notin D]])

Acknowledge(S) ==
  mem' = [j \in DOMAIN mem |->
            IF j \in S THEN [mem[j] EXCEPT !.synced = TRUE] ELSE mem[j]]

Forget == mem' \in MemSubset(mem)

Next ==
  \/ \E i \in Ids, c \in Contents : Write(i, c)
  \/ \E S \in SUBSET Ids : \E R \in [S -> Contents] : Prefetch(R)
  \/ \E S \in SUBSET Ids : Acknowledge(S)
  \/ Forget

Spec == Init /\ [][Next]_mem
=============================================================================
