----------------------------- MODULE MCEdgeNode -----------------------------
(* Values for TLC: two contents of 3 and 5 bytes; a memory is like another  *)
(* of the same content.  The server may hold 12 bytes (its target is 10)    *)
(* and compacts from 8 on, the worker evicts above 5 bytes.                 *)
EXTENDS EdgeNode

CONSTANTS i1, i2, i3, small, big, g1

MCSizeOf == [c \in Contents |-> IF c = small THEN 3 ELSE 5]
MCSimilarity == [c \in Contents |-> [g \in Goals |-> IF c = small THEN 90 ELSE 20]]
MCRecency == [age \in 0 .. MaxTime |-> IF age = 0 THEN 100 ELSE IF age = 1 THEN 90 ELSE 80]
MCImportance == [c \in Contents |-> IF c = small THEN 80 ELSE 100]
MCAlike == [c \in Contents |-> [d \in Contents |-> c = d]]
=============================================================================
