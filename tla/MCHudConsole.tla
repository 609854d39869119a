---------------------------- MODULE MCHudConsole ----------------------------
(* Values for TLC: a list of one seeded memory that has room for another.   *)
EXTENDS HudConsole

CONSTANTS m0, a, b, q

MCSeeds == <<[id |-> m0, sync |-> "syncing"]>>
MCScore == [i \in Ids |-> [x \in Queries |-> IF i = m0 THEN 1 ELSE IF i = a THEN 2 ELSE 0]]
=============================================================================
