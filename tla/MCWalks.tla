-------------------------------- MODULE MCWalks --------------------------------
(***************************************************************************)
(* Small instances of Walks: a walker with one booking, a vet, two owners  *)
(* who may review it, and recurring requests for two kinds of week.        *)
(***************************************************************************)
EXTENDS Walks, TLC

CONSTANTS o1, o2, w1, v1, k1, r1, r2

MCOwnerOf    == k1 :> o1
MCBusinessOf == k1 :> w1

MCRecurrences == {[weekdays |-> {1, 3}, time |-> 1, count |-> 3, until |-> 99],
                  [weekdays |-> {0, 1, 2}, time |-> 1, count |-> 9, until |-> 7]}

MCCrowds  == {{"log", "move"}, {"write", "reply", "move"}, {"recurring"}}
MCTraffic == MCCrowds \cup {{"log", "move", "delete"}, {"write", "reply", "delete", "move"}}

Symmetric == Permutations({r1, r2})
================================================================================
