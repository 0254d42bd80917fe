-------------------------------- MODULE MCPages --------------------------------
(***************************************************************************)
(* Small instances of Pages: two businesses that may want the same name,   *)
(* one prepared page, a trial of one unit of time.                         *)
(***************************************************************************)
EXTENDS Pages, TLC

CONSTANTS b1, b2, n1, n2, t1, d1, d2, i1, r1, r2

MCSent == {[name |-> n1, bio |-> t1, rate |-> TRUE], [name |-> n2, bio |-> None],
           [category |-> "vet", bio |-> t1], [draft |-> d1], [draft |-> d2]}

MCCrowds == {{"mine"}, {"mine", "approve"}, {"mine", "claim"}}

MCTraffic == MCCrowds \cup
             {{"mine", "claim", "invite", "approve", "delete"},
              {"mine", "approve", "status"},
              {"design", "publish", "approve", "plan"}}

\* Where the clash of slugs is not the question, one business is enough.
MCPopulation == [t \in MCTraffic |->
    IF t \in {{"mine", "approve"}, {"mine", "claim"}, {"design", "publish", "approve", "plan"}}
    THEN 1 ELSE 2]

Symmetric == Permutations({r1, r2}) \cup Permutations({b1, b2}) \cup Permutations({d1, d2})
================================================================================
