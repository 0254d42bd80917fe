----------------------------- MODULE MCPlanBilling -----------------------------
(***************************************************************************)
(* Small instances of PlanBilling.                                         *)
(***************************************************************************)
EXTENDS PlanBilling, TLC

CONSTANTS b1, r1, r2, x1, c1

Symmetric == Permutations({r1, r2})
================================================================================
