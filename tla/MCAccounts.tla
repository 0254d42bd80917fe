------------------------------ MODULE MCAccounts -------------------------------
(***************************************************************************)
(* Small instances of Accounts: one person and two addresses, or two        *)
(* instances of the server.                                                *)
(***************************************************************************)
EXTENDS Accounts, TLC

CONSTANTS p1, e1, e2, i1, i2, r1, r2

MCTraffic ==
    {{"sendCode", "verifyEmail", "requestChange", "confirmChange", "updateMe"},
     {"sendCode", "verifyEmail", "confirmChange", "adminUpdate"},
     {"requestReset", "reset", "changePassword", "updateMe"},
     {"status", "standing", "updateMe", "delete"}}

Symmetric == Permutations({r1, r2}) \cup Permutations({i1, i2})
================================================================================
