---------------------------- MODULE MCRateLimiter -----------------------------
(***************************************************************************)
(* A small instance of RateLimiter: one person who logs in and asks for     *)
(* e-mails, from one connection, and one visitor of a page.                *)
(***************************************************************************)
EXTENDS RateLimiter, TLC

CONSTANTS account, connection, mail, visitor, r1, r2

MCKeys     == {account, connection, mail, visitor}
MCSubjects == {{account, mail}}
MCTraffic  == {{login(account, connection), resetPassword(account)},
               {changePassword(account), verifyEmail(account)},
               {signup(connection)},
               {requestEmailChange(account, mail, connection)},
               {forgotPassword(mail, connection)},
               {pageEvent(visitor)}, {geoSearch(mail)}}
MCMax      == [k \in MCKeys |-> IF k = mail THEN 2 ELSE 1]
MCWindow   == [k \in MCKeys |-> 2]

Symmetric == Permutations({r1, r2})
================================================================================
