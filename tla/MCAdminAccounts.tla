-------------------------- MODULE MCAdminAccounts --------------------------
(* AdminAccounts with two admins and at most two requests at a time.       *)
EXTENDS AdminAccounts, TLC

CONSTANTS a1, a2, old, new, r1, r2

(* Requests, admins and passwords are interchangeable.                     *)
AccountSymmetry ==
    Permutations({a1, a2}) \cup Permutations({old, new}) \cup Permutations({r1, r2})
=============================================================================
