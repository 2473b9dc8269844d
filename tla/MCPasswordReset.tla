-------------------------- MODULE MCPasswordReset --------------------------
(* PasswordReset with four passwords and at most two requests at a time.   *)
EXTENDS PasswordReset, TLC

CONSTANTS w1, w2, w3, w4, r1, r2

(* Passwords and requests are interchangeable.                             *)
ResetSymmetry == Permutations({w1, w2, w3, w4}) \cup Permutations({r1, r2})
=============================================================================
