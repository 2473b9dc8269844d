--------------------------- MODULE MCKeysetStream ---------------------------
(* KeysetStream over four rows, two times and two values.                  *)
EXTENDS KeysetStream

CONSTANTS v1, v2, All
=============================================================================
