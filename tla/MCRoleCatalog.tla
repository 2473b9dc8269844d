--------------------------- MODULE MCRoleCatalog ---------------------------
(* RoleCatalog with one seeded screen and at most two requests at a time.  *)
EXTENDS RoleCatalog, TLC

CONSTANTS x1, x2, super_admin, n1, n2, a1, a2, r1, r2

(* Ids of roles, admins and requests are interchangeable.                  *)
CatalogSymmetry ==
    Permutations({x1, x2}) \cup Permutations({a1, a2}) \cup Permutations({n1, n2}) \cup
    Permutations({r1, r2})

SeededScreens == {[code |-> 1, write |-> TRUE]}

(* Two lists with no screen in common: replacements that overlap merge.    *)
ClientAsks == {{<<1, "R">>, <<1, "W">>}, {<<2, "R">>}}
=============================================================================
