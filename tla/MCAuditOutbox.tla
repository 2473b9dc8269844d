--------------------------- MODULE MCAuditOutbox ---------------------------
(* AuditOutbox with its promoters and events fixed for TLC.                *)
EXTENDS AuditOutbox, TLC

CONSTANTS e1, e2, e3, forwarder, p1, p2

(* Events and bound promoters are interchangeable: the safety run explores *)
(* one representative of each class of states.                             *)
FitSymmetry == Permutations({e1, e2}) \cup Permutations({p1, p2})
=============================================================================
