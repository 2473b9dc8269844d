--------------------------- MODULE AuditEvidence ---------------------------
(***************************************************************************)
(* What the audit trail promises: an event accepted as a Pending Audit     *)
(* Intent is turned into evidence exactly once, and evidence only grows.   *)
(* AuditOutbox is the mechanism (repositories/audit_repository.py) that    *)
(* is checked and proved against this specification.                       *)
(***************************************************************************)
EXTENDS Naturals, Sequences, FiniteSets

CONSTANT Events     \* the consequential actions that may be claimed

VARIABLES
    pending,        \* events accepted and not yet turned into evidence
    evidence        \* the evidence, oldest first

vars == <<pending, evidence>>

Claimed == pending \cup {evidence[i] : i \in 1..Len(evidence)}

(* The ways to lay out a finite set of events one after the other.         *)
Orderings(B) ==
    {s \in [1..Cardinality(B) -> B] :
        \A i, j \in 1..Cardinality(B) : s[i] = s[j] => i = j}

Init ==
    /\ pending = {}
    /\ evidence = <<>>

Accept(e) ==
    /\ e \notin Claimed
    /\ pending' = pending \cup {e}
    /\ UNCHANGED evidence

(* A batch leaves the outbox and becomes evidence in a single step.        *)
Forge ==
    \E B \in (SUBSET pending) \ {{}} :
        /\ \E s \in Orderings(B) : evidence' = evidence \o s
        /\ pending' = pending \ B

Next == Forge \/ \E e \in Events : Accept(e)

Spec == Init /\ [][Next]_vars

FairSpec == Spec /\ WF_vars(Forge)
=============================================================================
