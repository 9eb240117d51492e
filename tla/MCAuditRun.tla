----------------------------- MODULE MCAuditRun -----------------------------
(* Instance of AuditRun for TLC, with the refinement of RunSlot.            *)
EXTENDS AuditRun, TLC

CONSTANTS u1, u2, q1, q2     \* model values

Symmetry == Permutations(Urls) \cup Permutations(Requests)
=============================================================================
