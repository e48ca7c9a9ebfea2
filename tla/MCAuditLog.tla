----------------------------- MODULE MCAuditLog -----------------------------
(* AuditLog on small instances; threads are interchangeable. *)
EXTENDS AuditLogRefinement, TLC

Symmetry == Permutations(Threads)
=============================================================================
