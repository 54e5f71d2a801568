----------------------------- MODULE MCAuditTrail -----------------------------
(* Small instances of AuditTrail. *)
EXTENDS AuditTrail, TLC

(* Actions and users are interchangeable.                                  *)
Symmetry == Permutations(Actions) \cup Permutations(Users)
================================================================================
