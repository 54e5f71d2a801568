------------------------------- MODULE MCActionLog -------------------------------
(* Small instances of ActionLog. *)
EXTENDS ActionLog, TLC

(* Workers are interchangeable. *)
Symmetry == Permutations(Workers)
================================================================================
