---------------------------- MODULE MCExecutorRequest ----------------------------
(* Small instances of ExecutorRequest. *)
EXTENDS ExecutorRequest
================================================================================
