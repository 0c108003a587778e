----------------------------- MODULE MCThreadPool -----------------------------
(***************************************************************************)
(* Three workers and three tasks of ThreadPool: enough for a worker that   *)
(* takes the task another one was woken for, and for two that sleep while  *)
(* a third still tests its predicate.                                      *)
(***************************************************************************)
EXTENDS ThreadPool
=============================================================================
