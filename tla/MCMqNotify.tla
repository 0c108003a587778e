------------------------------ MODULE MCMqNotify ------------------------------
(***************************************************************************)
(* All four programs, a queue of two messages and six sends: a second     *)
(* notification while the first is served, and a queue that fills up.      *)
(***************************************************************************)
EXTENDS MqNotify
=============================================================================
