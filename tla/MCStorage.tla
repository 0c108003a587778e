------------------------------ MODULE MCStorage ------------------------------
(***************************************************************************)
(* Two clients of one turn on shared counters, with one process killed;    *)
(* three producers, four items and two slots on semaphores, with two       *)
(* crashes; two users of the files, whose pages have two cells, and two    *)
(* runs that lock the pid file, with one process killed; a helper          *)
(* with a buffer of three bytes in a conversation of four; messages that   *)
(* the network may lose and reorder.                                       *)
(***************************************************************************)
EXTENDS Storage
=============================================================================
