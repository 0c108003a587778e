----------------------------- MODULE MCPrograms -----------------------------
(***************************************************************************)
(* Three workers of two turns, two goods, and a waiter that sleeps at      *)
(* every even number up to 4; two signals of each kind and three from the  *)
(* user; commands that exit with 0, 1 or 127 or die of SIGKILL or SIGABRT, *)
(* the latter with or without a core dump.                                 *)
(***************************************************************************)
EXTENDS Programs
=============================================================================
