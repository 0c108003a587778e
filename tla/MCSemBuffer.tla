----------------------------- MODULE MCSemBuffer -----------------------------
(***************************************************************************)
(* Two producers and two consumers of SemBuffer.  The items are more than  *)
(* twice the slots, so that every slot is used again and the buffer is     *)
(* full, empty and anything between.                                       *)
(***************************************************************************)
EXTENDS SemBuffer
=============================================================================
