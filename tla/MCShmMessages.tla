---------------------------- MODULE MCShmMessages ----------------------------
(***************************************************************************)
(* One client, whose messages outnumber the slots several times, or two.   *)
(***************************************************************************)
EXTENDS ShmMessages
=============================================================================
