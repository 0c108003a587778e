---------------------------- MODULE MCMsgService ----------------------------
(***************************************************************************)
(* MsgService by itself: one client and one line are enough for a child    *)
(* that takes its own answer back.                                         *)
(***************************************************************************)
EXTENDS MsgService
=============================================================================
