------------------------------- MODULE MCLogger -------------------------------
(***************************************************************************)
(* Three threads with two entries each.                                    *)
(***************************************************************************)
EXTENDS Logger
=============================================================================
