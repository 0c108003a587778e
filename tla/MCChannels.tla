----------------------------- MODULE MCChannels -----------------------------
(***************************************************************************)
(* Two clients and two lines of Channels: enough for two requests in one   *)
(* read, for two children that end together, and for a client whose second *)
(* line finds what the first one left.                                     *)
(***************************************************************************)
EXTENDS Channels
=============================================================================
