---------------------------- MODULE MCLiveTicks ----------------------------
(* Small instances of LiveTicks for TLC.                                   *)
EXTENDS LiveTicks
=============================================================================
