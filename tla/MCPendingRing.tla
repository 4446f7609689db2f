---------------------------- MODULE MCPendingRing ----------------------------
(* Rings of four entries over four offsets: wrap-around, duplicate bases and
   both shift directions (a release below and above the middle) all occur. *)
EXTENDS PendingRing

MCCap == 4
MCBases == 1 .. 4
=============================================================================
