------------------------------- MODULE ChatTabMC ---------------------------------
(***************************************************************************)
(* Bounded instances of ChatTab for TLC.                                   *)
(***************************************************************************)
EXTENDS ChatTab, TLC

CONSTANTS s1, s2, c1, c2, c3
================================================================================
