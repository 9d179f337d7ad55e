------------------------------ MODULE ChatHistoryMC ------------------------------
(***************************************************************************)
(* Bounded instances of ChatHistory for TLC.                               *)
(***************************************************************************)
EXTENDS ChatHistory

CONSTANTS r1, r2, c1
================================================================================
