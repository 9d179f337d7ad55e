----------------------------- MODULE ChatSessionsMC ------------------------------
(***************************************************************************)
(* Bounded instances of ChatSessions for TLC.                              *)
(***************************************************************************)
EXTENDS ChatSessions, TLC

CONSTANTS s1, s2, c1, c2, c3

SessionSymmetry == Permutations(Sessions) \cup Permutations(Chats)
================================================================================
