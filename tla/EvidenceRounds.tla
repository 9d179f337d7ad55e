----------------------------- MODULE EvidenceRounds ------------------------------
(***************************************************************************)
(* What an investigation promises the services it reads from: a first      *)
(* round of a few reads, at most one second round of fewer still, and      *)
(* never the same read twice.                                              *)
(***************************************************************************)
EXTENDS Integers, FiniteSets

CONSTANTS FirstLimit, SecondLimit

(* The reads of the first and of the second round.                         *)
VARIABLES first, later

Round(reads, limit) == reads # {} /\ IsFiniteSet(reads) /\ Cardinality(reads) <= limit

Init == first = {} /\ later = {}

FirstRound ==
  /\ first = {} /\ later = {}
  /\ Round(first', FirstLimit) /\ UNCHANGED later

SecondRound ==
  /\ later = {}
  /\ Round(later', SecondLimit) /\ later' \cap first = {} /\ UNCHANGED first

Next == FirstRound \/ SecondRound

Spec == Init /\ [][Next]_<<first, later>>
================================================================================
