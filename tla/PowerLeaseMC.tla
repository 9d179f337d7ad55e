------------------------------ MODULE PowerLeaseMC -------------------------------
(***************************************************************************)
(* Bounded instances of PowerLease for TLC.                                *)
(***************************************************************************)
EXTENDS PowerLease, TLC

Setting(epp, freq) == [epp |-> epp, freq |-> freq]

(* Every policy unlike low power, and each policy partly like it already. *)
MixedTunings ==
  {[p \in Policies |-> Setting("balance", "full")],
   [p \in Policies |-> IF p = 1 THEN Setting("low", "full") ELSE Setting("balance", "low")]}

RequestSymmetry == Permutations(Requests)
================================================================================
