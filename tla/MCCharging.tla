----------------------------- MODULE MCCharging -----------------------------
(* Instances of Charging for TLC.                                          *)
EXTENDS Charging, TLC

Symmetry == Permutations(Reqs)
=============================================================================
