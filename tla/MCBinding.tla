----------------------------- MODULE MCBinding ------------------------------
(* Instances of Binding for TLC.                                           *)
EXTENDS Binding, TLC

Symmetry == Permutations(Reqs) \cup Permutations(Addrs) \cup Permutations(Dnns)
=============================================================================
