----------------------------- MODULE MCUEContext ----------------------------
(* Instances of UEContext for TLC.                                         *)
EXTENDS UEContext, TLC

\* Every subscription lists all slices, in some order.
MCSlices == {1, 2}
MCNSSAI == [u \in Supis |-> <<1, 2>>]

Symmetry == Permutations(Reqs) \cup Permutations(Supis) \cup Permutations(Gnbs)
=============================================================================
