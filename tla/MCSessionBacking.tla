-------------------------- MODULE MCSessionBacking --------------------------
(* Instances of SessionBacking for TLC; see MCPDUSession for the symmetry. *)
EXTENDS SessionBacking, TLC

Symmetry == Permutations(Creates) \cup Permutations(Ops) \cup Permutations(Supis)
=============================================================================
