-------------------------- MODULE MCAuthentication --------------------------
(* Instances of Authentication for TLC.                                    *)
EXTENDS Authentication, TLC

Symmetry == Permutations(Auths)
=============================================================================
