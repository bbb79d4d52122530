---------------------------- MODULE MCPDUSession ----------------------------
(* Instances of PDUSession for TLC.  Requests and subscribers are model    *)
(* values and interchangeable; addresses and SEIDs are ordered and are not.*)
EXTENDS PDUSession, TLC

Symmetry == Permutations(Creates) \cup Permutations(Ops) \cup Permutations(Supis)
=============================================================================
