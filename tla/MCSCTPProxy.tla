---------------------------- MODULE MCSCTPProxy -----------------------------
(* Instances of SCTPProxy for TLC.                                         *)
EXTENDS SCTPProxy, TLC

CONSTANTS u1, u2, g1, g2

\* Two UEs of one gNB.
SameGnb == [u \in {u1, u2} |-> g1]
\* One UE at each of two gNBs.
TwoGnbs == [u \in {u1, u2} |-> IF u = u1 THEN g1 ELSE g2]
\* RAN-UE-NGAP-IDs: different ones, and each gNB's first.
Distinct == [u \in {u1, u2} |-> IF u = u1 THEN 1 ELSE 2]
Equal == [u \in {u1, u2} |-> 1]

Symmetry == Permutations(Conns)
=============================================================================
