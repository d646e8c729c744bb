------------------------------ MODULE MCCosigner ------------------------------
EXTENDS Cosigner

CONSTANTS u1, a, p1, p2, c1, c2, c3

\* Cosignatures are issued at most MaxCosigs times per authcode in a run.
MaxCosigs == 2

\* Bounds the replays of one authcode (the code never removes it).
CosigConstraint == \A r \in cosigs : r.n <= MaxCosigs
=============================================================================
