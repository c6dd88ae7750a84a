------------------------------ MODULE MCRevdial ------------------------------
EXTENDS Revdial, TLC

CONSTANTS d1, d2, d3

ThreeDials == {d1, d2, d3}
TwoDials == {d1, d2}
Symmetry == Permutations(Dials)
=============================================================================
