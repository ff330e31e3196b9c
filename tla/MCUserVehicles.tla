--------------------------- MODULE MCUserVehicles ---------------------------
EXTENDS UserVehicles, TLC

CONSTANTS h1, h2, m1, m2, m3

\* Nothing depends on a request's slot, nor on which model is which.
Symmetry == Permutations(Handler) \cup Permutations(Model)
=============================================================================
