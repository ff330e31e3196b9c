-------------------------- MODULE MCStationReviews --------------------------
EXTENDS StationReviews, TLC

CONSTANTS r1, r2, r3, r4, u1, u2

\* Nothing depends on which request or user it is.
Symmetry == Permutations(Request) \cup Permutations(User)
=============================================================================
