--------------------------- MODULE MCRefreshTokens ---------------------------
EXTENDS RefreshTokens, TLC

CONSTANTS r1, r2, r3, r4, r5, u1, u2

\* Requests differ only by what they do, which is decided when they arrive.
Symmetry == Permutations(Request) \cup Permutations(User)
=============================================================================
