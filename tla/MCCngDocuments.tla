--------------------------- MODULE MCCngDocuments ---------------------------
EXTENDS CngDocuments, TLC

CONSTANTS r1, r2, r3, r4, t1

\* Requests differ only by what they do, which is decided when they arrive.
RequestSymmetry == Permutations(Request)
=============================================================================
