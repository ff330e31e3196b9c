----------------------------- MODULE MCAccounts -----------------------------
EXTENDS Accounts, TLC

CONSTANTS h1, h2, e1, e2, g1, g2, n1

\* Slots, addresses and identities differ only by what is done with them.
Symmetry == Permutations(Slot) \cup Permutations(Email) \cup Permutations(Sub)
=============================================================================
