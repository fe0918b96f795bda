----------------------------- MODULE MC_Parties -----------------------------
EXTENDS Parties, TLC

\* Nothing in Parties tells one player from another.
Symmetry == Permutations(Players)
=============================================================================
