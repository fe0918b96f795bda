--------------------------- MODULE MC_Matchmaking ---------------------------
EXTENDS Matchmaking, TLC

Symmetric == Permutations(Players) \cup Permutations(Ports) \cup Permutations(Tokens)
=============================================================================
