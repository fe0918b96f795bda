----------------------------- MODULE MC_Results -----------------------------
EXTENDS MatchResults, TLC

AnyMatch == Permutations(Matches)
=============================================================================
