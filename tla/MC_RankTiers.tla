---------------------------- MODULE MC_RankTiers ----------------------------
EXTENDS RankTiers

\* The largest changes of the three K-factors, half of one, and none.
SomeChanges == {-64, -32, -24, 0, 12, 24, 32, 64}
=============================================================================
