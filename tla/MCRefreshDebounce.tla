-------------------------- MODULE MCRefreshDebounce --------------------------
EXTENDS RefreshDebounce, TLC

Symmetric == Permutations(Refresher)
=============================================================================
