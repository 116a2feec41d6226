--------------------------- MODULE MCProviderStatus ---------------------------
EXTENDS ProviderStatus

\* An indexer (every level, no grace) and a download client (one level less,
\* a grace after the first failure).
MCProvider == {1, 2}
MCPeriods  == [l \in 0..4 |-> <<0, 1, 2, 3, 5>>[l + 1]]
MCMaximum  == <<4, 3>>
MCGrace    == <<0, 2>>
=============================================================================
