-------------------------- MODULE MCPendingReleases --------------------------
EXTENDS PendingReleases

CONSTANTS r1, r2, r3, a1, a2

\* The best release covers one book, the next one that book and another; the
\* third is of another author.
MCRank     == [r \in Release |-> CASE r = r1 -> 1 [] r = r2 -> 2 [] r = r3 -> 3]
MCBooks    == [r \in Release |-> CASE r = r1 -> {1} [] r = r2 -> {1, 2} [] r = r3 -> {3}]
MCAuthorOf == [r \in Release |-> IF r = r3 THEN a2 ELSE a1]
MCQuality  == [r \in Release |-> IF r = r1 THEN 2 ELSE 1]
MCProtocol == [r \in Release |-> IF r = r2 THEN "torrent" ELSE "usenet"]
=============================================================================
