SPECIFICATION Spec
CONSTANTS
  None = None
  r1 = r1
  r2 = r2
  r3 = r3
  a1 = a1
  a2 = a2
  Release = {r1, r2, r3}
  Book = {1, 2, 3}
  Author = {a1, a2}
  Rank <- MCRank
  Books <- MCBooks
  AuthorOf <- MCAuthorOf
  Quality <- MCQuality
  Protocol <- MCProtocol
  Twice = {r3}
  Rss = {rss}
  Search = {}
INVARIANTS GrabbedNotPending
PROPERTIES OnlyUpgrades
