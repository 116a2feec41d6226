SPECIFICATION FairSpec
CONSTANTS
  None = None
  r1 = r1
  r2 = r2
  r3 = r3
  a1 = a1
  a2 = a2
  Release = {r1, r2}
  Book = {1, 2}
  Author = {a1}
  Rank <- MCRank
  Books <- MCBooks
  AuthorOf <- MCAuthorOf
  Quality <- MCQuality
  Protocol <- MCProtocol
  Twice = {}
  Rss = {rss}
  Search = {find}
PROPERTIES PutAsideIsStored 
