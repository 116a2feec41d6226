SPECIFICATION Spec
CONSTANTS
  pdf = pdf
  mobi = mobi
  epub = epub
  azw3 = azw3
  high = high
  proper = proper
  top = top
  Release = {high, proper, top}
  Quality = {pdf, mobi, epub, azw3}
  Groups = {"g", "h", "none"}
  NoGroup = "none"
  Items <- MCItems
  Allowed = {2, 3}
  Cutoff = azw3
  MinFormatScore = 0
  CutoffFormatScore = 5
  Claim <- MCClaim
  Content <- MCClaim
  Repack = {proper}
  GroupOf <- MCGroupOf
  Cdh = TRUE
  MaxActs = 1
  Nothing = Nothing
INVARIANTS QueueAscends OneIsEnough
PROPERTIES Settles 
CHECK_DEADLOCK FALSE
