CONSTANTS
  a = a
  b = b
  c = c
  d = d
  q = q
  t = t
  u = u
  onlyA = onlyA
  all = all
  likeC = likeC
  Symbol = {a, b, c, d, q}
  Target = {a, b, c, d, q, t, u}
  Defined = {a, b, c, t}
  NoAddress = NoAddress
  Length <- Lengths
  Hash <- Hashes
  BucketCount <- BucketCounts
  Pattern = {onlyA, all, likeC}
  KeyOrder <- Keys
  Matches <- FullMatches
  Begins <- PartialMatches
  Unnamed = Unnamed
  Blank = Blank
  Garbled = Garbled
  Commands <- CommandLines
SPECIFICATION FairSpec
INVARIANTS
  ResolverFaithful
  SearchInBucket
  MappedAsRuled
  LinksAsRuled
PROPERTIES
  SearchEnds
