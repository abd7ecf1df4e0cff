CONSTANTS
  a = a
  b = b
  c = c
  x = x
  y = y
  Handle = {a, b, c}
  Main = Main
  Nobody = Nobody
  Resolver = Resolver
  Program = Program
  Junk = Junk
  Name = {x, y}
  MaxHandles = 3
  Searches <- AllSearches
SPECIFICATION FairSpec
INVARIANTS
  TypeOK
  FirstScopeWins
  RelocatedOrFailed
  LocksBalanced
  OwnSymbolFirst
  AddressFound
PROPERTIES
  SearchEnds
