CONSTANTS
  Handle = {h1, h2, h3, h4, h5, h6}
  MaxHandles = 5
  Junk = Junk
SPECIFICATION Spec
INVARIANTS
  TypeOK
  BlockCoversList
  ListedOnce
PROPERTY ImplementsLoadOrder
