CONSTANTS
  a = a
  b = b
  c = c
  bb = bb
  Thread = {t1, t2}
  NoThread = NoThread
  Handle = {h1, h2, h3, h4}
  Null = Null
  Main = Main
  Path = {a, b, c}
  NoPath = NoPath
  Needs <- ExcessNeeds
  Inside <- SamePath
  Faults <- ReadFaults
  Callers = {}
  Modes <- GlobalMode
  MaxHandles = 4
  MaxDeps = 1
  MaxCalls = 3
SPECIFICATION Spec
SYMMETRY Symmetry
INVARIANTS
  TypeOK
  RefcountExact
  NothingDangles
PROPERTIES
  MappedWhileReferred
  ImplementsRefCounted
